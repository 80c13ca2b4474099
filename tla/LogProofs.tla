------------------------------- MODULE LogProofs -------------------------------
(***************************************************************************)
(* Proofs about Log for every buffer size and any number of lines and of   *)
(* calls of init and loading: no line is lost, doubled or overtaken, and   *)
(* the assertions of the log thread hold, on its buffers and on running_.  *)
(***************************************************************************)
EXTENDS Log, WellFoundedInduction, SequenceTheorems, TLAPS

-------------------------------------------------------------------------------
(* What FlattenSeq computes.                                                 *)

(* A nonempty set of naturals has a least element.  It turns a claim about every
   length of a sequence into one about the least length for which it fails. *)
LEMMA NatMin ==
  ASSUME NEW S \in SUBSET Nat, S # {}
  PROVE  \E m \in S : \A k \in S : m <= k
<1> DEFINE R == OpToRel(<, Nat)
<1>1. IsWellFoundedOn(R, Nat)
  BY NatLessThanWellFounded
<1>2. \E x \in S : \A y \in S : ~ (<<y, x>> \in R)
  BY <1>1, WFMin, Zenon
<1>3. \A x, y \in Nat : y < x => <<y, x>> \in R
  BY DEF OpToRel
<1> HIDE DEF R
<1>4. PICK m \in S : \A y \in S : ~ (<<y, m>> \in R)
  BY <1>2
<1>5. ASSUME NEW k \in S PROVE m <= k
  <2>1. m \in Nat /\ k \in Nat
    OBVIOUS
  <2>2. ~(k < m)
    BY <2>1, <1>4, <1>3, Zenon
  <2> QED
    BY <2>1, <2>2
<1> QED
  BY <1>5

(* f holds the concatenations of the first 1, 2, ... n buffers of s, by the
   recursion of FlattenSeq. *)
Accumulates(f, s, n) ==
  \A i \in 1..n : f[i] = IF i = 1 THEN s[i] ELSE f[i - 1] \o s[i]
Flattens(f, s, n) == f \in [1..n -> Lines] /\ Accumulates(f, s, n)

(* Two runs of lines make a run of lines. *)
LEMMA LinesConcat ==
  ASSUME NEW a \in Lines, NEW b \in Lines
  PROVE a \o b \in Lines
  BY DEF Lines

(* The recursion of FlattenSeq has a solution, for every sequence of buffers. *)
LEMMA FlattensExists ==
  ASSUME NEW s \in Seq(Lines), NEW n \in 1..Len(s)
  PROVE  \E f : Flattens(f, s, n)
<1> DEFINE Bad == {k \in 1..Len(s) : \A f : ~Flattens(f, s, k)}
<1> SUFFICES ASSUME Bad # {} PROVE FALSE
  OBVIOUS
<1>1. PICK m \in Bad : \A k \in Bad : m <= k
  <2>1. Bad \in SUBSET Nat
    OBVIOUS
  <2> HIDE DEF Bad
  <2> QED
    BY <2>1, NatMin
<1>2. m \in 1..Len(s) /\ \A f : ~Flattens(f, s, m)
  OBVIOUS
<1>3. CASE m = 1
  <2> DEFINE f == [i \in 1..1 |-> s[1]]
  <2>1. Flattens(f, s, 1)
    BY <1>2, <1>3 DEF Flattens, Accumulates
  <2> QED
    BY <2>1, <1>2, <1>3
<1>4. CASE m # 1
  <2>1. m - 1 \in 1..Len(s) /\ m - 1 \notin Bad
    <3>1. m - 1 \in 1..Len(s) /\ ~(m <= m - 1)
      BY <1>2, <1>4
    <3> HIDE DEF Bad
    <3> QED
      BY <1>1, <3>1
  <2>2. PICK g : Flattens(g, s, m - 1)
    BY <2>1
  <2> HIDE DEF Bad
  <2> DEFINE f == [i \in 1..m |-> IF i = m THEN g[m - 1] \o s[m] ELSE g[i]]
  <2>3. g[m - 1] \o s[m] \in Lines
    BY <2>1, <2>2, <1>2, LinesConcat DEF Flattens, Accumulates
  <2>4. f \in [1..m -> Lines]
    BY <2>2, <2>3, <1>2 DEF Flattens, Accumulates
  <2>5. ASSUME NEW i \in 1..m
        PROVE  f[i] = IF i = 1 THEN s[i] ELSE f[i - 1] \o s[i]
    <3>1. CASE i = m
      <4>1. m \in 1..m /\ m - 1 \in 1..m /\ m - 1 # m
        BY <1>2, <1>4
      <4>2. f[m] = g[m - 1] \o s[m] /\ f[m - 1] = g[m - 1]
        BY <4>1
      <4> HIDE DEF f
      <4> QED
        BY <3>1, <1>4, <4>2
    <3>2. CASE i # m
      <4>1. i \in 1..(m-1) /\ (i # 1 => i - 1 \in 1..m /\ i - 1 # m)
        BY <3>2, <1>2
      <4>2. f[i] = g[i] /\ (i # 1 => f[i - 1] = g[i - 1])
        BY <4>1, <3>2
      <4> HIDE DEF f
      <4> QED
        BY <4>1, <4>2, <2>2 DEF Flattens, Accumulates
    <3> QED
      BY <3>1, <3>2
  <2>6. Flattens(f, s, m)
    BY <2>4, <2>5 DEF Flattens, Accumulates
  <2> QED
    BY <2>6, <1>2
<1> QED
  BY <1>3, <1>4

(* ... and only one. *)
LEMMA FlattensUnique ==
  ASSUME NEW s, NEW n \in Nat, NEW f, NEW g, Accumulates(f, s, n), Accumulates(g, s, n)
  PROVE  \A i \in 1..n : f[i] = g[i]
<1> DEFINE Bad == {k \in 1..n : f[k] # g[k]}
<1> SUFFICES ASSUME Bad # {} PROVE FALSE
  OBVIOUS
<1>1. PICK m \in Bad : \A k \in Bad : m <= k
  <2>1. Bad \in SUBSET Nat
    OBVIOUS
  <2> HIDE DEF Bad
  <2> QED
    BY <2>1, NatMin
<1>2. m \in 1..n /\ f[m] # g[m]
  OBVIOUS
<1>3. m # 1
  BY <1>2 DEF Accumulates
<1>4. m - 1 \in 1..n /\ ~(m <= m - 1)
  BY <1>2, <1>3
<1>5. m - 1 \notin Bad
  <2> HIDE DEF Bad
  <2> QED
    BY <1>1, <1>4
<1>6. f[m - 1] = g[m - 1]
  BY <1>4, <1>5
<1> QED
  BY <1>2, <1>3, <1>6 DEF Accumulates

(* FlattenSeq is the last element of that solution. *)
LEMMA FlattenIs ==
  ASSUME NEW s \in Seq(Lines), s # <<>>, NEW f, Flattens(f, s, Len(s))
  PROVE  FlattenSeq(s) = f[Len(s)]
<1> DEFINE E(h) == [i \in 1..Len(s) |-> IF i = 1 THEN s[i] ELSE h[i - 1] \o s[i]]
<1> DEFINE g == CHOOSE h : h = E(h)
<1>1. f = E(f)
  BY DEF Flattens, Accumulates
<1>2. g = E(g)
  <2> HIDE DEF E
  <2> QED
    BY <1>1, Zenon
<1>3. Len(s) # 0 /\ Len(s) \in Nat
  OBVIOUS
<1>4. FlattenSeq(s) = g[Len(s)]
  BY <1>3, Zenon DEF FlattenSeq
<1> HIDE DEF g
<1>5. Accumulates(g, s, Len(s))
  BY <1>2 DEF Accumulates
<1>6. \A i \in 1..Len(s) : f[i] = g[i]
  <2>1. Accumulates(f, s, Len(s))
    BY DEF Flattens
  <2> QED
    BY <1>3, <1>5, <2>1, FlattensUnique
<1>7. Len(s) \in 1..Len(s)
  BY <1>3
<1> QED
  BY <1>4, <1>6, <1>7

(* No buffers hold no lines. *)
LEMMA FlattenEmpty == FlattenSeq(<<>>) = <<>>
  BY DEF FlattenSeq

(* The lines of a sequence of buffers are lines. *)
LEMMA FlattenType ==
  ASSUME NEW s \in Seq(Lines)
  PROVE  FlattenSeq(s) \in Lines
<1>1. CASE s = <<>>
  <2>1. <<>> \in Lines
    BY DEF Lines
  <2> QED
    BY <1>1, <2>1, FlattenEmpty
<1>2. CASE s # <<>>
  <2>1. Len(s) \in 1..Len(s)
    BY <1>2
  <2>2. PICK f : Flattens(f, s, Len(s))
    BY <2>1, FlattensExists
  <2>3. f[Len(s)] \in Lines
    BY <2>1, <2>2 DEF Flattens, Accumulates
  <2> QED
    BY <1>2, <2>2, <2>3, FlattenIs
<1> QED
  BY <1>1, <1>2

(* A buffer pushed behind others brings its lines behind theirs. *)
LEMMA FlattenAppend ==
  ASSUME NEW s \in Seq(Lines), NEW x \in Lines
  PROVE  FlattenSeq(Append(s, x)) = FlattenSeq(s) \o x
<1> DEFINE t == Append(s, x)
           n == Len(s)
<1>1. /\ t \in Seq(Lines) /\ t # <<>> /\ Len(t) = n + 1 /\ t[n + 1] = x /\ n \in Nat
      /\ \A i \in 1..n : t[i] = s[i]
  OBVIOUS
<1> HIDE DEF t
<1>2. PICK f : Flattens(f, t, n + 1)
  BY <1>1, FlattensExists
<1>3. FlattenSeq(t) = f[n + 1]
  BY <1>1, <1>2, FlattenIs
<1>4. CASE s = <<>>
  <2>1. n = 0
    BY <1>4
  <2>2. f[1] = x
    BY <1>1, <1>2, <2>1 DEF Flattens, Accumulates
  <2>3. <<>> \o x = x
    BY DEF Lines
  <2>4. FlattenSeq(t) = x /\ FlattenSeq(s) = <<>>
    BY <1>3, <2>1, <2>2, <1>4, FlattenEmpty
  <2> QED
    BY <2>3, <2>4 DEF t
<1>5. CASE s # <<>>
  <2>1. n # 0
    BY <1>5
  <2> HIDE DEF n
  <2>2. f[n + 1] = f[n] \o x
    <3>1. n + 1 \in 1..(n + 1) /\ n + 1 # 1 /\ (n + 1) - 1 = n
      BY <1>1, <2>1
    <3>2. f[n + 1] = f[(n + 1) - 1] \o t[n + 1]
      BY <3>1, <1>2, Zenon DEF Flattens, Accumulates
    <3> QED
      BY <1>1, <3>1, <3>2
  <2>3. Flattens([i \in 1..n |-> f[i]], s, n)
    <3> DEFINE g == [i \in 1..n |-> f[i]]
    <3>1. g \in [1..n -> Lines]
      BY <1>1, <1>2 DEF Flattens, Accumulates
    <3>2. ASSUME NEW i \in 1..n
          PROVE  g[i] = IF i = 1 THEN s[i] ELSE g[i - 1] \o s[i]
      <4>1. i \in 1..(n + 1) /\ (i # 1 => i - 1 \in 1..n)
        BY <1>1
      <4>2. f[i] = IF i = 1 THEN t[i] ELSE f[i - 1] \o t[i]
        BY <4>1, <1>2 DEF Flattens, Accumulates
      <4>3. t[i] = s[i]
        BY <1>1
      <4> QED
        BY <4>1, <4>2, <4>3
    <3> QED
      BY <3>1, <3>2 DEF Flattens, Accumulates
  <2>4. FlattenSeq(s) = f[n]
    <3>1. n \in 1..n
      BY <1>1, <2>1
    <3>2. FlattenSeq(s) = [i \in 1..n |-> f[i]][n]
      BY <1>5, <2>3, FlattenIs DEF n
    <3> QED
      BY <3>1, <3>2
  <2> QED
    BY <1>3, <2>2, <2>4 DEF t
<1> QED
  BY <1>4, <1>5

(* Buffers that have been written and erased hold no lines. *)
LEMMA FlattenErased ==
  ASSUME NEW n \in Nat
  PROVE  FlattenSeq([i \in 1..n |-> <<>>]) = <<>>
<1> DEFINE s == [i \in 1..n |-> <<>>]
<1>1. <<>> \in Lines
  BY DEF Lines
<1>2. s \in Seq(Lines) /\ Len(s) = n /\ \A i \in 1..n : s[i] = <<>>
  BY <1>1
<1>3. CASE n = 0
  <2>1. s = <<>>
    BY <1>2, <1>3
  <2> QED
    BY <2>1, FlattenEmpty
<1>4. CASE n # 0
  <2> DEFINE f == [i \in 1..n |-> <<>>]
  <2>1. <<>> \o <<>> = <<>>
    OBVIOUS
  <2>2. \A i \in 1..n : i # 1 => i - 1 \in 1..n
    OBVIOUS
  <2>3. Flattens(f, s, n)
    BY <1>1, <2>1, <2>2 DEF Flattens, Accumulates
  <2>4. s # <<>> /\ n \in 1..n
    BY <1>2, <1>4
  <2>5. f[n] = <<>>
    BY <2>4
  <2> HIDE DEF s, f
  <2>6. FlattenSeq(s) = f[n]
    BY <2>3, <2>4, <1>2, FlattenIs
  <2> QED
    BY <2>5, <2>6 DEF s
<1> QED
  BY <1>3, <1>4

(* A line appended to the last run is appended to the whole. *)
LEMMA LinesAppend ==
  ASSUME NEW a \in Lines, NEW b \in Lines, NEW n \in 1..MaxLines
  PROVE  a \o Append(b, n) = Append(a \o b, n)
  BY DEF Lines

(* Concatenation of lines associates, and the empty run is its unit. *)
LEMMA LinesAlgebra ==
  ASSUME NEW a \in Lines, NEW b \in Lines, NEW c \in Lines
  PROVE  /\ (a \o b) \o c = a \o (b \o c)
         /\ a \o <<>> = a /\ <<>> \o a = a
  BY DEF Lines

-------------------------------------------------------------------------------
(* The inductive invariant.                                                  *)

(* The buffers go round: outside the write the log thread has both its spares
   and holds no full buffer; between the take and the recycling it holds enough
   to make the spares it gave away; and while the front has no spare there is a
   full buffer that will become one, unless init discarded it. *)
Spares ==
  /\ tpc \notin {"write", "recycle"} /\ fault = "none" => newBuffer1 /\ newBuffer2
  /\ tpc \notin {"write", "recycle"} => buffer_write = <<>>
  /\ tpc \in {"write", "recycle"} =>
        buffer_write # <<>> /\ (discarded \/ newBuffer2 \/ Len(buffer_write) >= 2)
  /\ discarded \/ next_buffer_ \/ buffer_ # <<>>

(* The buffers kept for recycling were written and erased. *)
Erased == tpc = "recycle" => FlattenSeq(buffer_write) = <<>>

(* Between the spin and its assertion the log thread finds running_ set, unless a
   stop is waiting for it. *)
Started == tpc = "started" => running_ \/ opc \in {"notify", "join"}

LogInv == /\ TypeOK /\ Spares /\ Erased /\ Started
          /\ LinesConserved /\ EnoughBuffers /\ StartsRunning

(* The actions, as far as every step about them unfolds them. *)
USE LogAssumption
USE DEF poolVars, threadVars, ownerVars, callVars

USE DEF NotifyOne

ThreadStates == {"spin", "started", "test", "lock", "wait", "woken", "write", "recycle",
                 "exited", "joined"}
Faults == {"none", "running", "spares", "file", "join"}
Room == \A b \in {curr_buffer_} \cup ToSet(buffer_) : Len(b) < SIZE

(* refresh_ hands the current buffer over, whole and in its place. *)
LEMMA RefreshHandsOver ==
  ASSUME TypeOK, NEW l \in Lines, Len(l) < SIZE, Refresh(l)
  PROVE  /\ buffer_' \in Seq(Lines) /\ buffer_' # <<>>
         /\ curr_buffer_' = l /\ next_buffer_' = FALSE
         /\ tpc' \in ThreadStates
         /\ tpc \in {"write", "recycle"} => tpc' = tpc
         /\ tpc' \in {"write", "recycle"} => tpc' = tpc
         /\ Room'
         /\ FlattenSeq(buffer_') = FlattenSeq(buffer_) \o curr_buffer_
<1>1. buffer_ \in Seq(Lines) /\ curr_buffer_ \in Lines
  BY DEF TypeOK
<1>2. buffer_' = Append(buffer_, curr_buffer_)
  BY DEF Refresh
<1>3. /\ buffer_' \in Seq(Lines) /\ buffer_' # <<>>
      /\ \A i \in DOMAIN buffer_' : buffer_'[i] = curr_buffer_ \/ buffer_'[i] \in ToSet(buffer_)
  BY <1>1, <1>2 DEF ToSet
<1>4. Room'
  <2> SUFFICES ASSUME NEW b \in {curr_buffer_'} \cup ToSet(buffer_')
               PROVE  Len(b) < SIZE
    BY DEF Room
  <2>1. b = l \/ b = curr_buffer_ \/ b \in ToSet(buffer_)
    BY <1>3 DEF Refresh, ToSet
  <2> QED
    BY <2>1 DEF TypeOK
<1>5. FlattenSeq(buffer_') = FlattenSeq(buffer_) \o curr_buffer_
  BY <1>1, <1>2, FlattenAppend
<1>6. tpc' = IF tpc = "wait" THEN "woken" ELSE tpc
  BY DEF Refresh
<1> QED
  BY <1>3, <1>4, <1>5, <1>6 DEF Refresh, TypeOK, ThreadStates

(* Every variable keeps its type, and no buffer outgrows SIZE. *)
LEMMA NextTypeOK ==
  ASSUME TypeOK, Next
  PROVE  TypeOK'
<1> USE DEF TypeOK
<1>e. <<>> \in Lines /\ <<>> \in Seq(Lines) /\ ToSet(<<>>) = {} /\ Len(<<>>) = 0 /\ 0 < SIZE
  BY DEF Lines, ToSet
<1>1. CASE AppendLine
  <2>1. lines' \in 1..MaxLines /\ lines' \in 0..MaxLines
    BY <1>1 DEF AppendLine
  <2>2. kept' \in Lines
    BY <1>1, <2>1 DEF AppendLine, Lines
  <2>3. CASE Fits
    <3>1. curr_buffer_' \in Lines /\ Len(curr_buffer_') < SIZE
      <4>1. curr_buffer_' = Append(curr_buffer_, lines') /\ curr_buffer_ \in Seq(1..MaxLines)
        BY <1>1, <2>3 DEF AppendLine, Lines
      <4>2. curr_buffer_' \in Seq(1..MaxLines) /\ Len(curr_buffer_') = Len(curr_buffer_) + 1
        BY <2>1, <4>1
      <4> QED
        BY <2>3, <4>2 DEF Fits, Lines
    <3> QED
      BY <1>1, <2>1, <2>2, <2>3, <3>1 DEF AppendLine
  <2>4. CASE ~Fits
    <3>1. <<lines'>> \in Lines /\ Len(<<lines'>>) < SIZE
      BY <2>1 DEF Lines
    <3>2. Refresh(<<lines'>>)
      BY <1>1, <2>4 DEF AppendLine
    <3>3. /\ buffer_' \in Seq(Lines) /\ curr_buffer_' \in Lines
          /\ next_buffer_' = FALSE /\ tpc' \in ThreadStates /\ Room'
      BY <3>1, <3>2, RefreshHandsOver
    <3>4. next_buffer_' \in BOOLEAN
      BY <3>3
    <3> QED
      BY <1>1, <2>1, <2>2, <3>3, <3>4 DEF AppendLine, ThreadStates, Room
  <2> QED
    BY <2>3, <2>4
<1>2. CASE Loading
  <2>1. Refresh(<<>>)
    BY <1>2 DEF Loading
  <2>2. /\ buffer_' \in Seq(Lines) /\ curr_buffer_' \in Lines
        /\ next_buffer_' = FALSE /\ tpc' \in ThreadStates /\ Room'
    BY <1>e, <2>1, RefreshHandsOver
  <2>3. next_buffer_' \in BOOLEAN
    BY <2>2
  <2>4. loads' \in 0..MaxLoads
    BY <1>2 DEF Loading
  <2> QED
    BY <1>2, <2>2, <2>3, <2>4 DEF Loading, ThreadStates, Room
<1>3. CASE SwitchLog
  <2>1. kept' \in Lines
    <3>1. FlattenSeq(buffer_write) \in Lines
      BY FlattenType
    <3> QED
      BY <1>3, <3>1, LinesConcat DEF SwitchLog
  <2>2. inits' \in 0..MaxInits /\ discarded' \in BOOLEAN
    BY <1>3 DEF SwitchLog
  <2>3. fault' \in Faults
    BY <1>3 DEF SwitchLog, Faults
  <2> QED
    BY <1>3, <1>e, <2>1, <2>2, <2>3 DEF SwitchLog, Faults
<1>4. CASE InitRuns
  BY <1>4 DEF InitRuns
<1>5. CASE StopSets \/ StopNotifies \/ StopJoins \/ Destroy
  BY <1>5 DEF StopSets, StopNotifies, StopJoins, Destroy
<1>6. CASE ThreadStarts \/ ThreadAsserts \/ ThreadTests \/ ThreadWaits \/ SpuriousWake
  BY <1>6 DEF ThreadStarts, ThreadAsserts, ThreadTests, ThreadWaits, SpuriousWake
<1>7. CASE ThreadTakes
  <2>1. buffer_write' \in Seq(Lines)
    BY <1>7 DEF ThreadTakes, Taken
  <2>2. {newBuffer1', newBuffer2', next_buffer_'} \subseteq BOOLEAN
    BY <1>7 DEF ThreadTakes
  <2> QED
    BY <1>7, <1>e, <2>1, <2>2 DEF ThreadTakes
<1>8. CASE ThreadWrites
  <2>1. file' \in Lines
    <3>1. FlattenSeq(buffer_write) \in Lines
      BY FlattenType
    <3> QED
      BY <1>8, <3>1, LinesConcat DEF ThreadWrites
  <2>2. buffer_write' \in Seq(Lines)
    BY <1>8, <1>e DEF ThreadWrites
  <2> QED
    BY <1>8, <2>1, <2>2 DEF ThreadWrites
<1>9. CASE ThreadRecycles
  <2>1. newBuffer1' \in BOOLEAN /\ newBuffer2' \in BOOLEAN
    BY <1>9 DEF ThreadRecycles
  <2>2. fault' \in Faults
    BY <1>9 DEF ThreadRecycles, Faults
  <2> QED
    BY <1>9, <1>e, <2>1, <2>2 DEF ThreadRecycles, Faults
<1> QED
  BY <1>1, <1>2, <1>3, <1>4, <1>5, <1>6, <1>7, <1>8, <1>9 DEF Next, ThreadStep, OwnerStep

(* What the step does to the log thread's buffers. *)
LEMMA NextSpares ==
  ASSUME TypeOK, Spares, EnoughBuffers, Next
  PROVE  Spares' /\ EnoughBuffers'
<1> USE DEF Spares, EnoughBuffers
<1>n. fault = "none" /\ tpc \in ThreadStates
  BY DEF Next, TypeOK, ThreadStates
<1>e. <<>> \in Lines /\ Len(<<>>) = 0
  BY DEF Lines
<1>1. CASE AppendLine \/ Loading
  <2>1. /\ tpc \in {"write", "recycle"} <=> tpc' \in {"write", "recycle"}
        /\ (next_buffer_' = next_buffer_ /\ buffer_' = buffer_) \/ buffer_' # <<>>
    <3>1. CASE AppendLine /\ Fits
      BY <3>1 DEF AppendLine
    <3>2. CASE AppendLine /\ ~Fits
      <4>1. Refresh(<<lines'>>)
        BY <3>2 DEF AppendLine
      <4>2. <<lines'>> \in Lines /\ Len(<<lines'>>) < SIZE
        BY <3>2, SMTT(30) DEF AppendLine, TypeOK, Lines
      <4> QED
        BY <4>1, <4>2, RefreshHandsOver
    <3>3. CASE Loading
      <4>1. Refresh(<<>>)
        BY <3>3 DEF Loading
      <4>2. Len(<<>>) < SIZE
        OBVIOUS
      <4> QED
        BY <1>e, <4>1, <4>2, RefreshHandsOver
    <3> QED
      BY <1>1, <3>1, <3>2, <3>3
  <2>2. UNCHANGED <<newBuffer1, newBuffer2, buffer_write, discarded, fault>>
    BY <1>1 DEF AppendLine, Loading
  <2> QED
    BY <1>n, <2>1, <2>2
<1>2. CASE SwitchLog
  <2>1. /\ discarded' = (discarded \/ buffer_ # <<>>)
        /\ UNCHANGED <<next_buffer_, newBuffer1, newBuffer2, buffer_write, tpc>>
        /\ fault' \in {"none", "file"}
    BY <1>2, <1>n DEF SwitchLog
  <2> QED
    BY <1>n, <2>1
<1>3. CASE InitRuns \/ StopNotifies
  BY <1>3, <1>n DEF InitRuns, StopNotifies
<1>4. CASE StopSets \/ StopJoins \/ Destroy
  BY <1>4, <1>n DEF StopSets, StopJoins, Destroy
<1>5. CASE ThreadStarts \/ ThreadAsserts \/ ThreadTests \/ ThreadWaits \/ SpuriousWake
  BY <1>5, <1>n DEF ThreadStarts, ThreadAsserts, ThreadTests, ThreadWaits, SpuriousWake
<1>6. CASE ThreadTakes
  <2>1. newBuffer1 /\ newBuffer2 /\ tpc' = "write" /\ UNCHANGED <<discarded, fault>>
    BY <1>6, <1>n DEF ThreadTakes
  <2>2. /\ next_buffer_' /\ (newBuffer2' <=> next_buffer_)
        /\ buffer_write' = Append(buffer_, curr_buffer_)
    BY <1>6, <2>1 DEF ThreadTakes, Taken
  <2>3. buffer_write' # <<>> /\ (buffer_ # <<>> => Len(buffer_write') >= 2)
    BY <2>2, SMTT(30) DEF TypeOK
  <2> QED
    BY <1>n, <2>1, <2>2, <2>3
<1>7. CASE ThreadWrites
  <2>1. buffer_write' # <<>> /\ Len(buffer_write') = Len(buffer_write)
    BY <1>7, SMTT(30) DEF ThreadWrites, TypeOK
  <2> QED
    BY <1>7, <1>n, <2>1 DEF ThreadWrites
<1>8. CASE ThreadRecycles
  <2>1. Len(buffer_write) >= 1 /\ Len(buffer_write) \in Nat
    BY <1>8 DEF ThreadRecycles, TypeOK
  <2>2. Recyclable >= 1 /\ (Len(buffer_write) >= 2 => Recyclable >= 2)
    BY <2>1 DEF Recyclable
  <2>3. newBuffer1' /\ (newBuffer2' \/ discarded)
    BY <1>8, <2>2 DEF ThreadRecycles
  <2>4. tpc' = "test" /\ buffer_write' = <<>> /\ UNCHANGED <<poolVars, discarded>>
    BY <1>8 DEF ThreadRecycles
  <2>5. fault' = IF ~(newBuffer1' /\ newBuffer2') THEN "spares"
                 ELSE IF fp_ = "open" THEN fault ELSE "file"
    BY <1>8 DEF ThreadRecycles
  <2>6. ~(newBuffer1' /\ newBuffer2') => fault' = "spares" /\ discarded'
    <3>1. ~(newBuffer1' /\ newBuffer2') => discarded'
      BY <2>3, <2>4, Zenon
    <3>2. ~(newBuffer1' /\ newBuffer2') => fault' = "spares"
      BY <2>5
    <3> QED
      BY <3>1, <3>2
  <2>7. newBuffer1' /\ newBuffer2' => fault' # "spares"
    BY <1>n, <2>5
  <2> QED
    BY <2>4, <2>6, <2>7
<1> QED
  BY <1>1, <1>2, <1>3, <1>4, <1>5, <1>6, <1>7, <1>8 DEF Next, ThreadStep, OwnerStep

(* Every line stays on its way, in its place: each step moves lines from one
   store to the next or appends the new one at the end. *)
LEMMA NextLines ==
  ASSUME TypeOK, Spares, Erased, LinesConserved, Next
  PROVE  Erased' /\ LinesConserved'
<1> DEFINE T == file \o FlattenSeq(buffer_write)
           B == FlattenSeq(buffer_)
           C == curr_buffer_
<1>t. T \in Lines /\ B \in Lines /\ C \in Lines /\ file \in Lines
  BY FlattenType, LinesConcat DEF TypeOK
<1>c. (T \o B) \o C = kept
  BY DEF LinesConserved
<1>e. <<>> \in Lines /\ Len(<<>>) = 0 /\ 0 < SIZE
  BY DEF Lines
<1>u. ASSUME UNCHANGED <<file, buffer_write, buffer_, curr_buffer_, kept>>,
             tpc' = "recycle" => tpc = "recycle"
      PROVE  Erased' /\ LinesConserved'
  BY <1>u DEF Erased, LinesConserved
<1>1. CASE AppendLine /\ Fits
  <2>1. /\ UNCHANGED <<file, buffer_write, buffer_, tpc>>
        /\ curr_buffer_' = Append(C, lines') /\ kept' = Append(kept, lines')
    BY <1>1 DEF AppendLine
  <2>2. lines' \in 1..MaxLines
    BY <1>1 DEF AppendLine, TypeOK
  <2>3. (T \o B) \o Append(C, lines') = Append((T \o B) \o C, lines')
    <3>1. T \o B \in Lines
      BY <1>t, LinesConcat
    <3> HIDE DEF T, B, C
    <3> QED
      BY <1>t, <2>2, <3>1, LinesAppend
  <2> QED
    BY <1>c, <2>1, <2>3 DEF Erased, LinesConserved
<1>2. CASE AppendLine /\ ~Fits
  <2>1. /\ UNCHANGED <<file, buffer_write>> /\ kept' = Append(kept, lines')
        /\ Refresh(<<lines'>>)
    BY <1>2 DEF AppendLine
  <2>2. lines' \in 1..MaxLines
    BY <1>2 DEF AppendLine, TypeOK
  <2>3. <<lines'>> \in Lines /\ Len(<<lines'>>) < SIZE
    BY <2>2 DEF Lines
  <2>4. /\ FlattenSeq(buffer_') = B \o C /\ curr_buffer_' = <<lines'>>
        /\ tpc' \in {"write", "recycle"} => tpc' = tpc
    BY <2>1, <2>3, RefreshHandsOver
  <2>5. (T \o (B \o C)) \o <<lines'>> = Append(kept, lines')
    <3>1. T \o (B \o C) = kept
      BY <1>t, <1>c, LinesAlgebra, ZenonT(40)
    <3>2. kept \in Seq(1..MaxLines)
      BY DEF TypeOK, Lines
    <3> QED
      BY <2>2, <3>1, <3>2
  <2> QED
    BY <2>1, <2>4, <2>5 DEF Erased, LinesConserved
<1>3. CASE Loading
  <2>1. UNCHANGED <<file, buffer_write, kept>> /\ Refresh(<<>>)
    BY <1>3 DEF Loading
  <2>2. /\ FlattenSeq(buffer_') = B \o C /\ curr_buffer_' = <<>>
        /\ tpc' \in {"write", "recycle"} => tpc' = tpc
    BY <1>e, <2>1, RefreshHandsOver
  <2>3. (T \o (B \o C)) \o <<>> = kept
    <3>1. T \o (B \o C) = kept
      BY <1>t, <1>c, LinesAlgebra, ZenonT(40)
    <3>2. kept \in Lines
      BY DEF TypeOK
    <3> QED
      BY <3>1, <3>2, LinesAlgebra
  <2> QED
    BY <2>1, <2>2, <2>3 DEF Erased, LinesConserved
<1>4. CASE SwitchLog
  <2>1. /\ UNCHANGED <<file, buffer_write, tpc>>
        /\ buffer_' = <<>> /\ curr_buffer_' = <<>> /\ kept' = T
    BY <1>4 DEF SwitchLog
  <2>2. (T \o <<>>) \o <<>> = T
    BY <1>t, LinesAlgebra
  <2> QED
    BY <2>1, <2>2, FlattenEmpty DEF Erased, LinesConserved
<1>5. CASE InitRuns \/ StopSets \/ StopNotifies \/ StopJoins \/ Destroy
  BY <1>5, <1>u DEF InitRuns, StopSets, StopNotifies, StopJoins, Destroy
<1>6. CASE ThreadStarts \/ ThreadAsserts \/ ThreadTests \/ ThreadWaits \/ SpuriousWake
  BY <1>6, <1>u DEF ThreadStarts, ThreadAsserts, ThreadTests, ThreadWaits, SpuriousWake
<1>7. CASE ThreadTakes
  <2>1. buffer_write = <<>>
    BY <1>7 DEF ThreadTakes, Spares
  <2>2. T = file
    BY <1>t, <2>1, FlattenEmpty, LinesAlgebra
  <2>3. /\ buffer_write' = Append(buffer_, curr_buffer_) /\ UNCHANGED <<file, kept>>
        /\ buffer_' = <<>> /\ curr_buffer_' = <<>> /\ tpc' = "write"
    BY <1>7 DEF ThreadTakes, Taken
  <2>4. FlattenSeq(buffer_write') = B \o C
    BY <2>3, FlattenAppend DEF TypeOK
  <2>5. ((file \o (B \o C)) \o <<>>) \o <<>> = kept
    <3>1. (file \o B) \o C = kept
      BY <1>c, <2>2
    <3> HIDE DEF B, C
    <3>2. file \o (B \o C) = kept
      BY <1>t, <3>1, LinesAlgebra, ZenonT(40)
    <3>3. kept \in Lines
      BY DEF TypeOK
    <3> QED
      BY <3>2, <3>3, LinesAlgebra
  <2> QED
    BY <2>3, <2>4, <2>5, FlattenEmpty DEF Erased, LinesConserved
<1>8. CASE ThreadWrites
  <2>1. /\ file' = T /\ UNCHANGED <<buffer_, curr_buffer_, kept>>
        /\ buffer_write' = [i \in 1..Len(buffer_write) |-> <<>>]
    BY <1>8 DEF ThreadWrites
  <2>2. FlattenSeq(buffer_write') = <<>>
    BY <2>1, FlattenErased DEF TypeOK
  <2>3. T \o <<>> = T
    BY <1>t, LinesAlgebra
  <2> QED
    BY <1>c, <2>1, <2>2, <2>3 DEF Erased, LinesConserved
<1>9. CASE ThreadRecycles
  <2>1. /\ UNCHANGED <<file, buffer_, curr_buffer_, kept>> /\ tpc' = "test"
        /\ tpc = "recycle" /\ buffer_write' = <<>>
    BY <1>9 DEF ThreadRecycles
  <2>2. FlattenSeq(buffer_write') = FlattenSeq(buffer_write)
    BY <2>1, FlattenEmpty DEF Erased
  <2> QED
    BY <2>1, <2>2 DEF Erased, LinesConserved
<1> QED
  BY <1>1, <1>2, <1>3, <1>4, <1>5, <1>6, <1>7, <1>8, <1>9 DEF Next, ThreadStep, OwnerStep

(* Only stop clears running_, and it keeps the owner until the thread has ended. *)
LEMMA NextStarts ==
  ASSUME TypeOK, Started, StartsRunning, Next
  PROVE  Started' /\ StartsRunning'
<1> USE DEF Started, StartsRunning
<1>n. fault = "none"
  BY DEF Next
<1>1. CASE AppendLine \/ Loading
  <2>1. (tpc' = "started" => tpc = "started") /\ UNCHANGED <<running_, opc, fault>>
    BY <1>1 DEF AppendLine, Loading, Refresh
  <2> QED
    BY <1>n, <2>1
<1>2. CASE SwitchLog
  BY <1>2, <1>n DEF SwitchLog
<1>3. CASE InitRuns
  BY <1>3, <1>n DEF InitRuns
<1>4. CASE StopSets \/ StopNotifies \/ StopJoins
  BY <1>4, <1>n DEF StopSets, StopNotifies, StopJoins
<1>5. CASE Destroy
  BY <1>5, <1>n DEF Destroy
<1>6. CASE ThreadStarts \/ ThreadAsserts
  BY <1>6, <1>n DEF ThreadStarts, ThreadAsserts
<1>7. CASE ThreadTests \/ ThreadWaits \/ SpuriousWake
  BY <1>7, <1>n DEF ThreadTests, ThreadWaits, SpuriousWake
<1>8. CASE ThreadTakes \/ ThreadWrites \/ ThreadRecycles
  BY <1>8, <1>n DEF ThreadTakes, ThreadWrites, ThreadRecycles
<1> QED
  BY <1>1, <1>2, <1>3, <1>4, <1>5, <1>6, <1>7, <1>8 DEF Next, ThreadStep, OwnerStep

-------------------------------------------------------------------------------
(* The theorems.                                                             *)

(* The invariant holds in every state. *)
LEMMA LogInvariant == Spec => []LogInv
<1>1. Init => LogInv
  <2> SUFFICES ASSUME Init
               PROVE  LogInv
    OBVIOUS
  <2>1. <<>> \in Lines /\ <<>> \in Seq(Lines) /\ ToSet(<<>>) = {} /\ Len(<<>>) = 0
    BY DEF Lines, ToSet
  <2>2. {next_buffer_, newBuffer1, newBuffer2, running_, discarded} \subseteq BOOLEAN
    BY DEF Init
  <2>3. TypeOK
    BY <2>1, <2>2 DEF Init, TypeOK
  <2>4. ((<<>> \o <<>>) \o <<>>) \o <<>> = <<>>
    OBVIOUS
  <2>5. LinesConserved
    BY <2>4, FlattenEmpty DEF Init, LinesConserved
  <2> QED
    BY <2>3, <2>5 DEF LogInv, Init, Spares, Erased, Started, EnoughBuffers, StartsRunning
<1>2. LogInv /\ [Next]_vars => LogInv'
  <2> SUFFICES ASSUME LogInv, Next \/ UNCHANGED vars
               PROVE  LogInv'
    OBVIOUS
  <2>1. CASE Next
    BY <2>1, NextTypeOK, NextSpares, NextStarts, NextLines DEF LogInv
  <2>2. CASE UNCHANGED vars
    <3>1. TypeOK'
      BY <2>2, Zenon DEF vars, LogInv, TypeOK
    <3>2. Spares' /\ Erased'
      BY <2>2, Zenon DEF vars, LogInv, Spares, Erased
    <3>3. LinesConserved' /\ EnoughBuffers'
      BY <2>2, Zenon DEF vars, LogInv, LinesConserved, EnoughBuffers
    <3>4. Started' /\ StartsRunning'
      BY <2>2, Zenon DEF vars, LogInv, Started, StartsRunning
    <3> QED
      BY <3>1, <3>2, <3>3, <3>4 DEF LogInv
  <2> QED
    BY <2>1, <2>2
<1> QED
  BY <1>1, <1>2, PTL DEF Spec

(* Every variable keeps its type, and no buffer that append fills or hands over
   outgrows SIZE. *)
THEOREM TypeCorrect == Spec => []TypeOK
<1>1. LogInv => TypeOK
  BY DEF LogInv
<1> QED
  BY <1>1, LogInvariant, PTL

(* No line is lost, doubled or overtaken between append and the file, whatever
   the interleaving of loggers, log thread, loading and init. *)
THEOREM LinesInOrder == Spec => []LinesConserved
<1>1. LogInv => LinesConserved
  BY DEF LogInv
<1> QED
  BY <1>1, LogInvariant, PTL

(* The assertions of thread_func on buffer_write hold as long as init has not
   discarded a full buffer. *)
THEOREM SparesSuffice == Spec => []EnoughBuffers
<1>1. LogInv => EnoughBuffers
  BY DEF LogInv
<1> QED
  BY <1>1, LogInvariant, PTL

(* The assertion that opens thread_func, after its spin, fails only when a stop has
   come in between. *)
THEOREM StartAssertionHolds == Spec => []StartsRunning
<1>1. LogInv => StartsRunning
  BY DEF LogInv
<1> QED
  BY <1>1, LogInvariant, PTL
===============================================================================
