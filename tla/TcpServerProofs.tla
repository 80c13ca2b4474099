---------------------------- MODULE TcpServerProofs ----------------------------
(***************************************************************************)
(* Proofs about TcpServer for any number of connections and of I/O         *)
(* threads: who holds a connection at each point of its life, so that no   *)
(* assertion fails and nothing is freed too early, and what the idle wheel *)
(* shuts.                                                                  *)
(***************************************************************************)
EXTENDS TcpServer, FiniteSetTheorems, SequenceTheorems, TLAPS

(* What loop l still has to run, in order: the rest of the local batch of
   dopending_func, then pending_func_. *)
Line(l) == SubSeq(functors[l], ran[l] + 1, Len(functors[l])) \o pending[l]
Lines == [l \in Loops |-> Line(l)]

(* Loops that are handling an event are not in the middle of a batch, a batch
   is not run beyond its end, and nothing is accepted before start. *)
LoopsInv ==
  /\ \A l \in Loops : ran[l] <= Len(functors[l])
  /\ ~listening_ => loops_ = 0 /\ next_ = 0

-------------------------------------------------------------------------------
(* The life of a connection.                                                 *)

(* The i-th functor in the line q[l] holds a TcpConnectionPtr to c. *)
Owns(q, l, i, c) == i \in 1..Len(q[l]) /\ q[l][i].f \in Owning /\ q[l][i].c = c

(* No functor that is still to run holds c. *)
Quiet(q, c) == \A l \in Loops : \A i \in Nat : ~Owns(q, l, i, c)

(* One functor that is still to run holds c, and it is f. *)
Sole(q, f, c) ==
  \E l \in Loops : \E i \in Nat :
     /\ i \in 1..Len(q[l]) /\ q[l][i] = Functor(f, c)
     /\ \A k \in Loops : \A j \in Nat : Owns(q, k, j, c) => k = l /\ j = i

(* The stages of a connection c, whose object is o, with lines q, map m and n
   the next id: not accepted; accepted, with build_connect on its way; up;
   closed, with its removal on its way to the base loop; erased, with
   destroy_connect on its way to its own loop; gone. *)
Unborn(q, c, o, m, n) == c >= n /\ c \notin m /\ o = NoObject /\ Quiet(q, c)
Building(q, c, o, m, n) ==
  /\ c < n /\ c \in m /\ o.status = "CONNECTING" /\ o.channel = "none"
  /\ Sole(q, "build_connect", c)
Up(q, c, o, m, n) ==
  /\ c < n /\ c \in m /\ o.status \in {"CONNECTED", "DISCONNECTING"} /\ o.channel = "on"
  /\ Quiet(q, c)
Closing(q, c, o, m, n) ==
  /\ c < n /\ c \in m /\ o.status = "DISCONNECTED" /\ o.channel = "off"
  /\ Sole(q, "remove_connection_in_loop", c)
Leaving(q, c, o, m, n) ==
  /\ c < n /\ c \notin m /\ o.status = "DISCONNECTED" /\ o.channel = "off"
  /\ Sole(q, "destroy_connect", c)
Gone(q, c, o, m, n) ==
  /\ c < n /\ c \notin m /\ o.status = "DISCONNECTED" /\ o.channel = "removed"
  /\ Quiet(q, c)

Stage(q, c, o, m, n) ==
  \/ Unborn(q, c, o, m, n) \/ Building(q, c, o, m, n) \/ Up(q, c, o, m, n)
  \/ Closing(q, c, o, m, n) \/ Leaving(q, c, o, m, n) \/ Gone(q, c, o, m, n)

(* Every connection is in one of its stages. *)
LifeInv == \A c \in Conns : Stage(Lines, c, conn[c], connection_, next_id)

-------------------------------------------------------------------------------
(* The wheel.                                                                *)

(* message_cb holds the entry of a connection of its own loop that is up, and
   that loop is not running functors. *)
HeldInv ==
  \A l \in Loops : held[l] # NoConn =>
     /\ functors[l] = <<>>
     /\ conn[held[l]].loop = l /\ conn[held[l]].channel = "on"

(* The newest bucket with the entry of a connection that has been up is the one
   its idle time says, and after Buckets ticks there is none. *)
WheelInv ==
  \A c \in Conns :
    /\ c >= next_id => idle[c] = 0
    /\ conn[c].channel = "none" => \A b \in 1..Buckets : c \notin wheel[b]
    /\ conn[c].channel # "none" =>
         \A b \in 1..Buckets : /\ c \in wheel[b] => b + idle[c] <= Buckets
                               /\ b + idle[c] = Buckets => c \in wheel[b]

(* The entry of c has died: no bucket and no request in progress has it. *)
EntryDead(c) ==
  /\ conn[c].channel # "none"
  /\ \A b \in 1..Buckets : c \notin wheel[b]
  /\ \A l \in Loops : held[l] # c

(* A shutdown of c waits in the line of loop l. *)
Sent(q, l, c) == \E i \in 1..Len(q[l]) : q[l][i] = Functor("shutdown_in_loop_", c)

(* A shutdown on its way was sent by an entry that has died. *)
ShutdownInv == \A l \in Loops : \A c \in Conns : Sent(Lines, l, c) => EntryDead(c)

(* Until a shutdown has run on a freed object, only connections whose entry has
   died are shut, and one that is up and idle has a shutdown waiting. *)
ShutInv ==
  stale \/ \A c \in Conns :
    /\ conn[c].status = "DISCONNECTING" => EntryDead(c)
    /\ conn[c].status = "CONNECTED" /\ idle[c] = Buckets =>
         held[conn[c].loop] = c \/ Sent(Lines, conn[c].loop, c)

(* The inductive invariant. *)
ServerInv ==
  /\ TypeOK /\ LoopsInv /\ ~failed
  /\ LifeInv
  /\ HeldInv /\ WheelInv /\ ShutdownInv /\ ShutInv

-------------------------------------------------------------------------------
(* Sequences.                                                                *)

(* Running a functor shortens the rest of the batch. *)
LEMMA RestTail ==
  ASSUME NEW S, NEW s \in Seq(S), NEW n \in Nat, n < Len(s)
  PROVE  /\ SubSeq(s, n + 1, Len(s)) \in Seq(S)
         /\ SubSeq(s, n + 1, Len(s)) # <<>>
         /\ Head(SubSeq(s, n + 1, Len(s))) = s[n + 1]
         /\ Tail(SubSeq(s, n + 1, Len(s))) = SubSeq(s, (n + 1) + 1, Len(s))
<1> DEFINE r == SubSeq(s, n + 1, Len(s))
           u == SubSeq(s, (n + 1) + 1, Len(s))
<1>1. /\ r \in Seq(S) /\ Len(r) = Len(s) - n
      /\ \A i \in 1..(Len(s) - n) : r[i] = s[n + i]
  OBVIOUS
<1>2. /\ u \in Seq(S) /\ Len(u) = Len(s) - n - 1
      /\ \A i \in 1..(Len(s) - n - 1) : u[i] = s[n + 1 + i]
  OBVIOUS
<1> HIDE DEF r, u
<1>3. r # <<>> /\ Head(r) = s[n + 1]
  BY <1>1
<1>4. /\ Tail(r) \in Seq(S) /\ Len(Tail(r)) = Len(s) - n - 1
      /\ \A i \in 1..(Len(s) - n - 1) : Tail(r)[i] = s[n + 1 + i]
  BY <1>1, <1>3
<1>5. Tail(r) = u
  BY <1>2, <1>4, SeqEqual
<1> QED
  BY <1>1, <1>3, <1>5 DEF r, u

(* The rest of an empty or of a finished batch is empty, that of a new one is all
   of it. *)
LEMMA RestEnds ==
  ASSUME NEW S, NEW s \in Seq(S)
  PROVE  /\ SubSeq(s, Len(s) + 1, Len(s)) = <<>>
         /\ SubSeq(s, 0 + 1, Len(s)) = s
  OBVIOUS

(* The rest of a batch is a sequence. *)
LEMMA RestType ==
  ASSUME NEW S, NEW s \in Seq(S), NEW n \in Nat
  PROVE  SubSeq(s, n + 1, Len(s)) \in Seq(S)
  OBVIOUS

(* Elements of a tail. *)
LEMMA TailAt ==
  ASSUME NEW S, NEW s \in Seq(S), s # <<>>
  PROVE  /\ Tail(s) \in Seq(S) /\ Len(s) \in Nat /\ Len(s) # 0
         /\ Len(Tail(s)) = Len(s) - 1
         /\ \A i \in 1..(Len(s) - 1) : Tail(s)[i] = s[i + 1]
         /\ Head(s) = s[1]
  OBVIOUS

(* SetToSeq lists each element of a finite set. *)
LEMMA SetToSeqLists ==
  ASSUME NEW S, IsFiniteSet(S)
  PROVE  /\ SetToSeq(S) \in Seq(S)
         /\ \A x \in S : \E i \in 1..Len(SetToSeq(S)) : SetToSeq(S)[i] = x
<1> DEFINE n == Cardinality(S)
           f == SetToSeq(S)
<1>1. n \in Nat /\ ExistsBijection(1..n, S)
  BY FS_CardinalityType
<1>2. PICK g : g \in Bijection(1..n, S)
  BY <1>1 DEF ExistsBijection
<1>3. g \in [1..n -> S] /\ IsInjective(g)
  BY <1>2 DEF Bijection, Injection, IsInjective
<1>4. f \in [1..n -> S] /\ IsInjective(f)
  BY <1>3, Zenon DEF SetToSeq
<1> HIDE DEF f
<1>5. f \in Injection(1..n, S)
  BY <1>4 DEF Injection, IsInjective
<1>6. Cardinality(1..n) = n
  BY <1>1, FS_Interval
<1> HIDE DEF n
<1>7. Cardinality(1..n) = Cardinality(S)
  BY <1>6 DEF n
<1>8. f \in Surjection(1..n, S)
  BY <1>5, <1>7, FS_Injection
<1>9. \A x \in S : \E i \in 1..n : f[i] = x
  BY <1>8 DEF Surjection
<1>10. f \in Seq(S) /\ Len(f) = n
  BY <1>1, <1>4
<1> QED
  BY <1>9, <1>10 DEF f

-------------------------------------------------------------------------------
(* What the steps of the loops do to the holders of a connection.            *)

QueuesType == [Loops -> Seq(Functors)]

(* The holders of c among the functors are the same in the lines q and r. *)
SameOwner(q, r, c) ==
  /\ Quiet(q, c) => Quiet(r, c)
  /\ \A f \in Owning : Sole(q, f, c) => Sole(r, f, c)

(* A functor is the record it is made of. *)
LEMMA FunctorFields ==
  ASSUME NEW f, NEW c
  PROVE  /\ Functor(f, c).f = f /\ Functor(f, c).c = c
         /\ f \in Owning \cup {"shutdown_in_loop_"} /\ c \in Conns => Functor(f, c) \in Functors
  BY DEF Functor, Functors

(* Functors that do not hold c may be appended anywhere. *)
LEMMA AppendKeeps ==
  ASSUME NEW q \in QueuesType, NEW s \in QueuesType, NEW c \in Conns,
         \A k \in Loops : \A i \in 1..Len(s[k]) : ~(s[k][i].f \in Owning /\ s[k][i].c = c)
  PROVE  SameOwner(q, [k \in Loops |-> q[k] \o s[k]], c)
<1> DEFINE r == [k \in Loops |-> q[k] \o s[k]]
<1>1. ASSUME NEW k \in Loops
      PROVE  /\ \A i \in Nat : Owns(r, k, i, c) => Owns(q, k, i, c)
             /\ \A i \in 1..Len(q[k]) : i \in 1..Len(r[k]) /\ r[k][i] = q[k][i]
  <2>1. q[k] \in Seq(Functors) /\ s[k] \in Seq(Functors) /\ r[k] = q[k] \o s[k]
    BY DEF QueuesType
  <2> HIDE DEF r
  <2> DEFINE a == q[k]
             b == s[k]
  <2>4. /\ a \in Seq(Functors) /\ b \in Seq(Functors)
        /\ q[k] = a /\ s[k] = b /\ r[k] = a \o b
    BY <2>1
  <2> HIDE DEF a, b
  <2>5. /\ \A i \in 1..Len(a) : i \in 1..Len(a \o b) /\ (a \o b)[i] = a[i]
        /\ \A i \in 1..Len(a \o b) : i \notin 1..Len(a) =>
              i - Len(a) \in 1..Len(b) /\ (a \o b)[i] = b[i - Len(a)]
    BY <2>4
  <2>2. ASSUME NEW i \in Nat, Owns(r, k, i, c) PROVE Owns(q, k, i, c)
    <3>1. i \in 1..Len(a \o b)
      BY <2>4, <2>2 DEF Owns
    <3>2. CASE i \in 1..Len(q[k])
      <4>1. r[k][i] = q[k][i]
        BY <2>4, <2>5, <3>2
      <4> QED
        BY <2>2, <3>2, <4>1 DEF Owns
    <3>3. CASE i \notin 1..Len(q[k])
      <4>1. i - Len(q[k]) \in 1..Len(s[k]) /\ r[k][i] = s[k][i - Len(q[k])]
        BY <2>4, <2>5, <3>1, <3>3
      <4> QED
        BY <2>2, <4>1 DEF Owns
    <3> QED
      BY <3>2, <3>3
  <2>3. \A i \in 1..Len(q[k]) : i \in 1..Len(r[k]) /\ r[k][i] = q[k][i]
    BY <2>4, <2>5
  <2> QED
    BY <2>2, <2>3
<1> HIDE DEF r
<1>2. Quiet(q, c) => Quiet(r, c)
  BY <1>1 DEF Quiet
<1>3. ASSUME NEW f \in Owning, Sole(q, f, c) PROVE Sole(r, f, c)
  <2>1. PICK l \in Loops, i \in Nat :
           /\ i \in 1..Len(q[l]) /\ q[l][i] = Functor(f, c)
           /\ \A k \in Loops : \A j \in Nat : Owns(q, k, j, c) => k = l /\ j = i
    BY <1>3 DEF Sole
  <2>2. i \in 1..Len(r[l]) /\ r[l][i] = Functor(f, c)
    BY <1>1, <2>1
  <2>3. \A k \in Loops : \A j \in Nat : Owns(r, k, j, c) => k = l /\ j = i
    BY <1>1, <2>1
  <2> QED
    BY <2>2, <2>3 DEF Sole
<1> QED
  BY <1>2, <1>3 DEF SameOwner, r

(* A functor that holds c, queued for a connection nobody held, is its only
   holder; those of others stay. *)
LEMMA PushOwner ==
  ASSUME NEW q \in QueuesType, NEW l \in Loops, NEW f \in Owning, NEW c \in Conns
  PROVE  /\ Quiet(q, c) => Sole([q EXCEPT ![l] = Append(@, Functor(f, c))], f, c)
         /\ \A d \in Conns : d # c => SameOwner(q, [q EXCEPT ![l] = Append(@, Functor(f, c))], d)
<1> DEFINE e == Functor(f, c)
           r == [q EXCEPT ![l] = Append(@, e)]
           s == [k \in Loops |-> IF k = l THEN <<e>> ELSE <<>>]
<1>1. e \in Functors /\ e.f = f /\ e.c = c
  BY FunctorFields
<1> HIDE DEF e
<1>2. s \in QueuesType /\ \A k \in Loops : \A i \in 1..Len(s[k]) : s[k][i].c = c
  <2>1. <<e>> \in Seq(Functors) /\ <<>> \in Seq(Functors)
    BY <1>1
  <2>2. s \in QueuesType
    BY <2>1 DEF QueuesType
  <2>3. ASSUME NEW k \in Loops, NEW i \in 1..Len(s[k]) PROVE s[k][i].c = c
    <3>1. CASE k = l
      <4>1. s[k] = <<e>>
        BY <3>1
      <4>2. i = 1
        BY <4>1
      <4> QED
        BY <4>1, <4>2, <1>1
    <3>2. CASE k # l
      BY <3>2
    <3> QED
      BY <3>1, <3>2
  <2> QED
    BY <2>2, <2>3
<1>3. r = [k \in Loops |-> q[k] \o s[k]]
  <2>1. ASSUME NEW k \in Loops PROVE r[k] = q[k] \o s[k]
    <3>1. q[k] \in Seq(Functors)
      BY DEF QueuesType
    <3>2. CASE k = l
      <4>1. q[k] \o <<e>> = Append(q[k], e)
        BY <3>1, <1>1
      <4> QED
        BY <3>2, <4>1 DEF QueuesType
    <3>3. CASE k # l
      <4>1. q[k] \o <<>> = q[k]
        BY <3>1
      <4> QED
        BY <3>3, <4>1 DEF QueuesType
    <3> QED
      BY <3>2, <3>3
  <2>2. DOMAIN r = Loops /\ r = [k \in Loops |-> r[k]]
    BY DEF QueuesType
  <2> HIDE DEF r, s
  <2> QED
    BY <2>1, <2>2
<1> HIDE DEF s
<1>4. ASSUME NEW d \in Conns, d # c PROVE SameOwner(q, r, d)
  <2>1. \A k \in Loops : \A i \in 1..Len(s[k]) : ~(s[k][i].f \in Owning /\ s[k][i].c = d)
    BY <1>2, <1>4
  <2>2. SameOwner(q, [k \in Loops |-> q[k] \o s[k]], d)
    BY <1>2, <2>1, AppendKeeps
  <2> QED
    BY <2>2, <1>3
<1>5. ASSUME Quiet(q, c) PROVE Sole(r, f, c)
  <2>1. q[l] \in Seq(Functors) /\ r[l] = Append(q[l], e)
    BY DEF QueuesType
  <2>2. /\ Len(q[l]) + 1 \in Nat /\ Len(q[l]) + 1 \in 1..Len(r[l])
        /\ r[l][Len(q[l]) + 1] = e
    BY <2>1, <1>1
  <2>3. ASSUME NEW k \in Loops, NEW j \in Nat, Owns(r, k, j, c)
        PROVE  k = l /\ j = Len(q[l]) + 1
    <3>1. ~Owns(q, k, j, c)
      BY <1>5 DEF Quiet
    <3>2. CASE k # l
      <4>1. r[k] = q[k]
        BY <3>2 DEF QueuesType
      <4> QED
        BY <4>1, <3>1, <2>3 DEF Owns
    <3>3. CASE k = l /\ j # Len(q[l]) + 1
      <4> HIDE DEF r
      <4>1. j \in 1..Len(q[l]) /\ r[l][j] = q[l][j]
        BY <2>1, <1>1, <2>3, <3>3 DEF Owns
      <4> QED
        BY <4>1, <3>1, <3>3, <2>3 DEF Owns
    <3> QED
      BY <3>2, <3>3
  <2> HIDE DEF r
  <2> QED
    BY <2>2, <2>3 DEF Sole, e
<1> QED
  BY <1>4, <1>5 DEF r, e

(* The first functor of a line is taken out of it to be run.  If it held c it
   was its only holder; the holders of others stay. *)
LEMMA PopOwner ==
  ASSUME NEW q \in QueuesType, NEW l \in Loops, q[l] # <<>>,
         NEW f \in Owning \cup {"shutdown_in_loop_"}, NEW c \in Conns,
         Head(q[l]) = Functor(f, c),
         NEW r, r[l] = Tail(q[l]), \A k \in Loops : k # l => r[k] = q[k]
  PROVE  /\ f \in Owning => ~Quiet(q, c)
         /\ f \in Owning => \A g \in Owning : Sole(q, g, c) => g = f /\ Quiet(r, c)
         /\ \A d \in Conns : d # c \/ f \notin Owning => SameOwner(q, r, d)
<1> DEFINE shift(k) == IF k = l THEN 1 ELSE 0
<1>1. /\ q[l] \in Seq(Functors)
      /\ Tail(q[l]) \in Seq(Functors) /\ Len(q[l]) \in Nat /\ Len(q[l]) # 0
      /\ Len(Tail(q[l])) = Len(q[l]) - 1
      /\ \A i \in 1..(Len(q[l]) - 1) : Tail(q[l])[i] = q[l][i + 1]
      /\ q[l][1] = Functor(f, c)
  <2>1. q[l] \in Seq(Functors)
    BY DEF QueuesType
  <2> QED
    BY <2>1, TailAt
<1>2. r[l] = Tail(q[l]) /\ \A k \in Loops : k # l => r[k] = q[k]
  OBVIOUS
<1>3. ASSUME NEW k \in Loops, NEW i \in Nat
      PROVE  /\ i + shift(k) \in Nat
             /\ i \in 1..Len(r[k]) => i + shift(k) \in 1..Len(q[k]) /\ r[k][i] = q[k][i + shift(k)]
  <2>1. CASE k = l
    <3>3. Len(r[l]) = Len(q[l]) - 1
      BY <1>1, <1>2
    <3>1. i + 1 \in Nat /\ shift(k) = 1
      BY <2>1
    <3>2. i \in 1..(Len(q[l]) - 1) => i + 1 \in 1..Len(q[l]) /\ r[l][i] = q[l][i + 1]
      BY <1>1, <1>2
    <3> QED
      BY <2>1, <3>1, <3>2, <3>3
  <2>2. CASE k # l
    <3>1. q[k] \in Seq(Functors)
      BY DEF QueuesType
    <3> QED
      BY <1>2, <2>2, <3>1
  <2> QED
    BY <2>1, <2>2
<1>4. ASSUME NEW k \in Loops, NEW i \in Nat, i \in 1..Len(q[k]), k # l \/ i # 1
      PROVE  /\ i - shift(k) \in Nat /\ i - shift(k) \in 1..Len(r[k])
             /\ r[k][i - shift(k)] = q[k][i]
  <2>1. CASE k = l
    <3>1. i - 1 \in 1..(Len(q[l]) - 1) /\ (i - 1) + 1 = i
      BY <1>1, <1>4, <2>1
    <3>2. r[l][i - 1] = q[l][i]
      BY <1>1, <1>2, <3>1
    <3>3. i - 1 \in Nat /\ i - 1 \in 1..Len(r[l]) /\ shift(k) = 1
      BY <1>1, <1>2, <2>1, <3>1
    <3> QED
      BY <2>1, <3>2, <3>3
  <2>2. CASE k # l
    BY <1>2, <1>4, <2>2
  <2> QED
    BY <2>1, <2>2
<1>5. \A k \in Loops : shift(k) \in {0, 1} /\ shift(l) = 1
  OBVIOUS
<1>6. ASSUME NEW d, NEW k \in Loops, NEW i \in Nat, Owns(r, k, i, d)
      PROVE  Owns(q, k, i + shift(k), d)
  <2> HIDE DEF shift
  <2> QED
    BY <1>3, <1>6 DEF Owns
<1>7. Functor(f, c).f = f /\ Functor(f, c).c = c
  BY FunctorFields
<1>8. f \in Owning => Owns(q, l, 1, c)
  BY <1>1, <1>7 DEF Owns
<1> HIDE DEF shift
<1>9. f \in Owning => ~Quiet(q, c)
  BY <1>8 DEF Quiet
<1>10. ASSUME f \in Owning, NEW g \in Owning, Sole(q, g, c)
       PROVE  g = f /\ Quiet(r, c)
  <2>1. PICK m \in Loops, i \in Nat :
           /\ i \in 1..Len(q[m]) /\ q[m][i] = Functor(g, c)
           /\ \A k \in Loops : \A j \in Nat : Owns(q, k, j, c) => k = m /\ j = i
    BY <1>10 DEF Sole
  <2>2. m = l /\ i = 1
    BY <1>8, <1>10, <2>1
  <2>3. g = f
    BY <2>1, <2>2, <1>1, FunctorFields
  <2>4. ASSUME NEW k \in Loops, NEW j \in Nat, Owns(r, k, j, c) PROVE FALSE
    <3>1. Owns(q, k, j + shift(k), c) /\ j + shift(k) \in Nat
      BY <1>3, <1>6, <2>4
    <3>2. k = l /\ j + shift(k) = 1
      BY <3>1, <2>1, <2>2
    <3>3. j \in 1..Len(r[k])
      BY <2>4 DEF Owns
    <3> QED
      BY <3>2, <3>3, <1>5
  <2> QED
    BY <2>3, <2>4 DEF Quiet
<1>11. ASSUME NEW d \in Conns, d # c \/ f \notin Owning PROVE SameOwner(q, r, d)
  <2>1. ~Owns(q, l, 1, d)
    BY <1>1, <1>7, <1>11 DEF Owns
  <2>2. Quiet(q, d) => Quiet(r, d)
    BY <1>3, <1>6 DEF Quiet
  <2>3. ASSUME NEW g \in Owning, Sole(q, g, d) PROVE Sole(r, g, d)
    <3>1. PICK m \in Loops, i \in Nat :
             /\ i \in 1..Len(q[m]) /\ q[m][i] = Functor(g, d)
             /\ \A k \in Loops : \A j \in Nat : Owns(q, k, j, d) => k = m /\ j = i
      BY <2>3 DEF Sole
    <3>2. m # l \/ i # 1
      BY <3>1, <2>1, FunctorFields DEF Owns
    <3>3. /\ i - shift(m) \in Nat /\ i - shift(m) \in 1..Len(r[m])
          /\ r[m][i - shift(m)] = Functor(g, d)
      BY <1>4, <3>1, <3>2
    <3>4. ASSUME NEW k \in Loops, NEW j \in Nat, Owns(r, k, j, d)
          PROVE  k = m /\ j = i - shift(m)
      <4>1. Owns(q, k, j + shift(k), d) /\ j + shift(k) \in Nat
        BY <1>3, <1>6, <3>4
      <4>2. k = m /\ j + shift(k) = i
        BY <4>1, <3>1
      <4> QED
        BY <4>2, <1>5
    <3> QED
      BY <3>3, <3>4 DEF Sole
  <2> QED
    BY <2>2, <2>3 DEF SameOwner
<1> QED
  BY <1>9, <1>10, <1>11

(* The lines after the first functor of line l has been taken. *)
LEMMA PopLine ==
  ASSUME NEW q \in QueuesType, NEW l \in Loops, q[l] # <<>>
  PROVE  /\ [q EXCEPT ![l] = Tail(@)] \in QueuesType
         /\ [q EXCEPT ![l] = Tail(@)][l] = Tail(q[l])
         /\ \A k \in Loops : k # l => [q EXCEPT ![l] = Tail(@)][k] = q[k]
<1>1. q[l] \in Seq(Functors)
  BY DEF QueuesType
<1>2. Tail(q[l]) \in Seq(Functors)
  BY <1>1, TailAt
<1> QED
  BY <1>2 DEF QueuesType

(* A step that changes neither the object, the membership nor the holders of a
   connection leaves it in its stage. *)
LEMMA StageKept ==
  ASSUME NEW q, NEW r, NEW c \in Conns, NEW o, NEW m, NEW m2, NEW n \in Nat, NEW n2 \in Nat,
         Stage(q, c, o, m, n), SameOwner(q, r, c),
         c \in m <=> c \in m2, c < n <=> c < n2
  PROVE  Stage(r, c, o, m2, n2)
<1>1. c \in Nat /\ (c >= n <=> c >= n2)
  BY DEF Conns
<1>2. {"build_connect", "remove_connection_in_loop", "destroy_connect"} \subseteq Owning
  BY DEF Owning
<1> QED
  BY <1>1, <1>2 DEF Stage, Unborn, Building, Up, Closing, Leaving, Gone, SameOwner

(* Sameness is reflexive and composes. *)
LEMMA SameOwnerTrans ==
  ASSUME NEW p, NEW q, NEW r, NEW c
  PROVE  /\ SameOwner(p, p, c)
         /\ SameOwner(p, q, c) /\ SameOwner(q, r, c) => SameOwner(p, r, c)
  BY DEF SameOwner

(* shutdown_in_loop_ moves no connection to another stage. *)
LEMMA StageShut ==
  ASSUME NEW q, NEW c \in Conns, NEW cs \in [Conns -> Objects], NEW C, NEW m, NEW n,
         Stage(q, c, cs[c], m, n)
  PROVE  Stage(q, c, Shut(cs, C)[c], m, n)
<1>1. CASE c \in C /\ cs[c].status = "CONNECTED"
  <2>1. Shut(cs, C)[c] = [cs[c] EXCEPT !.status = "DISCONNECTING"]
    BY <1>1 DEF Shut
  <2>2. /\ Shut(cs, C)[c].status = "DISCONNECTING"
        /\ Shut(cs, C)[c].channel = cs[c].channel
    BY <2>1 DEF Objects
  <2>3. Up(q, c, cs[c], m, n)
    BY <1>1 DEF Stage, Unborn, Building, Up, Closing, Leaving, Gone, NoObject
  <2>4. Up(q, c, Shut(cs, C)[c], m, n)
    BY <2>2, <2>3 DEF Up
  <2> QED
    BY <2>4 DEF Stage
<1>2. CASE ~(c \in C /\ cs[c].status = "CONNECTED")
  <2>1. Shut(cs, C)[c] = cs[c]
    BY <1>2 DEF Shut
  <2> QED
    BY <2>1
<1> QED
  BY <1>1, <1>2

-------------------------------------------------------------------------------
(* What the steps of the loops do to the lines.                              *)

(* The lines are sequences of functors. *)
LEMMA LinesType ==
  ASSUME TypeOK
  PROVE  /\ Lines \in QueuesType
         /\ \A l \in Loops : Lines[l] = Line(l) /\ Line(l) \in Seq(Functors)
<1>1. ASSUME NEW l \in Loops PROVE Line(l) \in Seq(Functors)
  <2>1. functors[l] \in Seq(Functors) /\ pending[l] \in Seq(Functors) /\ ran[l] \in Nat
    BY DEF TypeOK
  <2>2. SubSeq(functors[l], ran[l] + 1, Len(functors[l])) \in Seq(Functors)
    BY <2>1, RestType
  <2> QED
    BY <2>1, <2>2 DEF Line
<1> QED
  BY <1>1 DEF Lines, QueuesType

(* queue_in_loop appends to the line. *)
LEMMA LinePush ==
  ASSUME TypeOK, NEW l \in Loops, NEW e \in Functors,
         functors' = functors, ran' = ran, pending' = Queue(pending, l, e)
  PROVE  Lines' = [Lines EXCEPT ![l] = Append(@, e)]
<1>1. ASSUME NEW k \in Loops PROVE Lines'[k] = [Lines EXCEPT ![l] = Append(@, e)][k]
  <2> DEFINE a == SubSeq(functors[k], ran[k] + 1, Len(functors[k]))
  <2>1. functors[k] \in Seq(Functors) /\ pending[k] \in Seq(Functors) /\ ran[k] \in Nat
    BY DEF TypeOK
  <2>2. a \in Seq(Functors)
    BY <2>1, RestType
  <2>3. Lines'[k] = a \o pending'[k] /\ Lines[k] = a \o pending[k]
    BY DEF Lines, Line
  <2> HIDE DEF a
  <2>4. CASE k = l
    <3>1. pending'[k] = Append(pending[k], e)
      BY <2>4 DEF Queue, TypeOK
    <3>2. a \o Append(pending[k], e) = Append(a \o pending[k], e)
      BY <2>1, <2>2, SMTT(30)
    <3> QED
      BY <2>3, <2>4, <3>1, <3>2 DEF Lines
  <2>5. CASE k # l
    BY <2>3, <2>5 DEF Queue, TypeOK, Lines
  <2> QED
    BY <2>4, <2>5
<1>2. Lines' = [k \in Loops |-> Lines'[k]]
  BY DEF Lines
<1>3. [Lines EXCEPT ![l] = Append(@, e)] = [k \in Loops |-> [Lines EXCEPT ![l] = Append(@, e)][k]]
  BY DEF Lines
<1> QED
  BY <1>1, <1>2, <1>3, Zenon

(* Running a functor takes it from the front of its line. *)
LEMMA LinePop ==
  ASSUME TypeOK, NEW l \in Loops, NEW f, NEW c, Runs(l, f, c), pending' = pending
  PROVE  /\ Lines[l] # <<>> /\ Head(Lines[l]) = Functor(f, c)
         /\ Lines' = [Lines EXCEPT ![l] = Tail(@)]
<1> DEFINE a == SubSeq(functors[l], ran[l] + 1, Len(functors[l]))
           b == SubSeq(functors[l], (ran[l] + 1) + 1, Len(functors[l]))
<1>1. functors[l] \in Seq(Functors) /\ pending[l] \in Seq(Functors) /\ ran[l] \in Nat
  BY DEF TypeOK
<1>2. /\ ran[l] < Len(functors[l]) /\ functors[l][ran[l] + 1] = Functor(f, c)
      /\ ran' = [ran EXCEPT ![l] = @ + 1] /\ functors' = functors
  BY DEF Runs
<1>3. a \in Seq(Functors) /\ a # <<>> /\ Head(a) = Functor(f, c) /\ Tail(a) = b
  BY <1>1, <1>2, RestTail
<1>4. Lines[l] = a \o pending[l]
  BY DEF Lines, Line
<1>5. Lines'[l] = b \o pending[l]
  <2>1. ran'[l] = ran[l] + 1
    BY <1>2 DEF TypeOK
  <2> QED
    BY <2>1, <1>2 DEF Lines, Line
<1> HIDE DEF a, b
<1>6. /\ Lines[l] # <<>> /\ Head(Lines[l]) = Functor(f, c)
      /\ Tail(Lines[l]) = b \o pending[l]
  <2>1. /\ a \o pending[l] # <<>> /\ Head(a \o pending[l]) = Head(a)
        /\ Tail(a \o pending[l]) = Tail(a) \o pending[l]
    BY <1>1, <1>3
  <2> QED
    BY <2>1, <1>3, <1>4
<1>7. ASSUME NEW k \in Loops PROVE Lines'[k] = [Lines EXCEPT ![l] = Tail(@)][k]
  <2>1. CASE k = l
    BY <2>1, <1>5, <1>6 DEF Lines
  <2>2. CASE k # l
    <3>1. ran'[k] = ran[k]
      BY <1>2, <2>2 DEF TypeOK
    <3>2. Lines'[k] = SubSeq(functors'[k], ran'[k] + 1, Len(functors'[k])) \o pending'[k]
      BY DEF Lines, Line
    <3>3. Lines'[k] = Line(k)
      BY <3>1, <3>2, <1>2 DEF Line
    <3>4. [Lines EXCEPT ![l] = Tail(@)][k] = Line(k)
      BY <2>2 DEF Lines
    <3> QED
      BY <3>3, <3>4
  <2> QED
    BY <2>1, <2>2
<1>8. Lines' = [k \in Loops |-> Lines'[k]]
  BY DEF Lines
<1>9. [Lines EXCEPT ![l] = Tail(@)] = [k \in Loops |-> [Lines EXCEPT ![l] = Tail(@)][k]]
  BY DEF Lines
<1>10. Lines' = [Lines EXCEPT ![l] = Tail(@)]
  BY <1>7, <1>8, <1>9, Zenon
<1> QED
  BY <1>6, <1>10

(* A functor that queues another: taken from the front of one line, appended to
   the same or another. *)
LEMMA LinePopPush ==
  ASSUME TypeOK, NEW l \in Loops, NEW f, NEW c, Runs(l, f, c),
         NEW k \in Loops, NEW e \in Functors, pending' = Queue(pending, k, e)
  PROVE  /\ Lines[l] # <<>> /\ Head(Lines[l]) = Functor(f, c)
         /\ Lines' = [[Lines EXCEPT ![l] = Tail(@)] EXCEPT ![k] = Append(@, e)]
<1> DEFINE a == SubSeq(functors[l], ran[l] + 1, Len(functors[l]))
           b == SubSeq(functors[l], (ran[l] + 1) + 1, Len(functors[l]))
           r == [Lines EXCEPT ![l] = Tail(@)]
           R == [r EXCEPT ![k] = Append(@, e)]
<1>1. functors[l] \in Seq(Functors) /\ pending[l] \in Seq(Functors) /\ ran[l] \in Nat
  BY DEF TypeOK
<1>2. /\ ran[l] < Len(functors[l]) /\ functors[l][ran[l] + 1] = Functor(f, c)
      /\ ran' = [ran EXCEPT ![l] = @ + 1] /\ functors' = functors
  BY DEF Runs
<1>3. a \in Seq(Functors) /\ a # <<>> /\ Head(a) = Functor(f, c) /\ Tail(a) = b
  BY <1>1, <1>2, RestTail
<1>4. Lines[l] = a \o pending[l]
  BY DEF Lines, Line
<1>5. Lines'[l] = b \o pending'[l]
  <2>1. ran'[l] = ran[l] + 1
    BY <1>2 DEF TypeOK
  <2> QED
    BY <2>1, <1>2 DEF Lines, Line
<1> HIDE DEF a, b
<1>6. /\ Lines[l] # <<>> /\ Head(Lines[l]) = Functor(f, c)
      /\ Tail(Lines[l]) = b \o pending[l] /\ b \in Seq(Functors)
  <2>1. /\ a \o pending[l] # <<>> /\ Head(a \o pending[l]) = Head(a)
        /\ Tail(a \o pending[l]) = Tail(a) \o pending[l] /\ Tail(a) \in Seq(Functors)
    BY <1>1, <1>3
  <2> QED
    BY <2>1, <1>3, <1>4
<1>7. r[l] = b \o pending[l] /\ \A j \in Loops : j # l => r[j] = Line(j)
  BY <1>6 DEF Lines
<1>8. DOMAIN r = Loops
  BY DEF Lines
<1> HIDE DEF r
<1>9. R[k] = Append(r[k], e) /\ \A j \in Loops : j # k => R[j] = r[j]
  BY <1>8
<1>10. DOMAIN R = Loops /\ R = [j \in Loops |-> R[j]]
  BY <1>8
<1> HIDE DEF R
<1>11. pending'[k] = Append(pending[k], e) /\ \A j \in Loops : j # k => pending'[j] = pending[j]
  BY DEF Queue, TypeOK
<1>12. ASSUME NEW j \in Loops PROVE Lines'[j] = R[j]
  <2> DEFINE u == IF j = l THEN b ELSE SubSeq(functors[j], ran[j] + 1, Len(functors[j]))
  <2>1. u \in Seq(Functors) /\ pending[j] \in Seq(Functors)
    <3>1. functors[j] \in Seq(Functors) /\ pending[j] \in Seq(Functors) /\ ran[j] \in Nat
      BY DEF TypeOK
    <3> QED
      BY <3>1, <1>6, RestType
  <2>2. Lines'[j] = u \o pending'[j]
    <3>1. CASE j = l
      BY <3>1, <1>5
    <3>2. CASE j # l
      <4>1. ran'[j] = ran[j]
        BY <1>2, <3>2 DEF TypeOK
      <4>2. Lines'[j] = SubSeq(functors'[j], ran'[j] + 1, Len(functors'[j])) \o pending'[j]
        BY DEF Lines, Line
      <4> QED
        BY <3>2, <4>1, <4>2, <1>2
    <3> QED
      BY <3>1, <3>2
  <2>3. r[j] = u \o pending[j]
    BY <1>7 DEF Line
  <2> HIDE DEF u
  <2>4. CASE j = k
    <3>1. u \o Append(pending[j], e) = Append(u \o pending[j], e)
      BY <2>1
    <3> QED
      BY <2>2, <2>3, <2>4, <3>1, <1>9, <1>11
  <2>5. CASE j # k
    BY <2>2, <2>3, <2>5, <1>9, <1>11
  <2> QED
    BY <2>4, <2>5
<1>13. Lines' = [j \in Loops |-> Lines'[j]]
  BY DEF Lines
<1>14. Lines' = R
  BY <1>10, <1>12, <1>13, Zenon
<1> QED
  BY <1>6, <1>14 DEF r, R

(* The swap of dopending_func and the end of its batch leave the lines alone. *)
LEMMA LineSwap ==
  ASSUME TypeOK, LoopsInv, NEW l \in Loops, SwapBatch(l) \/ EndBatch(l)
  PROVE  Lines' = Lines
<1>1. ASSUME NEW k \in Loops PROVE Lines'[k] = Lines[k]
  <2>1. /\ functors[k] \in Seq(Functors) /\ pending[k] \in Seq(Functors) /\ ran[k] \in Nat
        /\ ran[k] <= Len(functors[k])
    BY DEF TypeOK, LoopsInv
  <2>2. /\ Lines'[k] = SubSeq(functors'[k], ran'[k] + 1, Len(functors'[k])) \o pending'[k]
        /\ Lines[k] = SubSeq(functors[k], ran[k] + 1, Len(functors[k])) \o pending[k]
    BY DEF Lines, Line
  <2>3. CASE k # l
    <3>1. functors'[k] = functors[k] /\ pending'[k] = pending[k] /\ ran'[k] = ran[k]
      BY <2>3 DEF SwapBatch, EndBatch, TypeOK
    <3> QED
      BY <2>2, <3>1
  <2>4. CASE k = l /\ SwapBatch(l)
    <3>1. /\ functors[k] = <<>> /\ ran' = ran /\ pending'[k] = <<>>
          /\ functors'[k] = pending[k]
      BY <2>4 DEF SwapBatch, HandlesEvents, TypeOK
    <3>2. ran[k] = 0
      BY <2>1, <3>1
    <3>3. SubSeq(pending[k], 0 + 1, Len(pending[k])) = pending[k]
      BY <2>1, RestEnds
    <3>4. Lines'[k] = pending[k] \o <<>>
      BY <2>2, <3>1, <3>2, <3>3
    <3>5. SubSeq(functors[k], 0 + 1, Len(functors[k])) = <<>>
      BY <2>1, <3>1, RestEnds
    <3>6. Lines[k] = <<>> \o pending[k]
      BY <2>2, <3>2, <3>5
    <3> QED
      BY <3>4, <3>6, <2>1
  <2>5. CASE k = l /\ EndBatch(l)
    <3>1. /\ functors'[k] = <<>> /\ ran'[k] = 0 /\ pending' = pending
          /\ ran[k] = Len(functors[k])
      BY <2>5 DEF EndBatch, TypeOK
    <3>2. SubSeq(functors[k], ran[k] + 1, Len(functors[k])) = <<>>
      BY <2>1, <3>1, RestEnds
    <3>3. SubSeq(functors'[k], ran'[k] + 1, Len(functors'[k])) = <<>>
      BY <3>1
    <3> QED
      BY <3>1, <3>2, <3>3, <2>2
  <2> QED
    BY <2>3, <2>4, <2>5
<1>2. Lines' = [k \in Loops |-> Lines'[k]] /\ Lines = [k \in Loops |-> Lines[k]]
  BY DEF Lines
<1> QED
  BY <1>1, <1>2, Zenon

(* The entries that die in one tick send one shutdown each, to the loops of
   their connections. *)
LEMMA ShutdownsType ==
  ASSUME TypeOK, NEW l \in Loops
  PROVE  /\ Shutdowns(l) \in Seq(Functors)
         /\ \A i \in 1..Len(Shutdowns(l)) :
              \E c \in Expired : Shutdowns(l)[i] = Functor("shutdown_in_loop_", c)
         /\ \A c \in Expired : conn[c].loop = l =>
              \E i \in 1..Len(Shutdowns(l)) : Shutdowns(l)[i] = Functor("shutdown_in_loop_", c)
<1> DEFINE D == {d \in Expired : conn[d].loop = l}
           S == {Functor("shutdown_in_loop_", c) : c \in D}
           g == [c \in D |-> Functor("shutdown_in_loop_", c)]
<1>1. D \in SUBSET Conns /\ D \subseteq Expired
  <2>1. Expired \subseteq Conns
    BY DEF Expired, Dropped, TypeOK, Buckets
  <2> QED
    BY <2>1
<1>2. IsFiniteSet(Conns)
  BY FS_Interval, ConnsAssumption DEF Conns
<1>3. IsFiniteSet(D)
  BY <1>1, <1>2, FS_Subset
<1>4. S \subseteq Functors
  BY <1>1, FunctorFields
<1>5. g \in Surjection(D, S)
  BY DEF Surjection
<1>6. \A x \in S : \E c \in D : x = Functor("shutdown_in_loop_", c)
  OBVIOUS
<1>7. \A c \in D : Functor("shutdown_in_loop_", c) \in S
  OBVIOUS
<1>8. \A c \in Expired : conn[c].loop = l => c \in D
  OBVIOUS
<1>9. Shutdowns(l) = SetToSeq(S)
  BY DEF Shutdowns
<1> HIDE DEF g, S, D
<1>10. IsFiniteSet(S)
  BY <1>3, <1>5, FS_Surjection
<1>11. /\ SetToSeq(S) \in Seq(S)
       /\ \A x \in S : \E i \in 1..Len(SetToSeq(S)) : SetToSeq(S)[i] = x
  BY <1>10, SetToSeqLists
<1> DEFINE t == Shutdowns(l)
<1>12. t \in Seq(S) /\ \A x \in S : \E i \in 1..Len(t) : t[i] = x
  BY <1>9, <1>11
<1> HIDE DEF t
<1>13. t \in Seq(Functors)
  BY <1>4, <1>12
<1>14. \A i \in 1..Len(t) : t[i] \in S
  BY <1>12
<1> QED
  BY <1>1, <1>6, <1>7, <1>8, <1>12, <1>13, <1>14 DEF t

(* A tick appends its shutdowns to the lines of the I/O loops. *)
LEMMA TickLines ==
  ASSUME TypeOK, Tick
  PROVE  Lines' = [k \in Loops |-> Lines[k] \o (IF k = Base THEN <<>> ELSE Shutdowns(k))]
<1> DEFINE s == [k \in Loops |-> IF k = Base THEN <<>> ELSE Shutdowns(k)]
<1>a. /\ pending' = [l \in Loops |-> IF l = Base THEN pending[l] ELSE pending[l] \o Shutdowns(l)]
      /\ UNCHANGED <<functors, ran>>
  BY DEF Tick
<1>b. s \in QueuesType
  <2>1. <<>> \in Seq(Functors) /\ \A k \in Loops : Shutdowns(k) \in Seq(Functors)
    BY ShutdownsType
  <2> QED
    BY <2>1 DEF QueuesType
<1>1. ASSUME NEW k \in Loops PROVE Lines'[k] = Lines[k] \o s[k]
  <2> DEFINE a == SubSeq(functors[k], ran[k] + 1, Len(functors[k]))
  <2>1. functors[k] \in Seq(Functors) /\ pending[k] \in Seq(Functors) /\ ran[k] \in Nat
    BY DEF TypeOK
  <2>2. a \in Seq(Functors)
    BY <2>1, RestType
  <2>3. s[k] \in Seq(Functors)
    BY <1>b DEF QueuesType
  <2>4. pending'[k] = pending[k] \o s[k]
    <3>1. pending[k] \o <<>> = pending[k]
      BY <2>1
    <3> QED
      BY <3>1, <1>a
  <2>5. Lines[k] = a \o pending[k] /\ Lines'[k] = a \o pending'[k]
    BY <1>a DEF Lines, Line
  <2> HIDE DEF a, s
  <2> DEFINE b == pending[k]
             t == s[k]
  <2>6. a \o (b \o t) = (a \o b) \o t
    <3>1. b \in Seq(Functors) /\ t \in Seq(Functors)
      BY <2>1, <2>3
    <3> HIDE DEF b, t
    <3> QED
      BY <3>1, <2>2, ConcatAssociative, SMTT(30)
  <2> QED
    BY <2>4, <2>5, <2>6
<1>2. Lines' = [k \in Loops |-> Lines'[k]]
  BY DEF Lines
<1>3. \A k \in Loops : s[k] = IF k = Base THEN <<>> ELSE Shutdowns(k)
  OBVIOUS
<1> HIDE DEF s
<1> QED
  BY <1>1, <1>2, <1>3, Zenon

-------------------------------------------------------------------------------
(* Types.                                                                    *)

(* shutdown_in_loop_ keeps the type of the objects. *)
LEMMA ShutType ==
  ASSUME NEW cs \in [Conns -> Objects], NEW C
  PROVE  Shut(cs, C) \in [Conns -> Objects]
<1>1. ASSUME NEW d \in Conns PROVE Shut(cs, C)[d] \in Objects
  <2>1. [cs[d] EXCEPT !.status = "DISCONNECTING"] \in Objects
    BY DEF Objects
  <2> QED
    BY <2>1 DEF Shut
<1> QED
  BY <1>1 DEF Shut

(* The operations on the objects keep their type and leave the others alone. *)
LEMMA ObjectsType ==
  ASSUME NEW cs \in [Conns -> Objects], NEW c \in Conns
  PROVE  /\ Built(cs, c) \in [Conns -> Objects]
         /\ Closed(cs, c) \in [Conns -> Objects]
         /\ Destroyed(cs, c) \in [Conns -> Objects]
         /\ \A d \in Conns : d # c => /\ Built(cs, c)[d] = cs[d]
                                      /\ Closed(cs, c)[d] = cs[d]
                                      /\ Destroyed(cs, c)[d] = cs[d]
<1>1. Built(cs, c) \in [Conns -> Objects]
  BY DEF Built, Objects
<1>4. Closed(cs, c) \in [Conns -> Objects]
  BY DEF Closed, Objects
<1>5. Destroyed(cs, c) \in [Conns -> Objects]
  BY ZenonT(40) DEF Destroyed, Objects
<1>6. \A d \in Conns : d # c => /\ Built(cs, c)[d] = cs[d]
                                /\ Closed(cs, c)[d] = cs[d]
                                /\ Destroyed(cs, c)[d] = cs[d]
  BY DEF Built, Closed, Destroyed
<1> QED
  BY <1>1, <1>4, <1>5, <1>6

(* What they do to the object itself. *)
LEMMA ObjectFields ==
  ASSUME NEW cs \in [Conns -> Objects], NEW c \in Conns
  PROVE  /\ Built(cs, c)[c].status = "CONNECTED" /\ Built(cs, c)[c].channel = "on"
         /\ Built(cs, c)[c].loop = cs[c].loop
         /\ Closed(cs, c)[c].status = "DISCONNECTED" /\ Closed(cs, c)[c].channel = "off"
         /\ Closed(cs, c)[c].loop = cs[c].loop
         /\ Destroyed(cs, c)[c].channel = "removed" /\ Destroyed(cs, c)[c].loop = cs[c].loop
         /\ cs[c].status = "DISCONNECTED" => Destroyed(cs, c)[c].status = "DISCONNECTED"
  BY DEF Built, Closed, Destroyed, Objects

(* Shutting changes no loop and no channel, and only what is connected. *)
LEMMA ShutFields ==
  ASSUME NEW cs \in [Conns -> Objects], NEW c \in Conns, NEW C
  PROVE  /\ Shut(cs, C)[c].loop = cs[c].loop /\ Shut(cs, C)[c].channel = cs[c].channel
         /\ Shut(cs, C)[c].status = IF c \in C /\ cs[c].status = "CONNECTED"
                                      THEN "DISCONNECTING" ELSE cs[c].status
<1>1. CASE c \in C /\ cs[c].status = "CONNECTED"
  <2>1. Shut(cs, C)[c] = [cs[c] EXCEPT !.status = "DISCONNECTING"]
    BY <1>1 DEF Shut
  <2> QED
    BY <1>1, <2>1 DEF Objects
<1>2. CASE ~(c \in C /\ cs[c].status = "CONNECTED")
  <2>1. Shut(cs, C)[c] = cs[c]
    BY <1>2 DEF Shut
  <2> QED
    BY <1>2, <2>1
<1> QED
  BY <1>1, <1>2

(* The constructors establish the types. *)
LEMMA InitTypes == Init => TypeOK /\ LoopsInv
<1> SUFFICES ASSUME Init PROVE TypeOK /\ LoopsInv
  OBVIOUS
<1> USE ConnsAssumption, ThreadsAssumption
<1>1. NoObject \in Objects
  BY DEF NoObject, Objects, Base, Loops
<1>2. conn \in [Conns -> Objects]
  BY <1>1 DEF Init
<1>3. <<>> \in Seq(Functors) /\ Len(<<>>) = 0
  OBVIOUS
<1>4. pending \in [Loops -> Seq(Functors)] /\ functors \in [Loops -> Seq(Functors)]
  BY <1>3 DEF Init
<1>5. /\ ran \in [Loops -> Nat] /\ held \in [Loops -> Conns \cup {NoConn}]
      /\ peer \in [Conns -> {"open", "closed"}] /\ idle \in [Conns -> 0..Buckets]
  BY DEF Init, Buckets
<1>6. {} \in SUBSET Conns /\ {} \subseteq 1..(next_id - 1)
  OBVIOUS
<1>7. wheel \in [1..Buckets -> SUBSET Conns]
  BY <1>6 DEF Init
<1>8. /\ num_threads_ \in 0..MaxThreads /\ loops_ \in 0..MaxThreads
      /\ next_ = 0 /\ next_id \in 1..(MaxConns + 1) /\ connection_ \subseteq 1..(next_id - 1)
  BY <1>6 DEF Init
<1>9. {listening_, stale, failed} \subseteq BOOLEAN
  BY DEF Init
<1>10. LoopsInv
  BY <1>3 DEF Init, LoopsInv
<1> QED
  BY <1>2, <1>4, <1>5, <1>7, <1>8, <1>9, <1>10 DEF TypeOK

(* Taking over a queue keeps the type of the queues. *)
LEMMA QueueType ==
  ASSUME NEW q \in [Loops -> Seq(Functors)], NEW l, NEW e \in Functors
  PROVE  Queue(q, l, e) \in [Loops -> Seq(Functors)]
<1>1. \A k \in Loops : Append(q[k], e) \in Seq(Functors)
  OBVIOUS
<1> QED
  BY <1>1 DEF Queue

(* Every step keeps the types. *)
LEMMA NextTypes == TypeOK /\ LoopsInv /\ [Next]_vars => TypeOK' /\ LoopsInv'
<1> SUFFICES ASSUME TypeOK, LoopsInv, [Next]_vars PROVE TypeOK' /\ LoopsInv'
  OBVIOUS
<1> USE ConnsAssumption, ThreadsAssumption
<1>0. \A f \in Owning \cup {"shutdown_in_loop_"} : \A c \in Conns : Functor(f, c) \in Functors
  BY FunctorFields
<1>a. \A c \in Conns : Inserted(wheel, c) \in [1..Buckets -> SUBSET Conns]
  BY DEF Inserted, TypeOK, Buckets
<1>b. Base \in Loops /\ \A c \in Conns : conn[c].loop \in Loops
  BY DEF TypeOK, Objects, Base, Loops
<1>c. \A l \in Loops : functors[l] \in Seq(Functors) /\ Len(functors[l]) \in Nat
  BY DEF TypeOK
<1>1. ASSUME NEW n \in 0..MaxThreads, SetThreadNum(n) PROVE TypeOK' /\ LoopsInv'
  BY <1>1 DEF SetThreadNum, queueVars, TypeOK, LoopsInv
<1>2. CASE Start
  BY <1>2 DEF Start, PoolStart, Listen, queueVars, TypeOK, LoopsInv
<1>3. CASE NewConnection
  <2> DEFINE c == next_id
             l == NextLoop
             cs == [conn EXCEPT ![c] = [loop |-> l, status |-> "CONNECTING", channel |-> "none"]]
  <2>1. /\ c \in Conns /\ next_id' = next_id + 1
        /\ next_' = IF loops_ = 0 THEN next_ ELSE Advanced
        /\ connection_' = connection_ \cup {c}
        /\ \/ conn' = Built(cs, c) /\ wheel' = Inserted(wheel, c) /\ pending' = pending
           \/ /\ conn' = cs /\ wheel' = wheel
              /\ pending' = Queue(pending, l, Functor("build_connect", c))
        /\ UNCHANGED <<num_threads_, loops_, listening_, functors, ran, held, peer, idle,
                 stale, failed>>
        /\ listening_
    BY <1>3 DEF NewConnection, Accepts
  <2>2. l \in Loops
    <3>1. loops_ \in 0..MaxThreads /\ (next_ = 0 \/ next_ \in 0..(loops_ - 1))
      BY DEF TypeOK
    <3>2. loops_ # 0 => next_ + 1 \in 0..MaxThreads
      BY <3>1
    <3> QED
      BY <3>2, <1>b DEF NextLoop, Loops
  <2>3. cs \in [Conns -> Objects]
    BY <2>1, <2>2 DEF TypeOK, Objects
  <2>4. next_' = 0 \/ next_' \in 0..(loops_ - 1)
    BY <2>1 DEF TypeOK, Advanced
  <2>5. next_id' \in 1..(MaxConns + 1) /\ connection_' \subseteq 1..(next_id' - 1)
    BY <2>1 DEF TypeOK, Conns
  <2>6. "build_connect" \in Owning
    BY DEF Owning
  <2> HIDE DEF c, l, cs
  <2>7. conn' \in [Conns -> Objects]
    BY <2>1, <2>3, ObjectsType
  <2>8. wheel' \in [1..Buckets -> SUBSET Conns]
    BY <2>1, <1>a DEF TypeOK
  <2>9. pending' \in [Loops -> Seq(Functors)]
    <3>1. Functor("build_connect", c) \in Functors
      BY <2>1, <2>6, <1>0
    <3>2. Queue(pending, l, Functor("build_connect", c)) \in [Loops -> Seq(Functors)]
      BY <3>1, QueueType DEF TypeOK
    <3> QED
      BY <2>1, <3>2 DEF TypeOK
  <2>10. LoopsInv'
    BY <2>1 DEF LoopsInv
  <2> QED
    BY <2>1, <2>4, <2>5, <2>7, <2>8, <2>9, <2>10 DEF TypeOK
<1>4. CASE Tick
  <2>1. conn' \in [Conns -> Objects]
    BY <1>4, ShutType DEF Tick, TypeOK
  <2>2. wheel' \in [1..Buckets -> SUBSET Conns]
    BY <1>4 DEF Tick, TypeOK, Buckets
  <2>3. idle' \in [Conns -> 0..Buckets]
    BY <1>4 DEF Tick, TypeOK, Buckets
  <2>4. pending' \in [Loops -> Seq(Functors)]
    <3>1. ASSUME NEW l \in Loops PROVE pending[l] \o Shutdowns(l) \in Seq(Functors)
      <4>1. pending[l] \in Seq(Functors) /\ Shutdowns(l) \in Seq(Functors)
        BY ShutdownsType DEF TypeOK
      <4> QED
        BY <4>1
    <3>2. \A l \in Loops : pending[l] \in Seq(Functors)
      BY DEF TypeOK
    <3> QED
      BY <1>4, <3>1, <3>2 DEF Tick
  <2>5. UNCHANGED <<num_threads_, loops_, listening_, next_, next_id, connection_, functors, ran,
                    held, peer, stale, failed>>
    BY <1>4 DEF Tick, serverVars
  <2> QED
    BY <2>1, <2>2, <2>3, <2>4, <2>5 DEF TypeOK, LoopsInv
<1>5. ASSUME NEW c \in Conns, MessageLocks(c) PROVE TypeOK' /\ LoopsInv'
  BY <1>5, <1>b DEF MessageLocks, serverVars, queueVars, TypeOK, LoopsInv
<1>6. ASSUME NEW c \in Conns, PeerCloses(c) PROVE TypeOK' /\ LoopsInv'
  BY <1>6 DEF PeerCloses, serverVars, queueVars, TypeOK, LoopsInv
<1>7. ASSUME NEW c \in Conns, HandleClose(c) PROVE TypeOK' /\ LoopsInv'
  <2>1. conn' \in [Conns -> Objects]
    <3>1. Closed(conn, c) \in [Conns -> Objects]
      BY ObjectsType DEF TypeOK
    <3>2. Destroyed(Closed(conn, c), c) \in [Conns -> Objects]
      BY <3>1, ObjectsType
    <3> QED
      BY <1>7, <3>1, <3>2 DEF HandleClose
  <2>2. connection_' \subseteq connection_
    BY <1>7 DEF HandleClose, Erased
  <2>3. pending' \in [Loops -> Seq(Functors)]
    <3>1. "remove_connection_in_loop" \in Owning
      BY DEF Owning
    <3>2. Queue(pending, Base, Functor("remove_connection_in_loop", c)) \in [Loops -> Seq(Functors)]
      BY <3>1, <1>0, QueueType DEF TypeOK
    <3> QED
      BY <1>7, <3>2 DEF HandleClose, TypeOK
  <2>4. failed' \in BOOLEAN
    BY <1>7, Zenon DEF HandleClose, TypeOK
  <2>5. UNCHANGED <<num_threads_, loops_, listening_, next_, next_id, functors, ran, wheel,
                    held, peer, idle, stale>>
    BY <1>7 DEF HandleClose, serverVars
  <2> QED
    BY <2>1, <2>2, <2>3, <2>4, <2>5 DEF TypeOK, LoopsInv
<1>8. ASSUME NEW l \in Loops, MessageInserts(l) PROVE TypeOK' /\ LoopsInv'
  <2>1. held[l] \in Conns
    BY <1>8 DEF MessageInserts, TypeOK
  <2>2. wheel' \in [1..Buckets -> SUBSET Conns]
    BY <1>8, <2>1, <1>a DEF MessageInserts
  <2>3. idle' \in [Conns -> 0..Buckets] /\ held' \in [Loops -> Conns \cup {NoConn}]
    BY <1>8, <2>1 DEF MessageInserts, TypeOK, Buckets
  <2>4. UNCHANGED <<num_threads_, loops_, listening_, next_, next_id, connection_, conn, pending,
                    functors, ran, peer, stale, failed>>
    BY <1>8 DEF MessageInserts, serverVars, queueVars
  <2> QED
    BY <2>2, <2>3, <2>4 DEF TypeOK, LoopsInv
<1>9. ASSUME NEW l \in Loops, SwapBatch(l) PROVE TypeOK' /\ LoopsInv'
  <2>1. /\ pending' \in [Loops -> Seq(Functors)] /\ functors' \in [Loops -> Seq(Functors)]
    BY <1>9 DEF SwapBatch, TypeOK
  <2>2. ASSUME NEW k \in Loops PROVE ran[k] <= Len(functors'[k])
    <3>1. CASE k = l
      <4>1. ran[l] = 0
        BY <1>9, <1>c DEF SwapBatch, HandlesEvents, LoopsInv, TypeOK
      <4>2. functors'[k] \in Seq(Functors)
        BY <2>1
      <4> QED
        BY <3>1, <4>1, <4>2
    <3>2. CASE k # l
      BY <1>9, <3>2 DEF SwapBatch, TypeOK, LoopsInv
    <3> QED
      BY <3>1, <3>2
  <2>3. UNCHANGED <<num_threads_, loops_, listening_, next_, next_id, connection_, conn, ran, wheel,
                    held, peer, idle, stale, failed>>
    BY <1>9 DEF SwapBatch, serverVars
  <2> QED
    BY <2>1, <2>2, <2>3 DEF TypeOK, LoopsInv
<1>10. ASSUME NEW l \in Loops, EndBatch(l) PROVE TypeOK' /\ LoopsInv'
  <2>1. functors' \in [Loops -> Seq(Functors)] /\ ran' \in [Loops -> Nat]
    BY <1>10 DEF EndBatch, TypeOK
  <2>2. ASSUME NEW k \in Loops PROVE ran'[k] <= Len(functors'[k])
    <3>1. functors'[k] \in Seq(Functors)
      BY <2>1
    <3>2. CASE k = l
      BY <1>10, <3>1, <3>2 DEF EndBatch, TypeOK
    <3>3. CASE k # l
      BY <1>10, <3>3 DEF EndBatch, TypeOK, LoopsInv
    <3> QED
      BY <3>2, <3>3
  <2>3. UNCHANGED <<num_threads_, loops_, listening_, next_, next_id, connection_, conn, pending,
                    wheel, held, peer, idle, stale, failed>>
    BY <1>10 DEF EndBatch, serverVars
  <2> QED
    BY <2>1, <2>2, <2>3 DEF TypeOK, LoopsInv
<1>11. ASSUME NEW l \in Loops, NEW f, NEW c \in Conns, Runs(l, f, c)
       PROVE  /\ ran' \in [Loops -> Nat] /\ \A k \in Loops : ran'[k] <= Len(functors'[k])
              /\ UNCHANGED <<num_threads_, loops_, listening_, next_, next_id, functors, held, peer>>
  BY <1>11, <1>c DEF Runs, serverVars, TypeOK, LoopsInv
<1>12. ASSUME NEW l \in Loops, NEW c \in Conns, RunBuild(l, c) PROVE TypeOK' /\ LoopsInv'
  <2>1. conn' \in [Conns -> Objects]
    BY <1>12, ObjectsType DEF RunBuild, TypeOK
  <2>2. wheel' \in [1..Buckets -> SUBSET Conns] /\ idle' \in [Conns -> 0..Buckets]
    BY <1>12, <1>a DEF RunBuild, TypeOK, Buckets
  <2>3. failed' \in BOOLEAN
    BY <1>12, Zenon DEF RunBuild
  <2>4. UNCHANGED <<connection_, pending, stale>> /\ Runs(l, "build_connect", c)
    BY <1>12 DEF RunBuild
  <2> QED
    BY <2>1, <2>2, <2>3, <2>4, <1>11 DEF TypeOK, LoopsInv
<1>13. ASSUME NEW l \in Loops, NEW c \in Conns, RunRemove(l, c) PROVE TypeOK' /\ LoopsInv'
  <2>1. "destroy_connect" \in Owning
    BY DEF Owning
  <2>2. pending' \in [Loops -> Seq(Functors)]
    BY <1>13, <2>1, <1>0, QueueType DEF RunRemove, TypeOK
  <2>3. failed' \in BOOLEAN
    BY <1>13, Zenon DEF RunRemove
  <2>4. connection_' \subseteq connection_
    BY <1>13 DEF RunRemove, Erased
  <2>5. UNCHANGED <<conn, wheel, idle, stale>> /\ Runs(l, "remove_connection_in_loop", c)
    BY <1>13 DEF RunRemove
  <2> QED
    BY <2>2, <2>3, <2>4, <2>5, <1>11 DEF TypeOK, LoopsInv
<1>14. ASSUME NEW l \in Loops, NEW c \in Conns, RunDestroy(l, c) PROVE TypeOK' /\ LoopsInv'
  <2>1. conn' \in [Conns -> Objects]
    BY <1>14, ObjectsType DEF RunDestroy, TypeOK
  <2>2. failed' \in BOOLEAN
    BY <1>14, Zenon DEF RunDestroy
  <2>3. UNCHANGED <<connection_, pending, wheel, idle, stale>> /\ Runs(l, "destroy_connect", c)
    BY <1>14 DEF RunDestroy
  <2> QED
    BY <2>1, <2>2, <2>3, <1>11 DEF TypeOK, LoopsInv
<1>15. ASSUME NEW l \in Loops, NEW c \in Conns, RunShutdown(l, c) PROVE TypeOK' /\ LoopsInv'
  <2>1. PICK C : conn' = Shut(conn, C)
    BY <1>15 DEF RunShutdown
  <2>2. conn' \in [Conns -> Objects]
    BY <2>1, ShutType DEF TypeOK
  <2>3. stale' \in BOOLEAN
    BY <1>15 DEF RunShutdown, TypeOK
  <2>4. UNCHANGED <<connection_, pending, wheel, idle, failed>> /\ Runs(l, "shutdown_in_loop_", c)
    BY <1>15 DEF RunShutdown
  <2> QED
    BY <2>2, <2>3, <2>4, <1>11 DEF TypeOK, LoopsInv
<1>16. CASE UNCHANGED vars
  BY <1>16 DEF vars, TypeOK, LoopsInv
<1> QED
  BY <1>1, <1>2, <1>3, <1>4, <1>5, <1>6, <1>7, <1>8, <1>9, <1>10, <1>12, <1>13, <1>14, <1>15,
     <1>16 DEF Next, LoopStep

-------------------------------------------------------------------------------
(* Every step moves a connection along its life.                             *)

(* The objects' part of a stage: what its channel or its place says. *)
LEMMA StageChannel ==
  ASSUME NEW q, NEW c \in Conns, NEW o, NEW m, NEW n \in Nat, Stage(q, c, o, m, n)
  PROVE  /\ o.channel = "on" => Up(q, c, o, m, n)
         /\ c >= n => Unborn(q, c, o, m, n)
         /\ c < n /\ c \notin m => /\ o.status = "DISCONNECTED"
                                   /\ o.channel = "removed" \/ Sole(q, "destroy_connect", c)
         /\ o.status \in {"CONNECTED", "DISCONNECTING"} => Up(q, c, o, m, n)
<1>1. c \in Nat /\ ~(c < n /\ c >= n)
  BY DEF Conns
<1> QED
  BY <1>1 DEF Stage, Unborn, Building, Up, Closing, Leaving, Gone, NoObject

(* The functor at the front of a line says in which stage its connection is. *)
LEMMA StageRun ==
  ASSUME NEW q, NEW c, NEW o, NEW m, NEW n, NEW f \in Owning,
         Stage(q, c, o, m, n), ~Quiet(q, c), \A g \in Owning : Sole(q, g, c) => g = f
  PROVE  /\ f = "build_connect" => Building(q, c, o, m, n)
         /\ f = "remove_connection_in_loop" => Closing(q, c, o, m, n)
         /\ f = "destroy_connect" => Leaving(q, c, o, m, n)
<1>1. {"build_connect", "remove_connection_in_loop", "destroy_connect"} \subseteq Owning
  BY DEF Owning
<1> QED
  BY <1>1 DEF Stage, Unborn, Building, Up, Closing, Leaving, Gone

(* Running a functor: it held its connection alone, and the others keep their
   holders. *)
LEMMA RunPops ==
  ASSUME TypeOK, NEW l \in Loops, NEW f \in Owning \cup {"shutdown_in_loop_"}, NEW c \in Conns,
         Runs(l, f, c), pending' = pending
  PROVE  /\ f \in Owning => ~Quiet(Lines, c)
         /\ f \in Owning => \A g \in Owning : Sole(Lines, g, c) => g = f /\ Quiet(Lines', c)
         /\ \A d \in Conns : d # c \/ f \notin Owning => SameOwner(Lines, Lines', d)
<1> DEFINE q == Lines
           r == Lines'
<1>1. q \in QueuesType
  BY LinesType
<1>2. q[l] # <<>> /\ Head(q[l]) = Functor(f, c) /\ r = [q EXCEPT ![l] = Tail(@)]
  BY LinePop
<1> HIDE DEF q, r
<1>3. r[l] = Tail(q[l]) /\ \A k \in Loops : k # l => r[k] = q[k]
  BY <1>1, <1>2, PopLine
<1>4. /\ f \in Owning => ~Quiet(q, c)
      /\ f \in Owning => \A g \in Owning : Sole(q, g, c) => g = f /\ Quiet(r, c)
      /\ \A d \in Conns : d # c \/ f \notin Owning => SameOwner(q, r, d)
  <2>1. q[l] # <<>> /\ Head(q[l]) = Functor(f, c)
    BY <1>2
  <2> QED
    BY <1>1, <1>3, <2>1, PopOwner, Zenon
<1> QED
  BY <1>4 DEF q, r

(* Before anything is accepted every connection is unborn. *)
LEMMA InitLife == Init => LifeInv
<1> SUFFICES ASSUME Init, NEW c \in Conns
             PROVE  Stage(Lines, c, conn[c], connection_, next_id)
  BY DEF LifeInv
<1>1. \A l \in Loops : Lines[l] = <<>>
  <2>1. SubSeq(<<>>, 0 + 1, Len(<<>>)) = <<>> /\ <<>> \o <<>> = <<>>
    OBVIOUS
  <2> QED
    BY <2>1 DEF Init, Lines, Line
<1>2. Quiet(Lines, c)
  BY <1>1 DEF Quiet, Owns
<1>3. c >= next_id /\ c \notin connection_ /\ conn[c] = NoObject
  BY DEF Init, Conns
<1> QED
  BY <1>2, <1>3 DEF Stage, Unborn

(* The life of the connections is kept by every step, and no assertion fails. *)
LEMMA NextLife ==
  TypeOK /\ LoopsInv /\ LifeInv /\ ~failed /\ [Next]_vars => LifeInv' /\ ~failed'
<1> SUFFICES ASSUME TypeOK, LoopsInv, LifeInv, ~failed, [Next]_vars PROVE LifeInv' /\ ~failed'
  OBVIOUS
<1> USE ConnsAssumption, ThreadsAssumption
<1>0. /\ Lines \in QueuesType /\ conn \in [Conns -> Objects] /\ next_id \in Nat
      /\ Base \in Loops /\ \A c \in Conns : conn[c].loop \in Loops
  <2>1. Lines \in QueuesType
    BY LinesType
  <2>2. conn \in [Conns -> Objects] /\ next_id \in Nat
    BY DEF TypeOK
  <2>3. Base \in Loops
    BY DEF Base, Loops
  <2>4. \A c \in Conns : conn[c].loop \in Loops
    BY <2>2 DEF Objects
  <2> QED
    BY <2>1, <2>2, <2>3, <2>4
<1>a. \A d \in Conns : Stage(Lines, d, conn[d], connection_, next_id)
  BY DEF LifeInv
<1>b. {"build_connect", "remove_connection_in_loop", "destroy_connect"} \subseteq Owning
  BY DEF Owning
(* A step that keeps the lines, the objects, the map and the ids. *)
<1>c. ASSUME UNCHANGED <<conn, connection_, next_id, failed>>, Lines' = Lines
      PROVE  LifeInv' /\ ~failed'
  BY <1>c DEF LifeInv
<1>d. ASSUME UNCHANGED <<functors, ran, pending>> PROVE Lines' = Lines
  BY <1>d DEF Lines, Line
<1>1. ASSUME NEW n \in 0..MaxThreads, SetThreadNum(n) PROVE LifeInv' /\ ~failed'
  BY <1>1, <1>c, <1>d DEF SetThreadNum, queueVars
<1>2. CASE Start
  BY <1>2, <1>c, <1>d DEF Start, queueVars
<1>3. CASE NewConnection
  <2> DEFINE c == next_id
             l == NextLoop
             cs == [conn EXCEPT ![c] = [loop |-> l, status |-> "CONNECTING", channel |-> "none"]]
  <2>1. /\ c \in Conns /\ next_id' = c + 1 /\ connection_' = connection_ \cup {c}
        /\ \/ conn' = Built(cs, c) /\ pending' = pending
           \/ conn' = cs /\ pending' = Queue(pending, l, Functor("build_connect", c))
        /\ UNCHANGED <<functors, ran, failed>>
    BY <1>3 DEF NewConnection
  <2>2. l \in Loops
    <3>1. loops_ \in 0..MaxThreads /\ (next_ = 0 \/ next_ \in 0..(loops_ - 1))
      BY DEF TypeOK
    <3>2. loops_ # 0 => next_ + 1 \in 0..MaxThreads
      BY <3>1
    <3> QED
      BY <3>2, <1>0 DEF NextLoop, Loops
  <2>3. /\ cs \in [Conns -> Objects] /\ \A d \in Conns : d # c => cs[d] = conn[d]
        /\ cs[c].status = "CONNECTING" /\ cs[c].channel = "none"
    BY <2>1, <2>2, <1>0 DEF Objects
  <2>4. \A d \in Conns : d # c => /\ d \in connection_ <=> d \in connection_'
                                  /\ d < next_id <=> d < next_id'
    BY <2>1, <1>0 DEF Conns
  <2>5. c < next_id' /\ c \in connection_' /\ next_id' \in Nat /\ c >= next_id
    BY <2>1, <1>0
  <2>6. Quiet(Lines, c)
    BY <2>1, <2>5, <1>0, <1>a, StageChannel DEF Unborn
  <2> HIDE DEF l, cs, c
  <2>7. CASE conn' = Built(cs, c) /\ pending' = pending
    <3>1. Lines' = Lines
      BY <2>1, <2>7, <1>d
    <3>2. /\ conn'[c].status = "CONNECTED" /\ conn'[c].channel = "on"
          /\ \A d \in Conns : d # c => conn'[d] = conn[d]
      BY <2>1, <2>3, <2>7, ObjectFields, ObjectsType
    <3>3. Up(Lines', c, conn'[c], connection_', next_id')
      BY <2>5, <2>6, <3>1, <3>2 DEF Up
    <3>4. ASSUME NEW d \in Conns, d # c
          PROVE  Stage(Lines', d, conn'[d], connection_', next_id')
      <4>1. Stage(Lines, d, conn'[d], connection_, next_id)
        BY <1>a, <3>2, <3>4
      <4>2. SameOwner(Lines, Lines', d)
        BY <3>1, SameOwnerTrans
      <4> QED
        BY <4>1, <4>2, <2>4, <2>5, <3>4, <1>0, StageKept
    <3>5. LifeInv'
      BY <3>3, <3>4 DEF LifeInv, Stage
    <3> QED
      BY <3>5, <2>1
  <2>8. CASE conn' = cs /\ pending' = Queue(pending, l, Functor("build_connect", c))
    <3>1. Functor("build_connect", c) \in Functors
      BY <2>1, <1>b, FunctorFields
    <3>2. Lines' = [Lines EXCEPT ![l] = Append(@, Functor("build_connect", c))]
      BY <2>1, <2>2, <2>8, <3>1, LinePush
    <3>3. /\ Sole(Lines', "build_connect", c)
          /\ \A d \in Conns : d # c => SameOwner(Lines, Lines', d)
      BY <2>1, <2>2, <2>6, <3>2, <1>0, <1>b, PushOwner
    <3>4. Building(Lines', c, conn'[c], connection_', next_id')
      BY <2>3, <2>5, <2>8, <3>3 DEF Building
    <3>5. ASSUME NEW d \in Conns, d # c
          PROVE  Stage(Lines', d, conn'[d], connection_', next_id')
      <4>1. Stage(Lines, d, conn'[d], connection_, next_id)
        BY <1>a, <2>3, <2>8, <3>5
      <4>2. SameOwner(Lines, Lines', d)
        BY <3>3, <3>5
      <4> QED
        BY <4>1, <4>2, <2>4, <2>5, <3>5, <1>0, StageKept
    <3>6. LifeInv'
      BY <3>4, <3>5 DEF LifeInv, Stage
    <3> QED
      BY <3>6, <2>1
  <2> QED
    BY <2>1, <2>7, <2>8
<1>4. CASE Tick
  <2> DEFINE s == [k \in Loops |-> IF k = Base THEN <<>> ELSE Shutdowns(k)]
             C == {c \in Expired : conn[c].loop = Base}
  <2>1. /\ conn' = Shut(conn, C)
        /\ pending' = [l \in Loops |-> IF l = Base THEN pending[l] ELSE pending[l] \o Shutdowns(l)]
        /\ UNCHANGED <<connection_, next_id, functors, ran, failed>>
    BY <1>4 DEF Tick, serverVars
  <2>2. s \in QueuesType
    <3>1. <<>> \in Seq(Functors) /\ \A k \in Loops : Shutdowns(k) \in Seq(Functors)
      BY ShutdownsType
    <3> QED
      BY <3>1 DEF QueuesType
  <2>3. ASSUME NEW k \in Loops, NEW i \in 1..Len(s[k]) PROVE s[k][i].f \notin Owning
    <3>1. CASE k = Base
      BY <3>1
    <3>2. CASE k # Base
      <4>1. s[k] = Shutdowns(k)
        BY <3>2
      <4>2. PICK d \in Expired : s[k][i] = Functor("shutdown_in_loop_", d)
        BY <4>1, ShutdownsType
      <4>3. s[k][i].f = "shutdown_in_loop_"
        BY <4>2, FunctorFields
      <4> QED
        BY <4>3 DEF Owning
    <3> QED
      BY <3>1, <3>2
  <2>4. Lines' = [k \in Loops |-> Lines[k] \o s[k]]
    BY <1>4, TickLines
  <2> HIDE DEF s, C
  <2>5. ASSUME NEW d \in Conns
        PROVE  Stage(Lines', d, conn'[d], connection_', next_id')
    <3>1. SameOwner(Lines, Lines', d)
      BY <2>2, <2>3, <2>4, <1>0, AppendKeeps
    <3>2. Stage(Lines, d, conn'[d], connection_, next_id)
      BY <2>1, <1>0, <1>a, StageShut
    <3> QED
      BY <3>1, <3>2, <2>1, <1>0, StageKept
  <2> QED
    BY <2>1, <2>5 DEF LifeInv
<1>5. ASSUME NEW c \in Conns, MessageLocks(c) PROVE LifeInv' /\ ~failed'
  BY <1>5, <1>c, <1>d DEF MessageLocks, serverVars, queueVars
<1>6. ASSUME NEW c \in Conns, PeerCloses(c) PROVE LifeInv' /\ ~failed'
  BY <1>6, <1>c, <1>d DEF PeerCloses, serverVars, queueVars
<1>7. ASSUME NEW c \in Conns, HandleClose(c) PROVE LifeInv' /\ ~failed'
  <2> DEFINE cs == Closed(conn, c)
  <2>1. Up(Lines, c, conn[c], connection_, next_id)
    BY <1>7, <1>0, <1>a, StageChannel DEF HandleClose, CanHandle
  <2>2. c < next_id /\ c \in connection_ /\ Quiet(Lines, c)
    BY <2>1 DEF Up
  <2>3. UNCHANGED <<functors, ran, next_id>>
    BY <1>7 DEF HandleClose, serverVars
  <2>4. /\ cs \in [Conns -> Objects] /\ cs[c].status = "DISCONNECTED" /\ cs[c].channel = "off"
        /\ \A d \in Conns : d # c => cs[d] = conn[d]
    BY <1>0, ObjectsType, ObjectFields
  <2> HIDE DEF cs
  <2>5. CASE /\ conn' = Destroyed(cs, c) /\ connection_' = Erased(c)
             /\ failed' = (failed \/ c \notin connection_) /\ pending' = pending
    <3>1. Lines' = Lines /\ ~failed'
      BY <2>2, <2>3, <2>5, <1>d
    <3>2. /\ conn'[c].status = "DISCONNECTED" /\ conn'[c].channel = "removed"
          /\ \A d \in Conns : d # c => conn'[d] = conn[d]
      BY <2>4, <2>5, ObjectsType, ObjectFields
    <3>3. c \notin connection_' /\ \A d \in Conns : d # c => (d \in connection_ <=> d \in connection_')
      BY <2>5 DEF Erased
    <3>4. Gone(Lines', c, conn'[c], connection_', next_id')
      BY <2>2, <2>3, <3>1, <3>2, <3>3 DEF Gone
    <3>5. ASSUME NEW d \in Conns, d # c
          PROVE  Stage(Lines', d, conn'[d], connection_', next_id')
      <4>1. Stage(Lines, d, conn'[d], connection_, next_id)
        BY <1>a, <3>2, <3>5
      <4>2. SameOwner(Lines, Lines', d)
        BY <3>1, SameOwnerTrans
      <4> QED
        BY <4>1, <4>2, <2>3, <3>3, <3>5, <1>0, StageKept
    <3> QED
      BY <3>1, <3>4, <3>5 DEF LifeInv, Stage
  <2>6. CASE /\ conn' = cs /\ UNCHANGED <<connection_, failed>>
             /\ pending' = Queue(pending, Base, Functor("remove_connection_in_loop", c))
    <3>1. Functor("remove_connection_in_loop", c) \in Functors
      BY <1>b, FunctorFields
    <3>2. Lines' = [Lines EXCEPT ![Base] = Append(@, Functor("remove_connection_in_loop", c))]
      BY <2>3, <2>6, <3>1, <1>0, LinePush
    <3>3. /\ Sole(Lines', "remove_connection_in_loop", c)
          /\ \A d \in Conns : d # c => SameOwner(Lines, Lines', d)
      BY <2>2, <3>2, <1>0, <1>b, PushOwner
    <3>4. Closing(Lines', c, conn'[c], connection_', next_id')
      BY <2>2, <2>3, <2>4, <2>6, <3>3 DEF Closing
    <3>5. ASSUME NEW d \in Conns, d # c
          PROVE  Stage(Lines', d, conn'[d], connection_', next_id')
      <4>1. Stage(Lines, d, conn'[d], connection_, next_id)
        BY <1>a, <2>4, <2>6, <3>5
      <4>2. SameOwner(Lines, Lines', d)
        BY <3>3, <3>5
      <4> QED
        BY <4>1, <4>2, <2>3, <2>6, <3>5, <1>0, StageKept
    <3> QED
      BY <2>6, <3>4, <3>5 DEF LifeInv, Stage
  <2> QED
    BY <1>7, <2>5, <2>6 DEF HandleClose, cs
<1>8. ASSUME NEW l \in Loops, MessageInserts(l) PROVE LifeInv' /\ ~failed'
  BY <1>8, <1>c, <1>d DEF MessageInserts, serverVars, queueVars
<1>9. ASSUME NEW l \in Loops, SwapBatch(l) PROVE LifeInv' /\ ~failed'
  <2>1. Lines' = Lines
    BY <1>9, LineSwap
  <2> QED
    BY <1>9, <2>1, <1>c DEF SwapBatch, serverVars
<1>10. ASSUME NEW l \in Loops, EndBatch(l) PROVE LifeInv' /\ ~failed'
  <2>1. Lines' = Lines
    BY <1>10, LineSwap
  <2> QED
    BY <1>10, <2>1, <1>c DEF EndBatch, serverVars
<1>11. ASSUME NEW l \in Loops, NEW c \in Conns, RunBuild(l, c) PROVE LifeInv' /\ ~failed'
  <2>1. /\ Runs(l, "build_connect", c) /\ pending' = pending /\ connection_' = connection_
        /\ conn' = Built(conn, c) /\ next_id' = next_id
        /\ failed' = (failed \/ conn[c].status # "CONNECTING")
    BY <1>11 DEF RunBuild, Runs, serverVars
  <2>3. /\ ~Quiet(Lines, c)
        /\ \A g \in Owning : Sole(Lines, g, c) => g = "build_connect" /\ Quiet(Lines', c)
        /\ \A d \in Conns : d # c => SameOwner(Lines, Lines', d)
    BY <2>1, <1>b, RunPops
  <2>4. Building(Lines, c, conn[c], connection_, next_id)
    BY <2>3, <1>a, <1>b, StageRun
  <2>5. /\ conn'[c].status = "CONNECTED" /\ conn'[c].channel = "on"
        /\ \A d \in Conns : d # c => conn'[d] = conn[d]
    BY <2>1, <1>0, ObjectsType, ObjectFields
  <2>6. Up(Lines', c, conn'[c], connection_', next_id')
    BY <2>1, <2>3, <2>4, <2>5, <1>b DEF Building, Up
  <2>7. ASSUME NEW d \in Conns, d # c
        PROVE  Stage(Lines', d, conn'[d], connection_', next_id')
    <3>1. Stage(Lines, d, conn'[d], connection_, next_id)
      BY <1>a, <2>5, <2>7
    <3> QED
      BY <3>1, <2>1, <2>3, <2>7, <1>0, StageKept
  <2>8. ~failed'
    BY <2>1, <2>4 DEF Building
  <2> QED
    BY <2>6, <2>7, <2>8 DEF LifeInv, Stage
<1>12. ASSUME NEW l \in Loops, NEW c \in Conns, RunRemove(l, c) PROVE LifeInv' /\ ~failed'
  <2> DEFINE r == [Lines EXCEPT ![l] = Tail(@)]
             k == conn[c].loop
  <2>1. /\ Runs(l, "remove_connection_in_loop", c) /\ connection_' = Erased(c)
        /\ pending' = Queue(pending, k, Functor("destroy_connect", c))
        /\ conn' = conn /\ next_id' = next_id
        /\ failed' = (failed \/ c \notin connection_)
    BY <1>12 DEF RunRemove, Runs, serverVars
  <2>2. k \in Loops /\ Functor("destroy_connect", c) \in Functors
    BY <1>0, <1>b, FunctorFields
  <2> HIDE DEF k
  <2>3. /\ Lines[l] # <<>> /\ Head(Lines[l]) = Functor("remove_connection_in_loop", c)
        /\ Lines' = [r EXCEPT ![k] = Append(@, Functor("destroy_connect", c))]
    BY <2>1, <2>2, LinePopPush
  <2>4. /\ r \in QueuesType /\ ~Quiet(Lines, c)
        /\ \A g \in Owning : Sole(Lines, g, c) => g = "remove_connection_in_loop" /\ Quiet(r, c)
        /\ \A d \in Conns : d # c => SameOwner(Lines, r, d)
    <3>1. /\ r \in QueuesType
          /\ r[l] = Tail(Lines[l]) /\ \A j \in Loops : j # l => r[j] = Lines[j]
      BY <2>3, <1>0, PopLine
    <3> HIDE DEF r
    <3> QED
      BY <2>3, <3>1, <1>0, <1>b, PopOwner
  <2> HIDE DEF r
  <2>5. Closing(Lines, c, conn[c], connection_, next_id)
    BY <2>4, <1>a, <1>b, StageRun
  <2>6. Quiet(r, c)
    BY <2>4, <2>5, <1>b DEF Closing
  <2>7. /\ Sole(Lines', "destroy_connect", c)
        /\ \A d \in Conns : d # c => SameOwner(r, Lines', d)
    BY <2>2, <2>3, <2>4, <2>6, <1>b, PushOwner
  <2>8. c \notin connection_' /\ \A d \in Conns : d # c => (d \in connection_ <=> d \in connection_')
    BY <2>1 DEF Erased
  <2>9. Leaving(Lines', c, conn'[c], connection_', next_id')
    BY <2>1, <2>5, <2>7, <2>8 DEF Closing, Leaving
  <2>10. ASSUME NEW d \in Conns, d # c
         PROVE  Stage(Lines', d, conn'[d], connection_', next_id')
    <3>1. Stage(Lines, d, conn'[d], connection_, next_id)
      BY <1>a, <2>1
    <3>2. SameOwner(Lines, Lines', d)
      BY <2>4, <2>7, <2>10, SameOwnerTrans
    <3> QED
      BY <3>1, <3>2, <2>1, <2>8, <2>10, <1>0, StageKept
  <2>11. ~failed'
    BY <2>1, <2>5 DEF Closing
  <2> QED
    BY <2>9, <2>10, <2>11 DEF LifeInv, Stage
<1>13. ASSUME NEW l \in Loops, NEW c \in Conns, RunDestroy(l, c) PROVE LifeInv' /\ ~failed'
  <2>1. /\ Runs(l, "destroy_connect", c) /\ pending' = pending /\ connection_' = connection_
        /\ conn' = Destroyed(conn, c) /\ next_id' = next_id
        /\ failed' = (failed \/ RemovesEnabledChannel(c))
    BY <1>13 DEF RunDestroy, Runs, serverVars
  <2>3. /\ ~Quiet(Lines, c)
        /\ \A g \in Owning : Sole(Lines, g, c) => g = "destroy_connect" /\ Quiet(Lines', c)
        /\ \A d \in Conns : d # c => SameOwner(Lines, Lines', d)
    BY <2>1, <1>b, RunPops
  <2>4. Leaving(Lines, c, conn[c], connection_, next_id)
    BY <2>3, <1>a, <1>b, StageRun
  <2>5. /\ conn'[c].status = "DISCONNECTED" /\ conn'[c].channel = "removed"
        /\ \A d \in Conns : d # c => conn'[d] = conn[d]
    BY <2>1, <2>4, <1>0, ObjectsType, ObjectFields DEF Leaving
  <2>6. Gone(Lines', c, conn'[c], connection_', next_id')
    BY <2>1, <2>3, <2>4, <2>5, <1>b DEF Leaving, Gone
  <2>7. ASSUME NEW d \in Conns, d # c
        PROVE  Stage(Lines', d, conn'[d], connection_', next_id')
    <3>1. Stage(Lines, d, conn'[d], connection_, next_id)
      BY <1>a, <2>5, <2>7
    <3> QED
      BY <3>1, <2>1, <2>3, <2>7, <1>0, StageKept
  <2>8. ~failed'
    BY <2>1, <2>4 DEF Leaving, RemovesEnabledChannel
  <2> QED
    BY <2>6, <2>7, <2>8 DEF LifeInv, Stage
<1>14. ASSUME NEW l \in Loops, NEW c \in Conns, RunShutdown(l, c) PROVE LifeInv' /\ ~failed'
  <2>1. /\ Runs(l, "shutdown_in_loop_", c) /\ pending' = pending
        /\ UNCHANGED <<connection_, next_id, failed>>
    BY <1>14 DEF RunShutdown, Runs, serverVars
  <2>2. PICK C : conn' = Shut(conn, C)
    BY <1>14 DEF RunShutdown
  <2>4. "shutdown_in_loop_" \notin Owning
    BY DEF Owning
  <2>5. \A d \in Conns : SameOwner(Lines, Lines', d)
    BY <2>1, <2>4, RunPops
  <2>6. ASSUME NEW d \in Conns
        PROVE  Stage(Lines', d, conn'[d], connection_', next_id')
    <3>1. Stage(Lines, d, conn'[d], connection_, next_id)
      BY <2>2, <1>0, <1>a, StageShut
    <3> QED
      BY <3>1, <2>1, <2>5, <1>0, StageKept
  <2> QED
    BY <2>1, <2>6 DEF LifeInv
<1>15. CASE UNCHANGED vars
  BY <1>15, <1>c, <1>d DEF vars
<1> QED
  BY <1>1, <1>2, <1>3, <1>4, <1>5, <1>6, <1>7, <1>8, <1>9, <1>10, <1>11, <1>12, <1>13, <1>14,
     <1>15 DEF Next, LoopStep

-------------------------------------------------------------------------------
(* What the steps of the loops do to the shutdowns on their way.             *)

(* A functor that holds a connection is no shutdown. *)
LEMMA SentPush ==
  ASSUME NEW q \in QueuesType, NEW l \in Loops, NEW e \in Functors, e.f \in Owning,
         NEW k \in Loops, NEW c \in Conns
  PROVE  Sent([q EXCEPT ![l] = Append(@, e)], k, c) <=> Sent(q, k, c)
<1> DEFINE r == [q EXCEPT ![l] = Append(@, e)]
           x == Functor("shutdown_in_loop_", c)
<1>1. e # x
  BY FunctorFields DEF Owning
<1> HIDE DEF x
<1>2. CASE k # l
  <2>1. r[k] = q[k]
    BY <1>2 DEF QueuesType
  <2> QED
    BY <2>1 DEF Sent
<1>3. CASE k = l
  <2> DEFINE s == q[l]
             t == Append(s, e)
  <2>1. s \in Seq(Functors) /\ r[l] = t /\ q[l] = s
    BY DEF QueuesType
  <2> HIDE DEF s, r
  <2>2. /\ \A i \in 1..Len(s) : i \in 1..Len(t) /\ t[i] = s[i]
        /\ \A i \in 1..Len(t) : i \in 1..Len(s) \/ t[i] = e
    BY <2>1
  <2> HIDE DEF t
  <2>3. (\E i \in 1..Len(t) : t[i] = x) <=> (\E i \in 1..Len(s) : s[i] = x)
    BY <1>1, <2>2
  <2> QED
    BY <1>3, <2>1, <2>3 DEF Sent, r, x
<1> QED
  BY <1>2, <1>3

(* Taking a functor to run it removes at most that one. *)
LEMMA SentPop ==
  ASSUME NEW q \in QueuesType, NEW l \in Loops, q[l] # <<>>,
         NEW k \in Loops, NEW c \in Conns
  PROVE  LET r == [q EXCEPT ![l] = Tail(@)]
         IN /\ Sent(r, k, c) => Sent(q, k, c)
            /\ k # l \/ Head(q[l]) # Functor("shutdown_in_loop_", c) =>
                 (Sent(q, k, c) => Sent(r, k, c))
<1> DEFINE r == [q EXCEPT ![l] = Tail(@)]
           x == Functor("shutdown_in_loop_", c)
<1> HIDE DEF x
<1>1. r[l] = Tail(q[l]) /\ \A j \in Loops : j # l => r[j] = q[j]
  BY PopLine
<1> HIDE DEF r
<1>2. CASE k # l
  BY <1>1, <1>2 DEF Sent
<1>3. CASE k = l
  <2> DEFINE s == q[l]
             t == Tail(s)
  <2>1. s \in Seq(Functors) /\ r[l] = t /\ q[l] = s /\ s # <<>>
    BY <1>1 DEF QueuesType
  <2> HIDE DEF s
  <2>2. /\ Len(s) \in Nat /\ Len(s) # 0 /\ Len(t) = Len(s) - 1
        /\ \A i \in 1..(Len(s) - 1) : t[i] = s[i + 1]
        /\ Head(s) = s[1]
    BY <2>1, TailAt
  <2> HIDE DEF t
  <2>3. /\ \A i \in 1..Len(t) : i + 1 \in 1..Len(s) /\ t[i] = s[i + 1]
        /\ \A i \in 1..Len(s) : i = 1 \/ (i - 1 \in 1..Len(t) /\ t[i - 1] = s[i])
    <3>1. ASSUME NEW i \in 1..Len(s), i # 1 PROVE i - 1 \in 1..Len(t) /\ t[i - 1] = s[i]
      <4>1. i - 1 \in 1..(Len(s) - 1) /\ (i - 1) + 1 = i
        BY <3>1, <2>2
      <4> QED
        BY <4>1, <2>2
    <3>2. ASSUME NEW i \in 1..Len(t) PROVE i + 1 \in 1..Len(s) /\ t[i] = s[i + 1]
      BY <3>2, <2>2
    <3> QED
      BY <3>1, <3>2
  <2>4. /\ (\E i \in 1..Len(t) : t[i] = x) => (\E i \in 1..Len(s) : s[i] = x)
        /\ s[1] # x => ((\E i \in 1..Len(s) : s[i] = x) => (\E i \in 1..Len(t) : t[i] = x))
    BY <2>3
  <2> QED
    BY <1>3, <2>1, <2>2, <2>4 DEF Sent, x
<1> QED
  BY <1>2, <1>3 DEF r, x

(* Appending adds what is appended. *)
LEMMA SentConcat ==
  ASSUME NEW q \in QueuesType, NEW s \in QueuesType, NEW k \in Loops, NEW c \in Conns
  PROVE  Sent([j \in Loops |-> q[j] \o s[j]], k, c) <=> Sent(q, k, c) \/ Sent(s, k, c)
<1> DEFINE x == Functor("shutdown_in_loop_", c)
           a == q[k]
           b == s[k]
           r == [j \in Loops |-> q[j] \o s[j]]
<1>1. a \in Seq(Functors) /\ b \in Seq(Functors) /\ r[k] = a \o b
  BY DEF QueuesType
<1>2. Sent(q, k, c) <=> \E i \in 1..Len(a) : a[i] = x
  BY DEF Sent
<1>3. Sent(s, k, c) <=> \E i \in 1..Len(b) : b[i] = x
  BY DEF Sent
<1> HIDE DEF a, b, r
<1> DEFINE t == a \o b
<1>4. Sent(r, k, c) <=> \E i \in 1..Len(t) : t[i] = x
  BY <1>1 DEF Sent
<1>5. /\ \A i \in 1..Len(a) : i \in 1..Len(t) /\ t[i] = a[i]
      /\ \A i \in 1..Len(t) : i \in 1..Len(a) \/ (i - Len(a) \in 1..Len(b) /\ t[i] = b[i - Len(a)])
      /\ \A i \in 1..Len(b) : i + Len(a) \in 1..Len(t) /\ t[i + Len(a)] = b[i]
  <2>1. \A i \in 1..Len(a) : i \in 1..Len(t) /\ t[i] = a[i]
    BY <1>1
  <2>2. \A i \in 1..Len(t) : i \in 1..Len(a) \/ (i - Len(a) \in 1..Len(b) /\ t[i] = b[i - Len(a)])
    BY <1>1
  <2>3. \A i \in 1..Len(b) : i + Len(a) \in 1..Len(t) /\ t[i + Len(a)] = b[i]
    BY <1>1
  <2> QED
    BY <2>1, <2>2, <2>3
<1> HIDE DEF t, x
<1>6. (\E i \in 1..Len(t) : t[i] = x) <=> (\E i \in 1..Len(a) : a[i] = x) \/ (\E i \in 1..Len(b) : b[i] = x)
  <2>1. ASSUME NEW i \in 1..Len(t), t[i] = x
        PROVE  (\E j \in 1..Len(a) : a[j] = x) \/ (\E j \in 1..Len(b) : b[j] = x)
    BY <1>5, <2>1
  <2>2. ASSUME NEW i \in 1..Len(a), a[i] = x PROVE \E j \in 1..Len(t) : t[j] = x
    BY <1>5, <2>2
  <2>3. ASSUME NEW i \in 1..Len(b), b[i] = x PROVE \E j \in 1..Len(t) : t[j] = x
    BY <1>5, <2>3
  <2> QED
    BY <2>1, <2>2, <2>3
<1> QED
  BY <1>2, <1>3, <1>4, <1>6 DEF r

(* What waits in a line is in the queue or in the batch of the loop. *)
LEMMA LineWaits ==
  ASSUME TypeOK, NEW l \in Loops, NEW i \in 1..Len(Lines[l])
  PROVE  /\ Lines[l][i] \in Waiting(l)
         /\ Lines[l][i] \in ToSet(pending[l]) \cup ToSet(functors[l])
<1> DEFINE s == functors[l]
           n == ran[l]
           a == SubSeq(s, n + 1, Len(s))
           b == pending[l]
<1>1. s \in Seq(Functors) /\ b \in Seq(Functors) /\ n \in Nat
  BY DEF TypeOK
<1>2. Lines[l] = a \o b /\ Waiting(l) = ToSet(b) \cup ToSet(a)
  BY DEF Lines, Line, Waiting
<1>3. a \in Seq(Functors) /\ \A j \in 1..Len(a) : j + n \in 1..Len(s) /\ a[j] = s[j + n]
  <2> HIDE DEF s, n
  <2> QED
    BY <1>1
<1> HIDE DEF s, n, a, b
<1>4. CASE i \in 1..Len(a)
  <2>1. Lines[l][i] = a[i]
    BY <1>1, <1>2, <1>3, <1>4
  <2>2. a[i] \in ToSet(a) /\ a[i] \in ToSet(s)
    BY <1>1, <1>3, <1>4 DEF ToSet
  <2> QED
    BY <2>1, <2>2, <1>2 DEF s
<1>5. CASE i \notin 1..Len(a)
  <2>1. i - Len(a) \in 1..Len(b) /\ Lines[l][i] = b[i - Len(a)]
    BY <1>1, <1>2, <1>3, <1>5
  <2>2. b[i - Len(a)] \in ToSet(b)
    BY <1>1, <2>1 DEF ToSet
  <2> QED
    BY <2>1, <2>2, <1>2 DEF b
<1> QED
  BY <1>4, <1>5

-------------------------------------------------------------------------------
(* Every step keeps the wheel, the entries and the shutdowns in agreement.   *)

WheelPart == HeldInv /\ WheelInv /\ ShutdownInv /\ ShutInv

(* Before anything is accepted the wheel is empty and nothing is sent. *)
LEMMA InitWheel == Init => WheelPart
<1> SUFFICES ASSUME Init PROVE WheelPart
  OBVIOUS
<1>1. \A l \in Loops : Lines[l] = <<>>
  <2>1. SubSeq(<<>>, 0 + 1, Len(<<>>)) = <<>> /\ <<>> \o <<>> = <<>>
    OBVIOUS
  <2> QED
    BY <2>1 DEF Init, Lines, Line
<1>2. ShutdownInv
  BY <1>1 DEF ShutdownInv, Sent
<1>3. HeldInv
  BY DEF Init, HeldInv
<1>4. WheelInv
  BY DEF Init, WheelInv, NoObject
<1>5. ShutInv
  BY DEF Init, ShutInv, NoObject
<1> QED
  BY <1>2, <1>3, <1>4, <1>5 DEF WheelPart

(* A connection with a channel has been accepted. *)
LEMMA BuiltIsAccepted ==
  ASSUME TypeOK, LifeInv, NEW c \in Conns, conn[c].channel # "none"
  PROVE  c < next_id
<1> DEFINE o == conn[c]
           q == Lines
           m == connection_
           n == next_id
<1>1. Stage(q, c, o, m, n) /\ o.channel # "none" /\ n \in Nat
  BY DEF LifeInv, TypeOK
<1> HIDE DEF o, q, m, n
<1>2. c < n
  BY <1>1 DEF Stage, Unborn, Building, Up, Closing, Leaving, Gone, NoObject
<1> QED
  BY <1>2 DEF n

(* An entry that has died is in no bucket, so its connection is idle. *)
LEMMA DeadIsIdle ==
  ASSUME TypeOK, WheelInv, NEW c \in Conns, EntryDead(c)
  PROVE  idle[c] = Buckets
<1>1. idle[c] \in 0..3
  BY DEF TypeOK, Buckets
<1>2. \A b \in 1..3 : b + idle[c] # 3
  BY DEF WheelInv, EntryDead, Buckets
<1>3. idle[c] # 3 => 3 - idle[c] \in 1..3 /\ (3 - idle[c]) + idle[c] = 3
  BY <1>1
<1> QED
  BY <1>1, <1>2, <1>3 DEF Buckets

(* Where buckets, locks and idle times stay and no channel is built, the wheel
   keeps its invariant and dead entries stay dead. *)
LEMMA WheelFrame ==
  ASSUME WheelInv, UNCHANGED <<wheel, held, idle, next_id>>,
         \A c \in Conns : conn'[c].channel = "none" <=> conn[c].channel = "none"
  PROVE  WheelInv' /\ \A c \in Conns : EntryDead(c) => EntryDead(c)'
<1>1. WheelInv'
  BY DEF WheelInv
<1>2. \A c \in Conns : EntryDead(c) => EntryDead(c)'
  BY DEF EntryDead
<1> QED
  BY <1>1, <1>2

(* No new shutdown, no entry revived: the sent ones are still of dead entries. *)
LEMMA ShutdownFrame ==
  ASSUME ShutdownInv, \A c \in Conns : EntryDead(c) => EntryDead(c)',
         \A l \in Loops : \A c \in Conns : Sent(Lines', l, c) => Sent(Lines, l, c)
  PROVE  ShutdownInv'
  BY DEF ShutdownInv

(* No connection is shut, comes up or grows idle, and no lock or shutdown of an
   idle one is lost. *)
LEMMA ShutFrame ==
  ASSUME ShutInv, TypeOK, stale' = stale,
         \A c \in Conns : EntryDead(c) => EntryDead(c)',
         \A c \in Conns : conn'[c].status = "DISCONNECTING" => conn[c].status = "DISCONNECTING",
         \A c \in Conns : conn'[c].status = "CONNECTED" /\ idle'[c] = Buckets =>
            /\ conn[c].status = "CONNECTED" /\ idle[c] = Buckets /\ conn'[c].loop = conn[c].loop
            /\ held[conn[c].loop] = c => held'[conn[c].loop] = c
            /\ Sent(Lines, conn[c].loop, c) => Sent(Lines', conn[c].loop, c)
  PROVE  ShutInv'
<1>1. CASE stale
  BY <1>1 DEF ShutInv
<1>2. CASE ~stale
  <2>1. ASSUME NEW c \in Conns, conn'[c].status = "DISCONNECTING" PROVE EntryDead(c)'
    BY <1>2, <2>1 DEF ShutInv
  <2>2. ASSUME NEW c \in Conns, conn'[c].status = "CONNECTED", idle'[c] = Buckets
        PROVE  held'[conn'[c].loop] = c \/ Sent(Lines', conn'[c].loop, c)
    <3>1. /\ conn[c].status = "CONNECTED" /\ idle[c] = Buckets /\ conn'[c].loop = conn[c].loop
          /\ held[conn[c].loop] = c => held'[conn[c].loop] = c
          /\ Sent(Lines, conn[c].loop, c) => Sent(Lines', conn[c].loop, c)
      BY <2>2
    <3>2. held[conn[c].loop] = c \/ Sent(Lines, conn[c].loop, c)
      BY <1>2, <3>1 DEF ShutInv
    <3> QED
      BY <3>1, <3>2
  <2> QED
    BY <2>1, <2>2 DEF ShutInv
<1> QED
  BY <1>1, <1>2

(* A connection comes up: new_connection on the base loop, or build_connect.  Its
   entry goes into the newest bucket; it was in none. *)
LEMMA WheelBuilds ==
  ASSUME TypeOK, WheelInv, ShutdownInv, ShutInv,
         NEW c \in Conns, conn[c].channel = "none",
         conn'[c].channel = "on", \A d \in Conns : d # c => conn'[d] = conn[d],
         conn'[c].status = "CONNECTED",
         wheel' = Inserted(wheel, c), idle'[c] = 0,
         \A d \in Conns : d # c => idle'[d] = idle[d],
         held' = held, stale' = stale,
         next_id \in Nat, next_id' \in Nat, next_id <= next_id',
         \A k \in Loops : \A d \in Conns : Sent(Lines', k, d) <=> Sent(Lines, k, d)
  PROVE  WheelInv' /\ ShutdownInv' /\ ShutInv'
<1>1. /\ \A b \in 1..Buckets : \A d \in Conns : d # c => (d \in wheel'[b] <=> d \in wheel[b])
      /\ c \in wheel'[Buckets]
  BY DEF Inserted, TypeOK, Buckets
<1>2. ASSUME NEW d \in Conns
      PROVE  /\ d >= next_id' => idle'[d] = 0
             /\ conn'[d].channel = "none" => \A b \in 1..Buckets : d \notin wheel'[b]
             /\ conn'[d].channel # "none" =>
                  \A b \in 1..Buckets : /\ d \in wheel'[b] => b + idle'[d] <= Buckets
                                        /\ b + idle'[d] = Buckets => d \in wheel'[b]
  <2>1. CASE d = c
    <3>1. \A b \in 1..3 : b + 0 <= 3 /\ (b + 0 = 3 => b = 3)
      OBVIOUS
    <3> QED
      BY <2>1, <3>1, <1>1 DEF Buckets
  <2>2. CASE d # c
    <3>1. d >= next_id' => d >= next_id
      BY DEF Conns
    <3> QED
      BY <2>2, <3>1, <1>1 DEF WheelInv
  <2> QED
    BY <2>1, <2>2
<1>3. WheelInv'
  BY <1>2 DEF WheelInv
<1>4. ~EntryDead(c)
  BY DEF EntryDead
<1>5. ASSUME NEW d \in Conns, EntryDead(d) PROVE EntryDead(d)'
  <2>1. d # c
    BY <1>4, <1>5
  <2> QED
    BY <2>1, <1>1, <1>5 DEF EntryDead
<1>6. ShutdownInv'
  BY <1>5, ShutdownFrame
<1>7. 0 # Buckets /\ "CONNECTED" # "DISCONNECTING"
  BY DEF Buckets
<1>8. \A d \in Conns : conn'[d].status = "DISCONNECTING" => conn[d].status = "DISCONNECTING"
  BY <1>7
<1>9. \A d \in Conns : conn'[d].status = "CONNECTED" /\ idle'[d] = Buckets =>
            /\ conn[d].status = "CONNECTED" /\ idle[d] = Buckets /\ conn'[d].loop = conn[d].loop
            /\ held[conn[d].loop] = d => held'[conn[d].loop] = d
            /\ Sent(Lines, conn[d].loop, d) => Sent(Lines', conn[d].loop, d)
  <2>1. \A d \in Conns : conn[d].loop \in Loops
    BY DEF TypeOK, Objects
  <2> QED
    BY <2>1, <1>7
<1>10. ShutInv'
  BY <1>5, <1>8, <1>9, ShutFrame
<1> QED
  BY <1>3, <1>6, <1>10

(* ontime: entries that die send their shutdowns; the others come a bucket
   closer. *)
LEMMA TickWheel ==
  ASSUME TypeOK, LifeInv, WheelPart, Tick
  PROVE  WheelPart'
<1> USE DEF WheelPart
<1> DEFINE s == [k \in Loops |-> IF k = Base THEN <<>> ELSE Shutdowns(k)]
           C == {c \in Expired : conn[c].loop = Base}
<1>1. /\ conn' = Shut(conn, C)
      /\ wheel' = [b \in 1..Buckets |-> IF b = Buckets THEN {} ELSE wheel[b + 1]]
      /\ idle' = [c \in Conns |-> IF c < next_id /\ idle[c] < Buckets THEN idle[c] + 1 ELSE idle[c]]
      /\ UNCHANGED <<next_id, functors, held, stale>>
  BY DEF Tick, serverVars
<1>2. /\ conn \in [Conns -> Objects] /\ next_id \in Nat /\ Lines \in QueuesType
      /\ \A c \in Conns : c \in Nat /\ idle[c] \in 0..3
      /\ \A c \in Conns : Stage(Lines, c, conn[c], connection_, next_id)
  <2>1. \A c \in Conns : c \in Nat
    BY DEF Conns
  <2>2. Lines \in QueuesType
    BY LinesType
  <2>3. \A c \in Conns : Stage(Lines, c, conn[c], connection_, next_id)
    BY DEF LifeInv
  <2> QED
    BY <2>1, <2>2, <2>3 DEF TypeOK, Buckets
<1>3. ASSUME NEW c \in Conns
      PROVE  /\ conn'[c].loop = conn[c].loop /\ conn'[c].channel = conn[c].channel
             /\ conn'[c].status = IF c \in C /\ conn[c].status = "CONNECTED"
                                    THEN "DISCONNECTING" ELSE conn[c].status
  BY <1>1, <1>2, ShutFields
<1>4. \A c \in Conns : conn[c].channel # "none" => c < next_id
  BY BuiltIsAccepted
<1>5. \A c \in Expired : /\ c \in Conns /\ c \in wheel[1] /\ c \notin wheel[2] /\ c \notin wheel[3]
                         /\ \A l \in Loops : held[l] # c
  BY DEF Expired, Dropped, TypeOK, Buckets
<1>6. \A c : c \notin wheel'[3] /\ (c \in wheel'[1] <=> c \in wheel[2])
             /\ (c \in wheel'[2] <=> c \in wheel[3])
  BY <1>1 DEF Buckets
<1> HIDE DEF C
<1>7. HeldInv'
  <2>1. \A l \in Loops : held[l] # NoConn => held[l] \in Conns
    BY DEF TypeOK
  <2> QED
    BY <2>1, <1>1, <1>3 DEF HeldInv
<1>8. ASSUME NEW c \in Conns
      PROVE  /\ c >= next_id' => idle'[c] = 0
             /\ conn'[c].channel = "none" => \A b \in 1..3 : c \notin wheel'[b]
             /\ conn'[c].channel # "none" =>
                  \A b \in 1..3 : /\ c \in wheel'[b] => b + idle'[c] <= 3
                                  /\ b + idle'[c] = 3 => c \in wheel'[b]
  <2>1. /\ c >= next_id => idle[c] = 0
        /\ conn[c].channel = "none" => \A b \in 1..3 : c \notin wheel[b]
        /\ conn[c].channel # "none" =>
             \A b \in 1..3 : /\ c \in wheel[b] => b + idle[c] <= 3
                             /\ b + idle[c] = 3 => c \in wheel[b]
    BY DEF WheelInv, Buckets
  <2>2. idle'[c] = IF c < next_id /\ idle[c] < 3 THEN idle[c] + 1 ELSE idle[c]
    BY <1>1 DEF Buckets
  <2>3. c >= next_id' => idle'[c] = 0
    BY <1>1, <1>2, <2>1, <2>2
  <2>4. conn'[c].channel = "none" => \A b \in 1..3 : c \notin wheel'[b]
    BY <1>3, <1>6, <2>1
  <2>5. ASSUME conn'[c].channel # "none", NEW b \in 1..3
        PROVE  (c \in wheel'[b] => b + idle'[c] <= 3) /\ (b + idle'[c] = 3 => c \in wheel'[b])
    <3>1. c < next_id /\ conn[c].channel # "none"
      BY <1>3, <1>4, <2>5
    <3>2. /\ c \in wheel[1] => 1 + idle[c] <= 3
          /\ c \in wheel[2] => 2 + idle[c] <= 3
          /\ c \in wheel[3] => 3 + idle[c] <= 3
          /\ 1 + idle[c] = 3 => c \in wheel[1]
          /\ 2 + idle[c] = 3 => c \in wheel[2]
          /\ 3 + idle[c] = 3 => c \in wheel[3]
      BY <2>1, <3>1
    <3>3. idle'[c] = IF idle[c] < 3 THEN idle[c] + 1 ELSE idle[c]
      BY <2>2, <3>1
    <3>4. idle[c] \in 0..3
      BY <1>2
    <3>5. CASE b = 1
      BY <3>2, <3>3, <3>4, <3>5, <1>6
    <3>6. CASE b = 2
      BY <3>2, <3>3, <3>4, <3>6, <1>6
    <3>7. CASE b = 3
      BY <3>2, <3>3, <3>4, <3>7, <1>6
    <3> QED
      BY <3>5, <3>6, <3>7
  <2> QED
    BY <2>3, <2>4, <2>5
<1>9. WheelInv'
  BY <1>8 DEF WheelInv, Buckets
<1>10. ASSUME NEW c \in Conns, EntryDead(c) \/ c \in Expired PROVE EntryDead(c)'
  <2>1. /\ conn[c].channel # "none" /\ c \notin wheel[2] /\ c \notin wheel[3]
        /\ \A l \in Loops : held[l] # c
    <3>1. CASE EntryDead(c)
      BY <3>1 DEF EntryDead, Buckets
    <3>2. CASE c \in Expired
      <4>1. conn[c].channel # "none"
        BY <3>2, <1>5 DEF WheelInv, Buckets
      <4> QED
        BY <3>2, <4>1, <1>5
    <3> QED
      BY <1>10, <3>1, <3>2
  <2>2. \A b \in 1..3 : c \notin wheel'[b]
    BY <2>1, <1>6
  <2> QED
    BY <2>1, <2>2, <1>1, <1>3 DEF EntryDead, Buckets
<1>11. s \in QueuesType
  <2>1. <<>> \in Seq(Functors) /\ \A k \in Loops : Shutdowns(k) \in Seq(Functors)
    BY ShutdownsType
  <2> QED
    BY <2>1 DEF QueuesType
<1>12. Lines' = [k \in Loops |-> Lines[k] \o s[k]]
  BY TickLines
<1>13. ASSUME NEW k \in Loops, NEW c \in Conns, Sent(s, k, c) PROVE c \in Expired
  <2>1. CASE k = Base
    <3>1. s[k] = <<>>
      BY <2>1
    <3> QED
      BY <3>1, <1>13 DEF Sent
  <2>2. CASE k # Base
    <3>1. s[k] = Shutdowns(k)
      BY <2>2
    <3>2. PICK i \in 1..Len(Shutdowns(k)) : Shutdowns(k)[i] = Functor("shutdown_in_loop_", c)
      BY <3>1, <1>13 DEF Sent
    <3>3. PICK d \in Expired : Shutdowns(k)[i] = Functor("shutdown_in_loop_", d)
      BY <3>2, ShutdownsType
    <3>4. c = d
      BY <3>2, <3>3, FunctorFields
    <3> QED
      BY <3>3, <3>4
  <2> QED
    BY <2>1, <2>2
<1>14. ASSUME NEW c \in Expired, conn[c].loop # Base PROVE Sent(s, conn[c].loop, c)
  <2>1. c \in Conns /\ conn[c].loop \in Loops
    BY <1>2, <1>5 DEF Objects
  <2>2. s[conn[c].loop] = Shutdowns(conn[c].loop)
    BY <2>1, <1>14
  <2>3. \E i \in 1..Len(Shutdowns(conn[c].loop)) :
           Shutdowns(conn[c].loop)[i] = Functor("shutdown_in_loop_", c)
    BY <2>1, ShutdownsType
  <2> QED
    BY <2>2, <2>3 DEF Sent
<1> HIDE DEF s
<1>15. \A k \in Loops : \A c \in Conns : Sent(Lines', k, c) <=> Sent(Lines, k, c) \/ Sent(s, k, c)
  BY <1>2, <1>11, <1>12, SentConcat, ZenonT(40)
<1>16. ShutdownInv'
  <2> SUFFICES ASSUME NEW k \in Loops, NEW c \in Conns, Sent(Lines', k, c)
               PROVE  EntryDead(c)'
    BY DEF ShutdownInv
  <2>1. EntryDead(c) \/ c \in Expired
    BY <1>13, <1>15 DEF ShutdownInv
  <2> QED
    BY <2>1, <1>10
<1>17. ShutInv'
  <2>1. CASE stale
    BY <2>1, <1>1 DEF ShutInv
  <2>2. CASE ~stale
    <3>1. ASSUME NEW c \in Conns, conn'[c].status = "DISCONNECTING" PROVE EntryDead(c)'
      <4>1. c \in Expired \/ conn[c].status = "DISCONNECTING"
        BY <1>3, <3>1 DEF C
      <4>2. conn[c].status = "DISCONNECTING" => EntryDead(c)
        BY <2>2 DEF ShutInv
      <4> QED
        BY <4>1, <4>2, <1>10
    <3>2. ASSUME NEW c \in Conns, conn'[c].status = "CONNECTED", idle'[c] = 3
          PROVE  held'[conn'[c].loop] = c \/ Sent(Lines', conn'[c].loop, c)
      <4>1. conn[c].status = "CONNECTED" /\ c \notin C /\ conn'[c].loop = conn[c].loop
        BY <1>3, <3>2
      <4>2. Up(Lines, c, conn[c], connection_, next_id)
        BY <4>1, <1>2, StageChannel
      <4>3. conn[c].channel # "none" /\ c \in connection_ /\ conn[c].loop \in Loops
        BY <4>2, <1>2 DEF Up, Objects
      <4>4. idle'[c] = IF c < next_id /\ idle[c] < 3 THEN idle[c] + 1 ELSE idle[c]
        BY <1>1 DEF Buckets
      <4>5. idle[c] = 3 \/ idle[c] = 2
        BY <4>4, <3>2, <1>2
      <4>6. CASE idle[c] = 3
        <5>1. held[conn[c].loop] = c \/ Sent(Lines, conn[c].loop, c)
          BY <2>2, <4>1, <4>6 DEF ShutInv, Buckets
        <5> QED
          BY <5>1, <4>1, <4>3, <1>1, <1>15
      <4>7. CASE idle[c] = 2
        <5>1. c \in wheel[1] /\ c \notin wheel[2] /\ c \notin wheel[3]
          <6>1. \A b \in 1..3 : /\ c \in wheel[b] => b + 2 <= 3
                                /\ b + 2 = 3 => c \in wheel[b]
            BY <4>3, <4>7 DEF WheelInv, Buckets
          <6> QED
            BY <6>1
        <5>2. CASE \E l \in Loops : held[l] = c
          <6>1. PICK l \in Loops : held[l] = c
            BY <5>2
          <6>2. c # NoConn
            BY DEF Conns, NoConn
          <6>3. conn[c].loop = l
            BY <6>1, <6>2 DEF HeldInv
          <6> QED
            BY <6>1, <6>3, <4>1, <1>1
        <5>3. CASE ~ \E l \in Loops : held[l] = c
          <6>1. c \in Dropped
            <7>1. \A b \in 2..Buckets : b = 2 \/ b = 3
              BY DEF Buckets
            <7> QED
              BY <5>1, <5>3, <7>1 DEF Dropped
          <6>2. c \in Expired
            BY <6>1, <4>3 DEF Expired, Alive
          <6>3. conn[c].loop # Base
            BY <6>2, <4>1 DEF C
          <6>4. Sent(s, conn[c].loop, c)
            BY <6>2, <6>3, <1>14
          <6> QED
            BY <6>4, <4>1, <4>3, <1>15
        <5> QED
          BY <5>2, <5>3
      <4> QED
        BY <4>5, <4>6, <4>7
    <3> QED
      BY <3>1, <3>2 DEF ShutInv, Buckets
  <2> QED
    BY <2>1, <2>2
<1> QED
  BY <1>7, <1>9, <1>16, <1>17

(* The requests: message_cb locks the entry, then puts it into the newest
   bucket. *)
LEMMA MessageWheel ==
  ASSUME TypeOK, WheelPart,
         (\E c \in Conns : MessageLocks(c)) \/ (\E l \in Loops : MessageInserts(l))
  PROVE  WheelPart'
<1> USE DEF WheelPart
<1>1. \A d \in Conns : d # NoConn
  BY DEF Conns, NoConn
<1>2. \A d \in Conns : conn[d].loop \in Loops
  BY DEF TypeOK, Objects
<1>3. ASSUME NEW c \in Conns, MessageLocks(c) PROVE WheelPart'
  <2> DEFINE l == conn[c].loop
  <2>1. /\ conn[c].channel = "on" /\ functors[l] = <<>> /\ held[l] = NoConn
        /\ \E b \in 1..Buckets : c \in wheel[b]
        /\ held' = [held EXCEPT ![l] = c]
        /\ UNCHANGED <<next_id, conn, functors, pending, ran, wheel, idle, stale>>
    BY <1>3 DEF MessageLocks, CanHandle, HandlesEvents, serverVars, queueVars
  <2>2. /\ l \in Loops /\ held'[l] = c /\ \A k \in Loops : k # l => held'[k] = held[k]
        /\ Lines' = Lines
    BY <1>2, <2>1 DEF TypeOK, Lines, Line
  <2>3. HeldInv'
    BY <2>1, <2>2 DEF HeldInv
  <2> HIDE DEF l
  <2>4. WheelInv'
    BY <2>1 DEF WheelInv
  <2>5. ASSUME NEW d \in Conns, EntryDead(d) PROVE EntryDead(d)'
    <3>1. d # c
      BY <2>1, <2>5 DEF EntryDead
    <3>2. \A k \in Loops : held'[k] # d
      BY <2>2, <2>5, <3>1 DEF EntryDead
    <3> QED
      BY <2>1, <2>5, <3>2 DEF EntryDead
  <2>6. ShutdownInv'
    BY <2>2, <2>5, ShutdownFrame
  <2>7. \A d \in Conns : held[conn[d].loop] = d => held'[conn[d].loop] = d
    BY <1>1, <1>2, <2>1, <2>2
  <2>8. ShutInv'
    BY <2>1, <2>2, <2>5, <2>7, ShutFrame
  <2> QED
    BY <2>3, <2>4, <2>6, <2>8
<1>4. ASSUME NEW l \in Loops, MessageInserts(l) PROVE WheelPart'
  <2> DEFINE c == held[l]
  <2>1. /\ c \in Conns /\ c # NoConn
        /\ wheel' = Inserted(wheel, c) /\ idle' = [idle EXCEPT ![c] = 0]
        /\ held' = [held EXCEPT ![l] = NoConn]
        /\ UNCHANGED <<next_id, conn, functors, pending, ran, stale>>
    BY <1>4 DEF MessageInserts, serverVars, queueVars, TypeOK
  <2>2. conn[c].channel = "on" /\ ~EntryDead(c)
    BY <2>1 DEF HeldInv, EntryDead
  <2>3. Lines' = Lines
    BY <2>1 DEF Lines, Line
  <2>4. held'[l] = NoConn /\ \A k \in Loops : k # l => held'[k] = held[k]
    BY <2>1 DEF TypeOK
  <2>5. held[l] = c
    OBVIOUS
  <2> HIDE DEF c
  <2>6. /\ \A b \in 1..Buckets : \A d \in Conns : d # c => (d \in wheel'[b] <=> d \in wheel[b])
        /\ c \in wheel'[Buckets]
        /\ idle'[c] = 0 /\ \A d \in Conns : d # c => idle'[d] = idle[d]
    BY <2>1 DEF Inserted, TypeOK, Buckets
  <2>7. HeldInv'
    BY <2>1, <2>4 DEF HeldInv
  <2>8. ASSUME NEW d \in Conns
        PROVE  /\ d >= next_id' => idle'[d] = 0
               /\ conn'[d].channel = "none" => \A b \in 1..Buckets : d \notin wheel'[b]
               /\ conn'[d].channel # "none" =>
                    \A b \in 1..Buckets : /\ d \in wheel'[b] => b + idle'[d] <= Buckets
                                          /\ b + idle'[d] = Buckets => d \in wheel'[b]
    <3>1. CASE d = c
      <4>1. \A b \in 1..3 : b + 0 <= 3 /\ (b + 0 = 3 => b = 3)
        OBVIOUS
      <4> QED
        BY <3>1, <4>1, <2>1, <2>2, <2>6 DEF Buckets
    <3>2. CASE d # c
      BY <3>2, <2>1, <2>6 DEF WheelInv
    <3> QED
      BY <3>1, <3>2
  <2>9. WheelInv'
    BY <2>8 DEF WheelInv
  <2>10. ASSUME NEW d \in Conns, EntryDead(d) PROVE EntryDead(d)'
    <3>1. d # c
      BY <2>2, <2>10
    <3>2. \A k \in Loops : held'[k] # d
      BY <1>1, <2>4, <2>10 DEF EntryDead
    <3> QED
      BY <2>1, <2>6, <2>10, <3>1, <3>2 DEF EntryDead
  <2>11. ShutdownInv'
    BY <2>3, <2>10, ShutdownFrame
  <2>12. ASSUME NEW d \in Conns, idle'[d] = Buckets
         PROVE  idle[d] = Buckets /\ (held[conn[d].loop] = d => held'[conn[d].loop] = d)
    <3>1. d # c
      BY <2>6, <2>12 DEF Buckets
    <3> QED
      BY <3>1, <1>2, <2>4, <2>5, <2>6, <2>12
  <2>13. ShutInv'
    BY <2>1, <2>3, <2>10, <2>12, ShutFrame
  <2> QED
    BY <2>7, <2>9, <2>11, <2>13
<1> QED
  BY <1>3, <1>4

(* A connection closes or is destroyed: nothing that is up changes. *)
LEMMA DownWheel ==
  ASSUME TypeOK, WheelPart, NEW c \in Conns, conn[c].channel # "none",
         \A l \in Loops : held[l] # c,
         conn'[c].channel # "none", conn'[c].status = "DISCONNECTED",
         \A d \in Conns : d # c => conn'[d] = conn[d],
         UNCHANGED <<wheel, held, idle, next_id, stale, functors>>,
         \A k \in Loops : \A d \in Conns : Sent(Lines', k, d) <=> Sent(Lines, k, d)
  PROVE  WheelPart'
<1> USE DEF WheelPart
<1>1. WheelInv' /\ \A d \in Conns : EntryDead(d) => EntryDead(d)'
  <2>1. \A d \in Conns : conn'[d].channel = "none" <=> conn[d].channel = "none"
    OBVIOUS
  <2> QED
    BY <2>1, WheelFrame
<1>2. ShutdownInv'
  BY <1>1, ShutdownFrame
<1>3. HeldInv'
  <2>1. \A l \in Loops : held[l] # NoConn => held[l] \in Conns
    BY DEF TypeOK
  <2> QED
    BY <2>1 DEF HeldInv
<1>4. \A d \in Conns : conn[d].loop \in Loops
  BY DEF TypeOK, Objects
<1>5. "DISCONNECTED" # "CONNECTED" /\ "DISCONNECTED" # "DISCONNECTING"
  OBVIOUS
<1>6. \A d \in Conns : conn'[d].status = "DISCONNECTING" => conn[d].status = "DISCONNECTING"
  BY <1>5
<1>7. \A d \in Conns : conn'[d].status = "CONNECTED" /\ idle'[d] = Buckets =>
            /\ conn[d].status = "CONNECTED" /\ idle[d] = Buckets /\ conn'[d].loop = conn[d].loop
            /\ held[conn[d].loop] = d => held'[conn[d].loop] = d
            /\ Sent(Lines, conn[d].loop, d) => Sent(Lines', conn[d].loop, d)
  BY <1>4, <1>5
<1>8. ShutInv'
  BY <1>1, <1>6, <1>7, ShutFrame
<1> QED
  BY <1>1, <1>2, <1>3, <1>8

(* A step that leaves the connections and the wheel alone, and takes no
   shutdown away. *)
LEMMA StillWheel ==
  ASSUME TypeOK, WheelPart, UNCHANGED <<conn, wheel, held, idle, next_id, stale>>,
         \A l \in Loops : held[l] # NoConn => functors'[l] = functors[l],
         \A k \in Loops : \A d \in Conns : Sent(Lines', k, d) <=> Sent(Lines, k, d)
  PROVE  WheelPart'
<1> USE DEF WheelPart
<1>1. WheelInv' /\ \A d \in Conns : EntryDead(d) => EntryDead(d)'
  BY WheelFrame
<1>2. ShutdownInv'
  BY <1>1, ShutdownFrame
<1>3. HeldInv'
  BY DEF HeldInv
<1>4. \A d \in Conns : conn[d].loop \in Loops
  BY DEF TypeOK, Objects
<1>5. ShutInv'
  BY <1>1, <1>4, ShutFrame
<1> QED
  BY <1>1, <1>2, <1>3, <1>5

(* Running a functor that holds a connection takes no shutdown away. *)
LEMMA RunKeepsSent ==
  ASSUME TypeOK, NEW l \in Loops, NEW f \in Owning, NEW c \in Conns,
         Runs(l, f, c), pending' = pending
  PROVE  \A k \in Loops : \A d \in Conns : Sent(Lines', k, d) <=> Sent(Lines, k, d)
<1> DEFINE q == Lines
           r == Lines'
<1>1. q \in QueuesType
  BY LinesType
<1>2. q[l] # <<>> /\ Head(q[l]) = Functor(f, c) /\ r = [q EXCEPT ![l] = Tail(@)]
  BY LinePop
<1>3. \A d : Functor(f, c) # Functor("shutdown_in_loop_", d)
  BY FunctorFields DEF Owning
<1> HIDE DEF q, r
<1>4. ASSUME NEW k \in Loops, NEW d \in Conns PROVE Sent(r, k, d) <=> Sent(q, k, d)
  BY <1>1, <1>2, <1>3, SentPop
<1> QED
  BY <1>4 DEF q, r

(* Queueing a functor that holds a connection neither. *)
LEMMA PushKeepsSent ==
  ASSUME TypeOK, NEW l \in Loops, NEW f \in Owning, NEW c \in Conns,
         functors' = functors, ran' = ran, pending' = Queue(pending, l, Functor(f, c))
  PROVE  \A k \in Loops : \A d \in Conns : Sent(Lines', k, d) <=> Sent(Lines, k, d)
<1> DEFINE q == Lines
           r == Lines'
           e == Functor(f, c)
<1>1. e \in Functors /\ e.f \in Owning
  BY FunctorFields
<1>2. q \in QueuesType
  BY LinesType
<1>3. r = [q EXCEPT ![l] = Append(@, e)]
  BY <1>1, LinePush
<1> HIDE DEF q, r, e
<1>4. ASSUME NEW k \in Loops, NEW d \in Conns PROVE Sent(r, k, d) <=> Sent(q, k, d)
  BY <1>1, <1>2, <1>3, SentPush
<1> QED
  BY <1>4 DEF q, r

(* Every step keeps the wheel's part of the invariant. *)
LEMMA NextWheel ==
  TypeOK /\ LoopsInv /\ LifeInv /\ WheelPart /\ [Next]_vars => WheelPart'
<1> SUFFICES ASSUME TypeOK, LoopsInv, LifeInv, WheelPart, [Next]_vars PROVE WheelPart'
  OBVIOUS
<1> USE ConnsAssumption, ThreadsAssumption
<1>0. /\ conn \in [Conns -> Objects] /\ next_id \in Nat /\ Base \in Loops
      /\ \A c \in Conns : conn[c].loop \in Loops
  <2>1. conn \in [Conns -> Objects] /\ next_id \in Nat
    BY DEF TypeOK
  <2>2. Base \in Loops
    BY DEF Base, Loops
  <2> QED
    BY <2>1, <2>2 DEF Objects
<1>a. \A d \in Conns : Stage(Lines, d, conn[d], connection_, next_id)
  BY DEF LifeInv
<1>b. {"build_connect", "remove_connection_in_loop", "destroy_connect"} \subseteq Owning
  BY DEF Owning
<1>c. HeldInv /\ WheelInv /\ ShutdownInv /\ ShutInv
  BY DEF WheelPart
<1>d. ASSUME UNCHANGED <<functors, ran, pending>> PROVE Lines' = Lines
  BY <1>d DEF Lines, Line
(* Who is held is up. *)
<1>e. \A c \in Conns : conn[c].channel # "on" => \A l \in Loops : held[l] # c
  <2>1. \A c \in Conns : c # NoConn
    BY DEF Conns, NoConn
  <2> QED
    BY <2>1, <1>c DEF HeldInv
<1>1. ASSUME UNCHANGED <<conn, pending, functors, ran, wheel, held, idle, next_id, stale>>
      PROVE  WheelPart'
  BY <1>1, <1>d, StillWheel
<1>2. CASE NewConnection
  <2> DEFINE c == next_id
             l == NextLoop
             cs == [conn EXCEPT ![c] = [loop |-> l, status |-> "CONNECTING", channel |-> "none"]]
  <2>1. /\ c \in Conns /\ next_id' = c + 1
        /\ \/ conn' = Built(cs, c) /\ wheel' = Inserted(wheel, c) /\ pending' = pending
           \/ /\ conn' = cs /\ wheel' = wheel
              /\ pending' = Queue(pending, l, Functor("build_connect", c))
        /\ UNCHANGED <<functors, ran, held, idle, stale>>
    BY <1>2 DEF NewConnection
  <2>2. l \in Loops
    <3>1. loops_ \in 0..MaxThreads /\ (next_ = 0 \/ next_ \in 0..(loops_ - 1))
      BY DEF TypeOK
    <3>2. loops_ # 0 => next_ + 1 \in 0..MaxThreads
      BY <3>1
    <3> QED
      BY <3>2, <1>0 DEF NextLoop, Loops
  <2>3. /\ cs \in [Conns -> Objects] /\ \A d \in Conns : d # c => cs[d] = conn[d]
        /\ cs[c].status = "CONNECTING" /\ cs[c].channel = "none"
    BY <2>1, <2>2, <1>0 DEF Objects
  <2>4. conn[c].channel = "none" /\ idle[c] = 0 /\ next_id <= next_id' /\ next_id' \in Nat
    <3>1. c >= next_id
      BY <1>0
    <3>2. ~(c < next_id)
      BY <1>0
    <3>3. conn[c].channel = "none"
      BY <2>1, <3>2, BuiltIsAccepted
    <3> QED
      BY <3>1, <3>3, <2>1, <1>0, <1>c DEF WheelInv
  <2> HIDE DEF c, l, cs
  <2>5. \A k \in Loops : held[k] # c
    BY <2>1, <2>4, <1>e
  <2>6. ASSUME \A d \in Conns : d # c => conn'[d] = conn[d] PROVE HeldInv'
    <3>1. \A k \in Loops : held[k] # NoConn => held[k] \in Conns
      BY DEF TypeOK
    <3> QED
      BY <3>1, <2>1, <2>5, <2>6, <1>c DEF HeldInv
  <2>7. CASE conn' = Built(cs, c) /\ wheel' = Inserted(wheel, c) /\ pending' = pending
    <3>1. Lines' = Lines
      BY <2>1, <2>7, <1>d
    <3>2. /\ conn'[c].status = "CONNECTED" /\ conn'[c].channel = "on"
          /\ \A d \in Conns : d # c => conn'[d] = conn[d]
      BY <2>1, <2>3, <2>7, ObjectFields, ObjectsType
    <3>3. WheelInv' /\ ShutdownInv' /\ ShutInv'
      BY <2>1, <2>4, <2>7, <3>1, <3>2, <1>0, <1>c, WheelBuilds
    <3> QED
      BY <2>6, <3>2, <3>3 DEF WheelPart
  <2>8. CASE /\ conn' = cs /\ wheel' = wheel
             /\ pending' = Queue(pending, l, Functor("build_connect", c))
    <3>1. \A k \in Loops : \A d \in Conns : Sent(Lines', k, d) <=> Sent(Lines, k, d)
      BY <2>1, <2>2, <2>8, <1>b, PushKeepsSent
    <3>2. /\ \A d \in Conns : conn'[d].channel = "none" <=> conn[d].channel = "none"
          /\ \A d \in Conns : d # c => conn'[d] = conn[d]
          /\ conn'[c].status = "CONNECTING"
      BY <2>3, <2>4, <2>8
    <3>3. WheelInv'
      <4>1. \A d \in Conns : d >= next_id' => d >= next_id
        BY <2>4, <1>0 DEF Conns
      <4> QED
        BY <4>1, <3>2, <2>1, <2>8, <1>c DEF WheelInv
    <3>4. \A d \in Conns : EntryDead(d) => EntryDead(d)'
      BY <3>2, <2>1, <2>8 DEF EntryDead
    <3>5. ShutdownInv'
      BY <3>1, <3>4, <1>c, ShutdownFrame
    <3>6. "CONNECTING" # "CONNECTED" /\ "CONNECTING" # "DISCONNECTING"
      OBVIOUS
    <3>7. \A d \in Conns : conn'[d].status = "DISCONNECTING" => conn[d].status = "DISCONNECTING"
      BY <3>2, <3>6
    <3>8. \A d \in Conns : conn'[d].status = "CONNECTED" /\ idle'[d] = Buckets =>
            /\ conn[d].status = "CONNECTED" /\ idle[d] = Buckets /\ conn'[d].loop = conn[d].loop
            /\ held[conn[d].loop] = d => held'[conn[d].loop] = d
            /\ Sent(Lines, conn[d].loop, d) => Sent(Lines', conn[d].loop, d)
      BY <3>1, <3>2, <3>6, <2>1, <1>0
    <3>9. ShutInv'
      BY <3>4, <3>7, <3>8, <2>1, <1>c, ShutFrame
    <3> QED
      BY <2>6, <3>2, <3>3, <3>5, <3>9 DEF WheelPart
  <2> QED
    BY <2>1, <2>7, <2>8
<1>3. CASE Tick
  BY <1>3, TickWheel
<1>4. ASSUME NEW c \in Conns, HandleClose(c) PROVE WheelPart'
  <2> DEFINE cs == Closed(conn, c)
  <2>1. /\ conn[c].channel = "on" /\ held[conn[c].loop] = NoConn
        /\ UNCHANGED <<functors, ran, wheel, held, idle, next_id, stale>>
    BY <1>4 DEF HandleClose, CanHandle, HandlesEvents, serverVars
  <2>2. \A l \in Loops : held[l] # c
    <3>1. c # NoConn
      BY DEF Conns, NoConn
    <3> QED
      BY <3>1, <2>1, <1>c DEF HeldInv
  <2>3. /\ cs \in [Conns -> Objects] /\ cs[c].status = "DISCONNECTED" /\ cs[c].channel = "off"
        /\ \A d \in Conns : d # c => cs[d] = conn[d]
    BY <1>0, ObjectsType, ObjectFields
  <2> HIDE DEF cs
  <2>4. /\ Destroyed(cs, c)[c].status = "DISCONNECTED" /\ Destroyed(cs, c)[c].channel = "removed"
        /\ \A d \in Conns : d # c => Destroyed(cs, c)[d] = conn[d]
    BY <2>3, ObjectsType, ObjectFields
  <2>5. CASE conn' = Destroyed(cs, c) /\ pending' = pending
    <3>1. Lines' = Lines
      BY <2>1, <2>5, <1>d
    <3> QED
      BY <2>1, <2>2, <2>4, <2>5, <3>1, DownWheel
  <2>6. CASE /\ conn' = cs
             /\ pending' = Queue(pending, Base, Functor("remove_connection_in_loop", c))
    <3>1. \A k \in Loops : \A d \in Conns : Sent(Lines', k, d) <=> Sent(Lines, k, d)
      BY <2>1, <2>6, <1>0, <1>b, PushKeepsSent
    <3> QED
      BY <2>1, <2>2, <2>3, <2>6, <3>1, DownWheel
  <2> QED
    BY <1>4, <2>5, <2>6 DEF HandleClose, cs
<1>5. ASSUME NEW l \in Loops, SwapBatch(l) \/ EndBatch(l) PROVE WheelPart'
  <2>1. Lines' = Lines
    BY <1>5, LineSwap
  <2>2. \A k \in Loops : held[k] # NoConn => functors'[k] = functors[k]
    <3>1. held[l] # NoConn => functors[l] = <<>>
      BY <1>c DEF HeldInv
    <3> QED
      BY <1>5, <3>1 DEF SwapBatch, EndBatch, HandlesEvents, TypeOK
  <2>3. UNCHANGED <<conn, wheel, held, idle, next_id, stale>>
    BY <1>5 DEF SwapBatch, EndBatch, serverVars
  <2> QED
    BY <2>1, <2>2, <2>3, StillWheel
<1>6. ASSUME NEW l \in Loops, NEW c \in Conns, RunBuild(l, c) PROVE WheelPart'
  <2>1. /\ Runs(l, "build_connect", c) /\ pending' = pending /\ conn' = Built(conn, c)
        /\ wheel' = Inserted(wheel, c) /\ idle' = [idle EXCEPT ![c] = 0]
        /\ UNCHANGED <<next_id, functors, held, stale>>
    BY <1>6 DEF RunBuild, Runs, serverVars
  <2>2. /\ ~Quiet(Lines, c)
        /\ \A g \in Owning : Sole(Lines, g, c) => g = "build_connect"
    BY <2>1, <1>b, RunPops
  <2>3. conn[c].channel = "none"
    BY <2>2, <1>a, <1>b, StageRun DEF Building
  <2>4. /\ conn'[c].status = "CONNECTED" /\ conn'[c].channel = "on"
        /\ \A d \in Conns : d # c => conn'[d] = conn[d]
    BY <2>1, <1>0, ObjectsType, ObjectFields
  <2>5. \A k \in Loops : \A d \in Conns : Sent(Lines', k, d) <=> Sent(Lines, k, d)
    BY <2>1, <1>b, RunKeepsSent
  <2>6. idle'[c] = 0 /\ \A d \in Conns : d # c => idle'[d] = idle[d]
    BY <2>1 DEF TypeOK
  <2>7. WheelInv' /\ ShutdownInv' /\ ShutInv'
    <3>1. next_id' \in Nat /\ next_id <= next_id'
      BY <2>1, <1>0
    <3> QED
      BY <2>1, <2>3, <2>4, <2>5, <2>6, <3>1, <1>0, <1>c, WheelBuilds
  <2>8. HeldInv'
    <3>1. \A k \in Loops : held[k] # NoConn => held[k] \in Conns /\ held[k] # c
      <4>1. "none" # "on"
        OBVIOUS
      <4> QED
        BY <4>1, <2>3, <1>e DEF TypeOK
    <3> QED
      BY <3>1, <2>1, <2>4, <1>c DEF HeldInv
  <2> QED
    BY <2>7, <2>8 DEF WheelPart
<1>7. ASSUME NEW l \in Loops, NEW c \in Conns, RunRemove(l, c) PROVE WheelPart'
  <2> DEFINE q == Lines
             r == [q EXCEPT ![l] = Tail(@)]
             u == Lines'
             k == conn[c].loop
             e == Functor("destroy_connect", c)
             x == Functor("remove_connection_in_loop", c)
  <2>1. /\ Runs(l, "remove_connection_in_loop", c) /\ pending' = Queue(pending, k, e)
        /\ UNCHANGED <<conn, wheel, held, idle, next_id, stale, functors>>
    BY <1>7 DEF RunRemove, Runs, serverVars
  <2>2. k \in Loops /\ e \in Functors /\ e.f \in Owning
    BY <1>0, <1>b, FunctorFields
  <2>3. q[l] # <<>> /\ Head(q[l]) = x /\ u = [r EXCEPT ![k] = Append(@, e)]
    BY <2>1, <2>2, LinePopPush
  <2>4. q \in QueuesType
    BY LinesType
  <2>5. \A d : x # Functor("shutdown_in_loop_", d)
    BY FunctorFields
  <2> HIDE DEF q, u, k, e, x
  <2>6. r \in QueuesType
    BY <2>3, <2>4, PopLine
  <2>7. \A j \in Loops : \A d \in Conns : Sent(r, j, d) <=> Sent(q, j, d)
    BY <2>3, <2>4, <2>5, SentPop
  <2> HIDE DEF r
  <2>8. \A j \in Loops : \A d \in Conns : Sent(u, j, d) <=> Sent(r, j, d)
    BY <2>2, <2>3, <2>6, SentPush
  <2>9. \A j \in Loops : \A d \in Conns : Sent(Lines', j, d) <=> Sent(Lines, j, d)
    BY <2>7, <2>8 DEF q, u
  <2> QED
    BY <2>1, <2>9, StillWheel
<1>8. ASSUME NEW l \in Loops, NEW c \in Conns, RunDestroy(l, c) PROVE WheelPart'
  <2>1. /\ Runs(l, "destroy_connect", c) /\ pending' = pending /\ conn' = Destroyed(conn, c)
        /\ UNCHANGED <<next_id, functors, held, stale, wheel, idle>>
    BY <1>8 DEF RunDestroy, Runs, serverVars
  <2>2. /\ ~Quiet(Lines, c)
        /\ \A g \in Owning : Sole(Lines, g, c) => g = "destroy_connect"
    BY <2>1, <1>b, RunPops
  <2>3. conn[c].channel = "off" /\ conn[c].status = "DISCONNECTED"
    BY <2>2, <1>a, <1>b, StageRun DEF Leaving
  <2>4. /\ conn'[c].status = "DISCONNECTED" /\ conn'[c].channel = "removed"
        /\ \A d \in Conns : d # c => conn'[d] = conn[d]
    BY <2>1, <2>3, <1>0, ObjectsType, ObjectFields
  <2>5. \A k \in Loops : \A d \in Conns : Sent(Lines', k, d) <=> Sent(Lines, k, d)
    BY <2>1, <1>b, RunKeepsSent
  <2>6. \A k \in Loops : held[k] # c
    BY <2>3, <1>e
  <2> QED
    BY <2>1, <2>3, <2>4, <2>5, <2>6, DownWheel
<1>9. ASSUME NEW l \in Loops, NEW c \in Conns, RunShutdown(l, c) PROVE WheelPart'
  <2> DEFINE q == Lines
             r == Lines'
  <2>1. /\ Runs(l, "shutdown_in_loop_", c) /\ pending' = pending
        /\ UNCHANGED <<next_id, functors, held, wheel, idle>>
    BY <1>9 DEF RunShutdown, Runs, serverVars
  <2>2. q[l] # <<>> /\ Head(q[l]) = Functor("shutdown_in_loop_", c) /\ r = [q EXCEPT ![l] = Tail(@)]
    BY <2>1, LinePop
  <2>3. q \in QueuesType
    BY LinesType
  <2>4. \A d : d # c => Functor("shutdown_in_loop_", c) # Functor("shutdown_in_loop_", d)
    BY FunctorFields
  <2> HIDE DEF q, r
  <2>5. \A k \in Loops : \A d \in Conns : Sent(r, k, d) => Sent(q, k, d)
    BY <2>2, <2>3, SentPop
  <2>6. \A k \in Loops : \A d \in Conns : d # c => (Sent(q, k, d) => Sent(r, k, d))
    BY <2>2, <2>3, <2>4, SentPop
  <2>7. Sent(q, l, c)
    <3> DEFINE s == q[l]
    <3>1. s \in Seq(Functors) /\ s # <<>> /\ Head(s) = Functor("shutdown_in_loop_", c)
      BY <2>2, <2>3 DEF QueuesType
    <3> HIDE DEF s
    <3>2. 1 \in 1..Len(s) /\ s[1] = Functor("shutdown_in_loop_", c)
      BY <3>1, TailAt
    <3> QED
      BY <3>2 DEF Sent, s
  <2>8. EntryDead(c)
    BY <2>7, <1>c DEF ShutdownInv, q
  <2>9. /\ \/ conn' = Shut(conn, {c}) /\ stale' = stale
           \/ stale' = TRUE
        /\ \E C : conn' = Shut(conn, C)
    BY <1>9 DEF RunShutdown
  <2>10. \A d \in Conns : conn'[d].loop = conn[d].loop /\ conn'[d].channel = conn[d].channel
    <3>1. PICK C : conn' = Shut(conn, C)
      BY <2>9
    <3> QED
      BY <3>1, <1>0, ShutFields
  <2>11. WheelInv' /\ \A d \in Conns : EntryDead(d) => EntryDead(d)'
    BY <2>1, <2>10, <1>c, WheelFrame
  <2>12. ShutdownInv'
    BY <2>5, <2>11, <1>c, ShutdownFrame DEF q, r
  <2>13. HeldInv'
    <3>1. \A k \in Loops : held[k] # NoConn => held[k] \in Conns
      BY DEF TypeOK
    <3> QED
      BY <3>1, <2>1, <2>10, <1>c DEF HeldInv
  <2>14. ShutInv'
    <3>1. CASE stale' = TRUE
      BY <3>1 DEF ShutInv
    <3>2. CASE conn' = Shut(conn, {c}) /\ stale' = stale /\ ~stale
      <4>1. \A d \in Conns :
              /\ conn'[d].status = "DISCONNECTING" => d = c \/ conn[d].status = "DISCONNECTING"
              /\ conn'[d].status = "CONNECTED" => d # c /\ conn[d].status = "CONNECTED"
        BY <3>2, <1>0, ShutFields
      <4>2. ASSUME NEW d \in Conns, conn'[d].status = "DISCONNECTING" PROVE EntryDead(d)'
        BY <4>1, <4>2, <3>2, <2>8, <2>11, <1>c DEF ShutInv
      <4>3. ASSUME NEW d \in Conns, conn'[d].status = "CONNECTED" /\ idle'[d] = Buckets
            PROVE  held'[conn'[d].loop] = d \/ Sent(Lines', conn'[d].loop, d)
        <5>1. d # c /\ conn[d].status = "CONNECTED" /\ idle[d] = Buckets
              /\ conn'[d].loop = conn[d].loop /\ conn[d].loop \in Loops
          BY <4>1, <4>3, <2>1, <2>10, <1>0
        <5>2. held[conn[d].loop] = d \/ Sent(q, conn[d].loop, d)
          BY <5>1, <3>2, <1>c DEF ShutInv, q
        <5>3. held'[conn'[d].loop] = d \/ Sent(r, conn'[d].loop, d)
          BY <5>1, <5>2, <2>1, <2>6
        <5> QED
          BY <5>3 DEF r
      <4> QED
        BY <4>2, <4>3 DEF ShutInv
    <3>3. CASE stale' = stale /\ stale
      BY <3>3 DEF ShutInv
    <3> QED
      BY <2>9, <3>1, <3>2, <3>3
  <2> QED
    BY <2>11, <2>12, <2>13, <2>14 DEF WheelPart
<1>10. CASE UNCHANGED vars
  BY <1>10, <1>1 DEF vars
<1>11. CASE (\E n \in 0..MaxThreads : SetThreadNum(n)) \/ Start \/ (\E c \in Conns : PeerCloses(c))
  BY <1>11, <1>1 DEF SetThreadNum, Start, PeerCloses, serverVars, queueVars
<1>12. CASE (\E c \in Conns : MessageLocks(c)) \/ (\E l \in Loops : MessageInserts(l))
  BY <1>12, MessageWheel
<1> QED
  BY <1>2, <1>3, <1>4, <1>5, <1>6, <1>7, <1>8, <1>9, <1>10, <1>11, <1>12 DEF Next, LoopStep

(* The inductive invariant holds. *)
LEMMA ServerInvariant == Spec => []ServerInv
<1>1. Init => ServerInv
  BY InitTypes, InitLife, InitWheel DEF Init, ServerInv, WheelPart
<1>2. ServerInv /\ [Next]_vars => ServerInv'
  <2>1. SUFFICES ASSUME ServerInv, [Next]_vars PROVE ServerInv'
    OBVIOUS
  <2>2. TypeOK /\ LoopsInv /\ ~failed /\ LifeInv /\ WheelPart
    BY <2>1 DEF ServerInv, WheelPart
  <2>3. TypeOK' /\ LoopsInv'
    BY <2>1, <2>2, NextTypes
  <2>4. LifeInv' /\ ~failed'
    BY <2>1, <2>2, NextLife
  <2>5. WheelPart'
    BY <2>1, <2>2, NextWheel
  <2> QED
    BY <2>3, <2>4, <2>5 DEF ServerInv, WheelPart
<1> QED
  BY <1>1, <1>2, PTL DEF Spec

-------------------------------------------------------------------------------

(* Every variable keeps its type: new_connection, remove_connection and the
   wheel of HttpServer only ever name connections that were accepted. *)
THEOREM TypeCorrect == Spec => []TypeOK
<1>1. ServerInv => TypeOK
  BY DEF ServerInv
<1> QED
  BY <1>1, ServerInvariant, PTL

(* Every connection is at one stage of its life, whichever loop it belongs to:
   the map connection_, its status, its channel and the one functor that holds
   it agree (tcpserver.cc:51-91). *)
THEOREM LifeCycle == Spec => []LifeInv
<1>1. ServerInv => LifeInv
  BY DEF ServerInv
<1> QED
  BY <1>1, ServerInvariant, PTL

(* No assertion of the server fails, and a connection that no shared_ptr holds
   any more is DISCONNECTED with its channel out of its loop, for any number of
   connections and of I/O threads (tcpserver.cc:86, tcpconnection.cc:60). *)
THEOREM NothingFreedEarly == Spec => []AssertionsHold
<1>1. ServerInv => AssertionsHold
  <2>1. SUFFICES ASSUME TypeOK, ~failed, LifeInv, NEW c \in Conns, Freed(c)
                 PROVE  conn[c].status = "DISCONNECTED" /\ conn[c].channel = "removed"
    BY DEF ServerInv, AssertionsHold
  <2>2. c < next_id /\ c \notin connection_ /\ next_id \in Nat
    BY <2>1 DEF Freed, Alive, TypeOK
  <2>3. Stage(Lines, c, conn[c], connection_, next_id)
    BY <2>1 DEF LifeInv
  <2>4. /\ conn[c].status = "DISCONNECTED"
        /\ conn[c].channel = "removed" \/ Sole(Lines, "destroy_connect", c)
    BY <2>2, <2>3, StageChannel
  <2>5. ~Sole(Lines, "destroy_connect", c)
    <3>1. SUFFICES ASSUME NEW l \in Loops, NEW i \in 1..Len(Lines[l]),
                          Lines[l][i] = Functor("destroy_connect", c)
                   PROVE  FALSE
      BY Zenon DEF Sole
    <3>2. Functor("destroy_connect", c) \in ToSet(pending[l]) \cup ToSet(functors[l])
      BY <2>1, <3>1, LineWaits
    <3>3. /\ Functor("destroy_connect", c).f = "destroy_connect"
          /\ Functor("destroy_connect", c).c = c
      BY FunctorFields
    <3>4. "destroy_connect" \in Owning
      BY DEF Owning
    <3> QED
      BY <2>1, <3>2, <3>3, <3>4 DEF Freed, Alive
  <2> QED
    BY <2>4, <2>5
<1> QED
  BY <1>1, ServerInvariant, PTL

(* The wheel shuts the idle connections and no other: whichever thread runs
   message_cb while ontime drops a bucket, a connection is shut only when its
   entry was last inserted three ticks ago, and one that is that idle is shut,
   about to be, or answering a request (httpserver.h:46, entry.h:20-27). *)
THEOREM WheelShutsIdle == Spec => []ShutdownIffIdle
<1>1. ServerInv => ShutdownIffIdle
  <2>1. SUFFICES ASSUME ServerInv, ~stale PROVE ShutdownIffIdle
    BY DEF ShutdownIffIdle
  <2>2. TypeOK /\ WheelInv /\ ShutInv /\ \A c \in Conns : conn[c].loop \in Loops
    BY <2>1 DEF ServerInv, TypeOK, Objects
  <2>3. ASSUME NEW c \in Conns, conn[c].status = "DISCONNECTING" PROVE idle[c] = Buckets
    BY <2>1, <2>2, <2>3, DeadIsIdle DEF ShutInv
  <2>4. ASSUME NEW c \in Conns, conn[c].status = "CONNECTED" /\ idle[c] = Buckets,
               held[conn[c].loop] # c
        PROVE  Functor("shutdown_in_loop_", c) \in Waiting(conn[c].loop)
    <3>1. Sent(Lines, conn[c].loop, c)
      BY <2>1, <2>2, <2>4 DEF ShutInv
    <3>2. PICK i \in 1..Len(Lines[conn[c].loop]) :
             Lines[conn[c].loop][i] = Functor("shutdown_in_loop_", c)
      BY <3>1 DEF Sent
    <3> QED
      BY <2>2, <3>2, LineWaits
  <2> QED
    BY <2>3, <2>4 DEF ShutdownIffIdle
<1> QED
  BY <1>1, ServerInvariant, PTL
===============================================================================
