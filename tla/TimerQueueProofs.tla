---------------------------- MODULE TimerQueueProofs ---------------------------
(***************************************************************************)
(* Proofs about FourHeap and TimerQueue: the map follows the vector, the   *)
(* root is the earliest timer and the timerfd covers it, for any           *)
(* intervals, delays and number of steps, with the four timers at most for *)
(* which the code's arithmetic works.                                      *)
(***************************************************************************)
EXTENDS TimerQueue, FiniteSetTheorems, SequenceTheorems, TLAPS

(* Vector and map of a heap describe the same timers. *)
Sound(q) ==
  /\ q = [heap |-> q.heap, index |-> q.index]
  /\ q.heap \in Seq(Nodes)
  /\ DOMAIN q.index \subseteq Timers
  /\ Cardinality(DOMAIN q.index) = Len(q.heap)
  /\ \A i \in 1..Len(q.heap) : /\ q.heap[i].id \in DOMAIN q.index
                               /\ q.index[q.heap[i].id] = i - 1
  /\ \A t \in DOMAIN q.index : /\ q.index[t] \in 0..(Len(q.heap) - 1)
                               /\ q.heap[q.index[t] + 1].id = t

(* The root is an earliest timer. *)
RootMin(q) == \A i \in 1..Len(q.heap) : q.heap[1].when <= q.heap[i].when

(* The inductive invariant.  A repeating timer whose callback is running stays at
   the root, unless the callback cancels or extends it. *)
Running ==
  (pc = "calling" /\ ~selfish) =>
    \A i \in 1..Len(expired) : expired[i].repeat =>
      /\ Len(timer_list_.heap) > 0
      /\ timer_list_.heap[1].id = expired[i].id /\ timer_list_.heap[1].when <= 0

Phases ==
  /\ Len(expired) <= 1
  /\ pc \notin {"calling"} => expired = <<>>

Covered ==
  (pc = "idle" /\ ~selfish) =>
    \A i \in 1..Len(timer_list_.heap) :
       0 <= armed /\ (armed = 0 \/ armed <= timer_list_.heap[i].when)

QueueInv ==
  /\ TypeOK /\ Sound(timer_list_) /\ Phases
  /\ ~selfish => RootMin(timer_list_)
  /\ Running /\ Covered

-------------------------------------------------------------------------------
(* A vector holds no more nodes than there are timers, four at most. *)
LEMMA SoundSize ==
  ASSUME NEW q, Sound(q)
  PROVE  Len(q.heap) \in Nat /\ Len(q.heap) <= Cardinality(Timers) /\ Len(q.heap) <= 4
<1>1. Cardinality(DOMAIN q.index) <= Cardinality(Timers)
  BY TimerAssumption, FS_Subset DEF Sound
<1> QED BY <1>1, TimerAssumption DEF Sound

(* A timer repeats no later than the interval it was added with. *)
LEMMA PeriodBound ==
  ASSUME NEW t \in Timers
  PROVE  Period(t) \in 0..MaxWhen
<1>1. Interval[t] \in Nat /\ Interval[t] <= MaxWhen /\ Second \in Nat \ {0} /\ MaxWhen \in Nat
  BY TimerAssumption
<1>2. ASSUME NEW a \in Nat, NEW b \in Nat \ {0}
      PROVE  (a \div b) * b \in 0..a
  BY SMTT(30)
<1> QED BY <1>1, <1>2 DEF Period

(* What swap_ does to the vector. *)
LEMMA SwapHeap ==
  ASSUME NEW q, Sound(q), NEW l \in 0..(Len(q.heap) - 1), NEW r \in 0..(Len(q.heap) - 1)
  PROVE  /\ swap_(q, l, r).heap \in Seq(Nodes)
         /\ Len(swap_(q, l, r).heap) = Len(q.heap)
         /\ \A i \in 1..Len(q.heap) :
              swap_(q, l, r).heap[i] = q.heap[IF i = l + 1 THEN r + 1
                                              ELSE IF i = r + 1 THEN l + 1 ELSE i]
<1> DEFINE h == [q.heap EXCEPT ![l + 1] = q.heap[r + 1], ![r + 1] = q.heap[l + 1]]
<1>1. swap_(q, l, r).heap = h
  BY DEF swap_, At
<1>2. q.heap \in Seq(Nodes) /\ l + 1 \in 1..Len(q.heap) /\ r + 1 \in 1..Len(q.heap)
  BY DEF Sound
<1>3. h \in Seq(Nodes) /\ Len(h) = Len(q.heap)
  BY <1>2
<1>4. ASSUME NEW i \in 1..Len(q.heap)
      PROVE  h[i] = q.heap[IF i = l + 1 THEN r + 1 ELSE IF i = r + 1 THEN l + 1 ELSE i]
  BY <1>2
<1> HIDE DEF h
<1> QED BY <1>1, <1>3, <1>4

(* What swap_ does to the map: the two nodes are entered with their new positions. *)
LEMMA SwapIndex ==
  ASSUME NEW q, Sound(q), NEW l \in 0..(Len(q.heap) - 1), NEW r \in 0..(Len(q.heap) - 1)
  PROVE  /\ DOMAIN swap_(q, l, r).index = DOMAIN q.index
         /\ \A t \in DOMAIN q.index :
              swap_(q, l, r).index[t] = IF t = q.heap[l + 1].id THEN r
                                        ELSE IF t = q.heap[r + 1].id THEN l ELSE q.index[t]
<1> DEFINE h == [q.heap EXCEPT ![l + 1] = q.heap[r + 1], ![r + 1] = q.heap[l + 1]]
           a == q.heap[l + 1].id
           b == q.heap[r + 1].id
<1>1. q.heap \in Seq(Nodes) /\ l + 1 \in 1..Len(q.heap) /\ r + 1 \in 1..Len(q.heap)
  BY DEF Sound
<1>2. h[r + 1].id = a /\ (l = r => a = b) /\ h[l + 1].id = b
  BY <1>1
<1>3. swap_(q, l, r).index = SetIndex(SetIndex(q.index, h[l + 1].id, l), h[r + 1].id, r)
  BY DEF swap_, At
<1>4. a \in DOMAIN q.index /\ b \in DOMAIN q.index
  BY <1>1 DEF Sound
<1> HIDE DEF h, a, b
<1>5. swap_(q, l, r).index = SetIndex(SetIndex(q.index, b, l), a, r)
  BY <1>2, <1>3
<1>6. DOMAIN SetIndex(q.index, b, l) = DOMAIN q.index
  BY <1>4 DEF SetIndex
<1>7. DOMAIN SetIndex(SetIndex(q.index, b, l), a, r) = DOMAIN q.index
  BY <1>4, <1>6 DEF SetIndex
<1>8. ASSUME NEW t \in DOMAIN q.index
      PROVE  SetIndex(SetIndex(q.index, b, l), a, r)[t] =
               IF t = a THEN r ELSE IF t = b THEN l ELSE q.index[t]
  BY <1>4, <1>6, <1>7 DEF SetIndex
<1> QED BY <1>5, <1>7, <1>8 DEF a, b

(* swap_ keeps vector and map together. *)
LEMMA SwapSound ==
  ASSUME NEW q, Sound(q), NEW l \in 0..(Len(q.heap) - 1), NEW r \in 0..(Len(q.heap) - 1)
  PROVE  Sound(swap_(q, l, r))
<1> DEFINE s == swap_(q, l, r)
<1>1. s = [heap |-> s.heap, index |-> s.index]
  BY DEF swap_
<1>2. /\ s.heap \in Seq(Nodes) /\ Len(s.heap) = Len(q.heap)
      /\ \A i \in 1..Len(q.heap) :
           s.heap[i] = q.heap[IF i = l + 1 THEN r + 1 ELSE IF i = r + 1 THEN l + 1 ELSE i]
  BY SwapHeap
<1>3. /\ DOMAIN s.index = DOMAIN q.index
      /\ \A t \in DOMAIN q.index :
           s.index[t] = IF t = q.heap[l + 1].id THEN r
                        ELSE IF t = q.heap[r + 1].id THEN l ELSE q.index[t]
  BY SwapIndex
<1> HIDE DEF s
<1> DEFINE n == Len(q.heap)
           D == DOMAIN q.index
           a == l + 1
           b == r + 1
           x(i) == q.heap[i].id
           y(i) == s.heap[i].id
           f(t) == q.index[t]
           g(t) == s.index[t]
<1>4. /\ n \in Nat /\ a \in 1..n /\ b \in 1..n /\ l = a - 1 /\ r = b - 1
      /\ \A i \in 1..n : x(i) \in D /\ f(x(i)) = i - 1
      /\ \A t \in D : f(t) \in 0..(n - 1) /\ x(f(t) + 1) = t
  BY SoundSize DEF Sound
<1>5. /\ \A i \in 1..n : y(i) = x(IF i = a THEN b ELSE IF i = b THEN a ELSE i)
      /\ \A t \in D : g(t) = IF t = x(a) THEN r ELSE IF t = x(b) THEN l ELSE f(t)
  BY <1>2, <1>3
<1>6. /\ \A i \in 1..n : y(i) \in D /\ g(y(i)) = i - 1
      /\ \A t \in D : g(t) \in 0..(n - 1) /\ y(g(t) + 1) = t
  <2> HIDE DEF n, D, a, b, x, y, f, g
  <2>1. ASSUME NEW i \in 1..n
        PROVE  y(i) \in D /\ g(y(i)) = i - 1
    <3>1. CASE i = a
      BY <1>4, <1>5, <3>1
    <3>2. CASE i # a /\ i = b
      BY <1>4, <1>5, <3>2
    <3>3. CASE i # a /\ i # b
      <4>1. f(x(i)) = i - 1 /\ f(x(a)) = a - 1 /\ f(x(b)) = b - 1 /\ i \in Int /\ a \in Int /\ b \in Int
        BY <1>4
      <4>a. i - 1 # a - 1 /\ i - 1 # b - 1
        BY <3>3, <4>1
      <4>b. x(i) # x(a) /\ x(i) # x(b)
        BY <4>1, <4>a, Zenon
      <4>2. x(i) # x(a) /\ x(i) # x(b) /\ x(i) \in D
        BY <1>4, <4>b
      <4>3. y(i) = x(i)
        BY <1>5, <3>3
      <4> QED BY <1>5, <4>1, <4>2, <4>3
    <3> QED BY <3>1, <3>2, <3>3
  <2>2. ASSUME NEW t \in D
        PROVE  g(t) \in 0..(n - 1) /\ y(g(t) + 1) = t
    <3>1. CASE t = x(a)
      BY <1>4, <1>5, <3>1
    <3>2. CASE t # x(a) /\ t = x(b)
      BY <1>4, <1>5, <3>2
    <3>3. CASE t # x(a) /\ t # x(b)
      <4>1. g(t) = f(t) /\ f(t) \in 0..(n - 1) /\ x(f(t) + 1) = t
        BY <1>4, <1>5, <3>3
      <4>a. f(t) + 1 # a /\ f(t) + 1 # b
        BY <3>3, <4>1, Zenon
      <4>2. f(t) + 1 # a /\ f(t) + 1 # b /\ f(t) + 1 \in 1..n
        BY <1>4, <4>a, <4>1, SMTT(30)
      <4>3. y(f(t) + 1) = x(f(t) + 1)
        BY <1>5, <4>2
      <4> QED BY <4>1, <4>3
    <3> QED BY <3>1, <3>2, <3>3
  <2> QED BY <2>1, <2>2
<1>7. DOMAIN s.index \subseteq Timers /\ Cardinality(DOMAIN s.index) = Len(s.heap)
  BY <1>2, <1>3 DEF Sound
<1>8. Sound(s)
  BY <1>1, <1>2, <1>3, <1>6, <1>7 DEF Sound
<1> QED BY <1>8 DEF s

-------------------------------------------------------------------------------
(* s is q with its nodes in another order. *)
Rearranged(q, s) ==
  /\ Sound(s) /\ Len(s.heap) = Len(q.heap) /\ DOMAIN s.index = DOMAIN q.index
  /\ \A i \in 1..Len(s.heap) : \E j \in 1..Len(q.heap) : s.heap[i] = q.heap[j]

(* swap_ rearranges. *)
LEMMA SwapRearranges ==
  ASSUME NEW q, Sound(q), NEW l \in 0..(Len(q.heap) - 1), NEW r \in 0..(Len(q.heap) - 1)
  PROVE  Rearranged(q, swap_(q, l, r))
<1> DEFINE s == swap_(q, l, r)
<1>1. /\ Len(s.heap) = Len(q.heap)
      /\ \A i \in 1..Len(q.heap) :
           s.heap[i] = q.heap[IF i = l + 1 THEN r + 1 ELSE IF i = r + 1 THEN l + 1 ELSE i]
  BY SwapHeap
<1>2. Sound(s) /\ DOMAIN s.index = DOMAIN q.index
  BY SwapSound, SwapIndex
<1> HIDE DEF s
<1>3. ASSUME NEW i \in 1..Len(s.heap)
      PROVE  \E j \in 1..Len(q.heap) : s.heap[i] = q.heap[j]
  <2> DEFINE k == IF i = l + 1 THEN r + 1 ELSE IF i = r + 1 THEN l + 1 ELSE i
  <2>1. k \in 1..Len(q.heap)
    BY <1>1, SoundSize
  <2>2. s.heap[i] = q.heap[k]
    BY <1>1
  <2> HIDE DEF k
  <2> QED BY <2>1, <2>2
<1>4. Rearranged(q, s)
  BY <1>1, <1>2, <1>3 DEF Rearranged
<1> QED BY <1>4 DEF s

(* A heap is a rearrangement of itself. *)
LEMMA SameRearranged ==
  ASSUME NEW q, Sound(q)
  PROVE  Rearranged(q, q)
BY DEF Rearranged

(* Below the root shif_down_ finds no children: they are sought beyond the vector. *)
LEMMA SiftDownAway ==
  ASSUME NEW q, Sound(q), NEW pos \in 1..(Len(q.heap) - 1)
  PROVE  shif_down_(q, pos) = q
<1>1. {k \in 8 * pos .. 8 * pos + 3 : k < Len(q.heap)} = {}
  BY SoundSize
<1> QED BY <1>1 DEF shif_down_, Size

(* Among the positions that hold an earlier node than the root is one that holds an
   earliest. *)
LEMMA EarliestOfFour ==
  ASSUME NEW less \in SUBSET {0, 1, 2, 3}, less # {}, NEW w, \A k \in less : w[k] \in Int
  PROVE  \E k \in less : \A j \in less : w[k] < w[j] \/ (w[k] = w[j] /\ k <= j)
<1>1. ASSUME NEW S \in SUBSET less, NEW m \in less, m \notin S,
             NEW b \in S, \A j \in S : w[b] < w[j] \/ (w[b] = w[j] /\ b <= j)
      PROVE  \E c \in S \cup {m} :
               \A j \in S \cup {m} : w[c] < w[j] \/ (w[c] = w[j] /\ c <= j)
  <2>1. b \in Int /\ m \in Int /\ w[b] \in Int /\ w[m] \in Int
    OBVIOUS
  <2>2. CASE w[b] < w[m] \/ (w[b] = w[m] /\ b <= m)
    BY <1>1, <2>1, <2>2
  <2>3. CASE ~(w[b] < w[m] \/ (w[b] = w[m] /\ b <= m))
    <3>1. w[m] < w[b] \/ (w[m] = w[b] /\ m <= b)
      BY <2>1, <2>3
    <3>2. ASSUME NEW j \in S
          PROVE  w[m] < w[j] \/ (w[m] = w[j] /\ m <= j)
      <4>1. w[j] \in Int /\ j \in Int
        OBVIOUS
      <4> QED BY <1>1, <2>1, <3>1, <4>1
    <3> QED BY <2>1, <3>2
  <2> QED BY <2>2, <2>3
<1> DEFINE Has(S) == S \cap less = {} \/ \E k \in S \cap less :
                       \A j \in S \cap less : w[k] < w[j] \/ (w[k] = w[j] /\ k <= j)
<1>2. ASSUME NEW S, Has(S), NEW m, m \notin S
      PROVE  Has(S \cup {m})
  <2>1. CASE m \notin less
    <3>1. (S \cup {m}) \cap less = S \cap less
      BY <2>1
    <3> QED BY <1>2, <3>1
  <2>2. CASE m \in less /\ S \cap less = {}
    <3>1. (S \cup {m}) \cap less = {m} /\ w[m] \in Int /\ m \in Int
      BY <2>2
    <3>2. w[m] = w[m] /\ m <= m
      BY <3>1
    <3>3. \A j \in {m} : w[m] < w[j] \/ (w[m] = w[j] /\ m <= j)
      BY <3>2
    <3> QED BY <3>1, <3>3
  <2>3. CASE m \in less /\ S \cap less # {}
    <3>1. PICK b \in S \cap less :
             \A j \in S \cap less : w[b] < w[j] \/ (w[b] = w[j] /\ b <= j)
      BY <1>2, <2>3
    <3>2. (S \cup {m}) \cap less = (S \cap less) \cup {m}
      BY <2>3
    <3>3. S \cap less \in SUBSET less /\ m \notin S \cap less
      BY <1>2
    <3>4. \E c \in (S \cap less) \cup {m} : \A j \in (S \cap less) \cup {m} :
             w[c] < w[j] \/ (w[c] = w[j] /\ c <= j)
      BY <1>1, <2>3, <3>1, <3>3
    <3> QED BY <3>2, <3>4
  <2> QED BY <2>1, <2>2, <2>3
<1>3. Has({}) 
  OBVIOUS
<1> HIDE DEF Has
<1>4. Has({0})
  <2>1. {} \cup {0} = {0} /\ 0 \notin {}
    OBVIOUS
  <2> QED BY <1>2, <1>3, <2>1
<1>5. Has({0, 1})
  <2>1. {0} \cup {1} = {0, 1} /\ 1 \notin {0}
    OBVIOUS
  <2> QED BY <1>2, <1>4, <2>1
<1>6. Has({0, 1, 2})
  <2>1. {0, 1} \cup {2} = {0, 1, 2} /\ 2 \notin {0, 1}
    OBVIOUS
  <2> QED BY <1>2, <1>5, <2>1
<1>7. Has({0, 1, 2, 3})
  <2>1. {0, 1, 2} \cup {3} = {0, 1, 2, 3} /\ 3 \notin {0, 1, 2}
    OBVIOUS
  <2> QED BY <1>2, <1>6, <2>1
<1>8. {0, 1, 2, 3} \cap less = less
  OBVIOUS
<1> QED BY <1>7, <1>8 DEF Has

(* The expiry of a node is an integer. *)
LEMMA WhenInt ==
  ASSUME NEW q, Sound(q), NEW i \in 1..Len(q.heap)
  PROVE  q.heap[i] \in Nodes /\ q.heap[i].when \in Int /\ q.heap[i].id \in Timers
<1>1. q.heap[i] \in Nodes
  BY DEF Sound
<1> QED BY <1>1, TimerAssumption DEF Nodes

(* shif_down_ at the root brings an earliest node there. *)
LEMMA SiftDownRoot ==
  ASSUME NEW q, Sound(q), Len(q.heap) > 0
  PROVE  Rearranged(q, shif_down_(q, 0)) /\ RootMin(shif_down_(q, 0))
<1> DEFINE n == Len(q.heap)
           w == [k \in 0..(n - 1) |-> q.heap[k + 1].when]
           less == {k \in {m \in 8 * 0 .. 8 * 0 + 3 : m < n} :
                       q.heap[k + 1].when < q.heap[0 + 1].when}
           mini == CHOOSE k \in less : \A j \in less :
                      \/ q.heap[k + 1].when < q.heap[j + 1].when
                      \/ q.heap[k + 1].when = q.heap[j + 1].when /\ k <= j
<1>0. Len(q.heap) \in Nat /\ Len(q.heap) <= 4
  BY SoundSize, Zenon
<1>1. n \in 1..4
  <2>1. Len(q.heap) > 0
    OBVIOUS
  <2> HIDE DEF w, less, mini
  <2>2. n \in Nat /\ n <= 4 /\ n > 0
    BY <1>0, <2>1
  <2> HIDE DEF n
  <2> QED BY <2>2
<1>2. \A k \in 0..(n - 1) : w[k] = q.heap[k + 1].when /\ w[k] \in Int
  BY <1>1, WhenInt
<1>3. shif_down_(q, 0) = IF less = {} THEN q ELSE swap_(q, 0, mini)
  BY DEF shif_down_, Size, At
<1>4. less = {k \in 0..(n - 1) : q.heap[k + 1].when < q.heap[1].when}
  BY <1>1, SMTT(30)
<1>5. CASE less = {}
  <2>1. shif_down_(q, 0) = q
    BY <1>3, <1>5
  <2>2. ASSUME NEW i \in 1..n
        PROVE  q.heap[1].when <= q.heap[i].when
    <3>1. i - 1 \in 0..(n - 1) /\ (i - 1) + 1 = i
      BY <1>1
    <3>2. ~(q.heap[(i - 1) + 1].when < q.heap[1].when)
      BY <1>4, <1>5, <3>1
    <3>3. q.heap[i].when \in Int /\ q.heap[1].when \in Int
      BY <1>1, WhenInt
    <3> QED BY <3>1, <3>2, <3>3
  <2> QED BY <2>1, <2>2, SameRearranged DEF RootMin
<1>6. CASE less # {}
  <2>1. \E k \in less : \A j \in less :
           \/ q.heap[k + 1].when < q.heap[j + 1].when
           \/ q.heap[k + 1].when = q.heap[j + 1].when /\ k <= j
    <3>1. less \in SUBSET {0, 1, 2, 3} /\ less \subseteq 0..(n - 1)
      BY <1>1, <1>4
    <3>2. \A k \in less : w[k] \in Int
      BY <1>2, <3>1
    <3> HIDE DEF w, less
    <3>3. \E k \in less : \A j \in less : w[k] < w[j] \/ (w[k] = w[j] /\ k <= j)
      BY <1>6, <3>1, <3>2, EarliestOfFour
    <3> QED BY <1>2, <3>1, <3>3
  <2>2. /\ mini \in less
        /\ \A j \in less : \/ q.heap[mini + 1].when < q.heap[j + 1].when
                           \/ q.heap[mini + 1].when = q.heap[j + 1].when /\ mini <= j
    BY <2>1, Zenon
  <2> HIDE DEF mini, less
  <2>3. mini \in 0..(n - 1) /\ q.heap[mini + 1].when < q.heap[1].when
    BY <1>4, <2>2
  <2>4. ASSUME NEW i \in 1..n
        PROVE  q.heap[mini + 1].when <= q.heap[i].when
    <3>1. i - 1 \in 0..(n - 1) /\ (i - 1) + 1 = i
      BY <1>1
    <3>2. q.heap[i].when \in Int /\ q.heap[1].when \in Int /\ q.heap[mini + 1].when \in Int
      BY <1>1, <2>3, WhenInt
    <3>3. CASE i - 1 \in less
      <4>1. \/ q.heap[mini + 1].when < q.heap[(i - 1) + 1].when
            \/ q.heap[mini + 1].when = q.heap[(i - 1) + 1].when
        BY <2>2, <3>3
      <4> QED BY <3>1, <3>2, <4>1
    <3>4. CASE i - 1 \notin less
      <4>1. ~(q.heap[(i - 1) + 1].when < q.heap[1].when)
        BY <1>4, <3>1, <3>4
      <4> QED BY <2>3, <3>1, <3>2, <4>1
    <3> QED BY <3>3, <3>4
  <2> DEFINE s == swap_(q, 0, mini)
  <2>5. shif_down_(q, 0) = s
    BY <1>3, <1>6
  <2>6. 0 \in 0..(n - 1)
    BY <1>1
  <2>7. Rearranged(q, s)
    BY <2>3, <2>6, SwapRearranges
  <2>8. s.heap[1] = q.heap[mini + 1]
    <3>1. s.heap[1] = q.heap[IF 1 = 0 + 1 THEN mini + 1 ELSE IF 1 = mini + 1 THEN 0 + 1 ELSE 1]
      BY <1>1, <2>3, <2>6, SwapHeap
    <3> QED BY <3>1
  <2> HIDE DEF s, n
  <2>9. RootMin(s)
    BY <2>4, <2>7, <2>8 DEF RootMin, Rearranged, n
  <2> QED BY <2>5, <2>7, <2>9
<1> QED BY <1>5, <1>6

(* shif_up_ takes a node past the root if it is the earlier of the two: the parent of
   the positions 1 to 3 is the root. *)
LEMMA SiftUp ==
  ASSUME NEW q, Sound(q), NEW pos \in 0..(Len(q.heap) - 1)
  PROVE  /\ Rearranged(q, shif_up_(q, pos))
         /\ (\A i \in 1..Len(q.heap) : i # pos + 1 => q.heap[1].when <= q.heap[i].when)
            => RootMin(shif_up_(q, pos))
         /\ q.heap[1].when <= q.heap[pos + 1].when => shif_up_(q, pos) = q
<1> DEFINE n == Len(q.heap)
<1>0. Len(q.heap) \in Nat /\ Len(q.heap) <= 4
  BY SoundSize, Zenon
<1>1. n \in 1..4 /\ pos \in 0..3
  <2>1. n \in Nat /\ n <= 4 /\ pos \in 0..(n - 1)
    BY <1>0
  <2> HIDE DEF n
  <2> QED BY <2>1
<1>2. q.heap[1].when \in Int /\ q.heap[pos + 1].when \in Int
  BY <1>1, WhenInt
<1>3. CASE pos > 0 /\ q.heap[pos + 1].when < q.heap[1].when
  <2>1. (pos - 1) \div 4 = 0
    BY <1>1, <1>3
  <2>2. shif_up_(q, pos) = swap_(q, pos, 0)
    BY <1>3, <2>1 DEF shif_up_, At
  <2>3. 0 \in 0..(n - 1)
    BY <1>1
  <2> DEFINE s == swap_(q, pos, 0)
  <2>4. Rearranged(q, s)
    BY <2>3, SwapRearranges
  <2>5. s.heap[1] = q.heap[pos + 1]
    <3>1. s.heap[1] = q.heap[IF 1 = pos + 1 THEN 0 + 1 ELSE IF 1 = 0 + 1 THEN pos + 1 ELSE 1]
      BY <1>1, <2>3, SwapHeap
    <3> QED BY <1>3, <1>1, <3>1
  <2> HIDE DEF s
  <2>6. ASSUME \A i \in 1..Len(q.heap) : i # pos + 1 => q.heap[1].when <= q.heap[i].when
        PROVE  RootMin(s)
    <3> SUFFICES ASSUME NEW i \in 1..Len(s.heap) PROVE s.heap[1].when <= s.heap[i].when
      BY DEF RootMin
    <3>1. PICK j \in 1..Len(q.heap) : s.heap[i] = q.heap[j]
      BY <2>4 DEF Rearranged
    <3>2. q.heap[j].when \in Int
      BY WhenInt
    <3>3. q.heap[pos + 1].when <= q.heap[j].when
      BY <1>2, <1>3, <2>6, <3>2
    <3> QED BY <2>5, <3>1, <3>3
  <2> QED BY <1>2, <1>3, <2>2, <2>4, <2>6 DEF s
<1>4. CASE ~(pos > 0 /\ q.heap[pos + 1].when < q.heap[1].when)
  <2>1. pos > 0 => (pos - 1) \div 4 = 0
    BY <1>1
  <2>2. shif_up_(q, pos) = q
    BY <1>4, <2>1 DEF shif_up_, At
  <2>3. q.heap[1].when <= q.heap[pos + 1].when
    BY <1>1, <1>2, <1>4
  <2> QED BY <2>2, <2>3, SameRearranged DEF RootMin
<1> QED BY <1>3, <1>4

(* The repair after a node has taken another one's place. *)
LEMMA SiftEither ==
  ASSUME NEW q, Sound(q), NEW pos \in 0..(Len(q.heap) - 1)
  PROVE  /\ Rearranged(q, shif_down_or_up(q, pos))
         /\ (\A i \in 1..Len(q.heap) : i # pos + 1 => q.heap[1].when <= q.heap[i].when)
            => RootMin(shif_down_or_up(q, pos))
         /\ pos > 0 /\ q.heap[1].when <= q.heap[pos + 1].when => shif_down_or_up(q, pos) = q
<1>1. CASE pos = 0
  <2>1. shif_up_(q, 0) = q
    BY DEF shif_up_
  <2>2. shif_down_or_up(q, pos) = shif_down_(q, 0)
    BY <1>1, <2>1 DEF shif_down_or_up
  <2>3. Len(q.heap) > 0
    BY SoundSize
  <2> QED BY <1>1, <2>2, <2>3, SiftDownRoot
<1>2. CASE pos # 0
  <2>1. pos \in 1..(Len(q.heap) - 1)
    BY <1>2, SoundSize
  <2>2. shif_down_or_up(q, pos) = shif_up_(q, pos)
    BY <2>1, SiftDownAway DEF shif_down_or_up
  <2> QED BY <2>2, SiftUp
<1> QED BY <1>1, <1>2

-------------------------------------------------------------------------------
(* Dropping the last node of the vector with its entry in the map. *)
LEMMA DropLast ==
  ASSUME NEW q, Sound(q), Len(q.heap) > 0,
         NEW r, r = [heap |-> Front(q.heap),
                     index |-> Restrict(q.index, DOMAIN q.index \ {Last(q.heap).id})]
  PROVE  /\ Sound(r) /\ Len(r.heap) = Len(q.heap) - 1
         /\ \A i \in 1..(Len(q.heap) - 1) : r.heap[i] = q.heap[i]
<1> DEFINE n == Len(q.heap)
           D == DOMAIN q.index
           e == q.heap[n].id
           x(i) == q.heap[i].id
           f(t) == q.index[t]
           y(i) == r.heap[i].id
           g(t) == r.index[t]
<1>1. n \in Nat /\ n > 0 /\ q.heap \in Seq(Nodes)
  BY SoundSize DEF Sound
<1>2. r.heap = SubSeq(q.heap, 1, n - 1)
  BY DEF Front
<1>3. r.heap \in Seq(Nodes) /\ Len(r.heap) = n - 1 /\ \A i \in 1..(n - 1) : r.heap[i] = q.heap[i]
  <2>1. \A i \in 1..(n - 1) : q.heap[i] \in Nodes
    BY <1>1
  <2> DEFINE m == n - 1
  <2>2. m \in Int /\ m >= 0
    BY <1>1
  <2> HIDE DEF m
  <2>3. /\ SubSeq(q.heap, 1, m) \in Seq(Nodes)
        /\ Len(SubSeq(q.heap, 1, m)) = IF 1 <= m THEN m - 1 + 1 ELSE 0
        /\ \A i \in 1..(m - 1 + 1) : SubSeq(q.heap, 1, m)[i] = q.heap[1 + i - 1]
    BY <2>1, <2>2, SubSeqProperties DEF m
  <2>4. /\ SubSeq(q.heap, 1, m) \in Seq(Nodes) /\ Len(SubSeq(q.heap, 1, m)) = m
        /\ \A i \in 1..m : SubSeq(q.heap, 1, m)[i] = q.heap[i]
    BY <2>2, <2>3
  <2> QED BY <1>2, <2>4 DEF m
<1>4. r.index = [t \in D \ {e} |-> q.index[t]]
  BY DEF Restrict, Last
<1>5. DOMAIN r.index = D \ {e} /\ \A t \in D \ {e} : g(t) = f(t)
  BY <1>4
<1>6. /\ \A i \in 1..n : x(i) \in D /\ f(x(i)) = i - 1
      /\ \A t \in D : f(t) \in 0..(n - 1) /\ x(f(t) + 1) = t
      /\ e = x(n)
  BY DEF Sound
<1>7. \A i \in 1..(n - 1) : y(i) = x(i)
  BY <1>3
<1>8. Cardinality(DOMAIN r.index) = n - 1 /\ DOMAIN r.index \subseteq Timers
  <2>1. IsFiniteSet(D) /\ Cardinality(D) = n /\ D \subseteq Timers
    BY TimerAssumption, FS_Subset DEF Sound
  <2>2. e \in D
    BY <1>1, <1>6
  <2> HIDE DEF D, e, n
  <2>3. Cardinality(D \ {e}) = Cardinality(D) - 1
    BY <2>1, <2>2, FS_RemoveElement
  <2> QED BY <1>5, <2>1, <2>3
<1>9. /\ \A i \in 1..(n - 1) : y(i) \in D \ {e} /\ g(y(i)) = i - 1
      /\ \A t \in D \ {e} : g(t) \in 0..((n - 1) - 1) /\ y(g(t) + 1) = t
  <2> HIDE DEF n, D, e, x, y, f, g
  <2>1. ASSUME NEW i \in 1..(n - 1)
        PROVE  y(i) \in D \ {e} /\ g(y(i)) = i - 1
    <3>1. i \in 1..n /\ n \in 1..n /\ i - 1 # n - 1 /\ y(i) = x(i)
      BY <1>1, <1>7
    <3>2. f(x(i)) = i - 1 /\ f(x(n)) = n - 1 /\ x(i) \in D
      BY <1>6, <3>1
    <3>3. x(i) # e
      BY <1>6, <3>1, <3>2, Zenon
    <3> QED BY <1>5, <3>1, <3>2, <3>3
  <2>2. ASSUME NEW t \in D \ {e}
        PROVE  g(t) \in 0..((n - 1) - 1) /\ y(g(t) + 1) = t
    <3>1. g(t) = f(t) /\ f(t) \in 0..(n - 1) /\ x(f(t) + 1) = t /\ t # e
      BY <1>5, <1>6
    <3>2. f(t) + 1 # n
      BY <1>6, <3>1, Zenon
    <3>3. f(t) + 1 \in 1..(n - 1) /\ f(t) \in 0..((n - 1) - 1)
      BY <1>1, <3>1, <3>2
    <3> QED BY <1>7, <3>1, <3>3
  <2> QED BY <2>1, <2>2
<1>10. Sound(r)
  <2>1. r = [heap |-> r.heap, index |-> r.index]
    OBVIOUS
  <2> QED BY <1>3, <1>5, <1>8, <1>9, <2>1 DEF Sound
<1> QED BY <1>3, <1>5, <1>10

(* A new node at the end of the vector, entered in the map. *)
LEMMA AppendNode ==
  ASSUME NEW q, Sound(q), NEW node \in Nodes, node.id \notin DOMAIN q.index,
         NEW r, r = [heap |-> Append(q.heap, node),
                     index |-> SetIndex(q.index, node.id, Len(q.heap))]
  PROVE  /\ Sound(r) /\ Len(r.heap) = Len(q.heap) + 1
         /\ DOMAIN r.index = DOMAIN q.index \cup {node.id}
         /\ \A i \in 1..Len(q.heap) : r.heap[i] = q.heap[i]
         /\ r.heap[Len(q.heap) + 1] = node
<1> DEFINE n == Len(q.heap)
           D == DOMAIN q.index
           e == node.id
           x(i) == q.heap[i].id
           f(t) == q.index[t]
           y(i) == r.heap[i].id
           g(t) == r.index[t]
<1>1. n \in Nat /\ q.heap \in Seq(Nodes) /\ e \in Timers /\ e \notin D
  BY SoundSize DEF Sound, Nodes
<1>2. r.heap = Append(q.heap, node)
  OBVIOUS
<1>3. /\ r.heap \in Seq(Nodes) /\ Len(r.heap) = n + 1
      /\ \A i \in 1..n : r.heap[i] = q.heap[i]
      /\ r.heap[n + 1] = node
  BY <1>1, <1>2
<1>4. r.index = SetIndex(q.index, e, n)
  OBVIOUS
<1>5. DOMAIN r.index = D \cup {e} /\ (\A t \in D : g(t) = f(t)) /\ g(e) = n
  BY <1>1, <1>4 DEF SetIndex
<1>6. /\ \A i \in 1..n : x(i) \in D /\ f(x(i)) = i - 1
      /\ \A t \in D : f(t) \in 0..(n - 1) /\ x(f(t) + 1) = t
  BY DEF Sound
<1>7. (\A i \in 1..n : y(i) = x(i)) /\ y(n + 1) = e
  BY <1>3
<1>8. Cardinality(DOMAIN r.index) = n + 1 /\ DOMAIN r.index \subseteq Timers
  <2>1. IsFiniteSet(D) /\ Cardinality(D) = n /\ D \subseteq Timers
    BY TimerAssumption, FS_Subset DEF Sound
  <2> HIDE DEF D, e, n
  <2>2. Cardinality(D \cup {e}) = Cardinality(D) + 1
    BY <1>1, <2>1, FS_AddElement
  <2> QED BY <1>1, <1>5, <2>1, <2>2
<1>9. /\ \A i \in 1..(n + 1) : y(i) \in D \cup {e} /\ g(y(i)) = i - 1
      /\ \A t \in D \cup {e} : g(t) \in 0..((n + 1) - 1) /\ y(g(t) + 1) = t
  <2> HIDE DEF n, D, e, x, y, f, g
  <2>1. ASSUME NEW i \in 1..(n + 1)
        PROVE  y(i) \in D \cup {e} /\ g(y(i)) = i - 1
    <3>1. CASE i = n + 1
      BY <1>1, <1>5, <1>7, <3>1
    <3>2. CASE i # n + 1
      <4>1. i \in 1..n
        BY <1>1, <3>2
      <4> QED BY <1>5, <1>6, <1>7, <4>1
    <3> QED BY <3>1, <3>2
  <2>2. ASSUME NEW t \in D \cup {e}
        PROVE  g(t) \in 0..((n + 1) - 1) /\ y(g(t) + 1) = t
    <3>1. CASE t = e
      BY <1>1, <1>5, <1>7, <3>1
    <3>2. CASE t # e
      <4>1. g(t) = f(t) /\ f(t) \in 0..(n - 1) /\ x(f(t) + 1) = t
        BY <1>5, <1>6, <3>2
      <4>2. f(t) + 1 \in 1..n /\ f(t) \in 0..((n + 1) - 1)
        BY <1>1, <4>1
      <4> QED BY <1>7, <4>1, <4>2
    <3> QED BY <3>1, <3>2
  <2> QED BY <2>1, <2>2
<1>10. Sound(r)
  <2>1. r = [heap |-> r.heap, index |-> r.index]
    OBVIOUS
  <2> QED BY <1>3, <1>5, <1>8, <1>9, <2>1 DEF Sound
<1> QED BY <1>3, <1>5, <1>10

(* Another node of the same timer in its place. *)
LEMMA ReplaceNode ==
  ASSUME NEW q, Sound(q), NEW k \in 1..Len(q.heap),
         NEW node \in Nodes, node.id = q.heap[k].id,
         NEW r, r = [heap |-> [q.heap EXCEPT ![k] = node], index |-> q.index]
  PROVE  /\ Sound(r) /\ Len(r.heap) = Len(q.heap) /\ DOMAIN r.index = DOMAIN q.index
         /\ \A i \in 1..Len(q.heap) : r.heap[i] = IF i = k THEN node ELSE q.heap[i]
<1>1. q.heap \in Seq(Nodes) /\ Len(q.heap) \in Nat
  BY SoundSize DEF Sound
<1>2. r.heap = [q.heap EXCEPT ![k] = node] /\ r.index = q.index
  OBVIOUS
<1>3. /\ r.heap \in Seq(Nodes) /\ Len(r.heap) = Len(q.heap)
      /\ \A i \in 1..Len(q.heap) : r.heap[i] = IF i = k THEN node ELSE q.heap[i]
  BY <1>1, <1>2
<1>4. \A i \in 1..Len(q.heap) : r.heap[i].id = q.heap[i].id
  BY <1>3
<1>5. r = [heap |-> r.heap, index |-> r.index]
  OBVIOUS
<1>6. /\ \A i \in 1..Len(q.heap) : /\ q.heap[i].id \in DOMAIN q.index
                                   /\ q.index[q.heap[i].id] = i - 1
      /\ \A t \in DOMAIN q.index : /\ q.index[t] \in 0..(Len(q.heap) - 1)
                                   /\ q.heap[q.index[t] + 1].id = t
      /\ DOMAIN q.index \subseteq Timers /\ Cardinality(DOMAIN q.index) = Len(q.heap)
  BY DEF Sound
<1>7. ASSUME NEW t \in DOMAIN q.index
      PROVE  r.heap[q.index[t] + 1].id = t
  <2>1. q.index[t] + 1 \in 1..Len(q.heap)
    BY <1>1, <1>6
  <2> QED BY <1>4, <1>6, <2>1
<1>8. Sound(r)
  BY <1>2, <1>3, <1>4, <1>5, <1>6, <1>7 DEF Sound
<1> QED BY <1>2, <1>3, <1>8

-------------------------------------------------------------------------------
(* push of a timer the heap does not hold. *)
LEMMA PushNew ==
  ASSUME NEW q, Sound(q), NEW node \in Nodes, node.id \notin DOMAIN q.index,
         NEW s, s = push(q, node)
  PROVE  /\ Sound(s) /\ Len(s.heap) = Len(q.heap) + 1
         /\ RootMin(q) => RootMin(s)
         /\ \A i \in 1..Len(s.heap) :
              s.heap[i] = node \/ \E j \in 1..Len(q.heap) : s.heap[i] = q.heap[j]
         /\ Len(q.heap) > 0 /\ q.heap[1].when <= node.when => s.heap[1] = q.heap[1]
<1> DEFINE n == Len(q.heap)
           r == [heap |-> Append(q.heap, node), index |-> SetIndex(q.index, node.id, n)]
<1>1. s = shif_up_(r, n)
  BY DEF push, find, Size
<1>2. n \in Nat
  BY SoundSize
<1>3. /\ Sound(r) /\ Len(r.heap) = n + 1
      /\ \A i \in 1..n : r.heap[i] = q.heap[i]
      /\ r.heap[n + 1] = node
  BY AppendNode
<1> HIDE DEF r
<1>4. n \in 0..(Len(r.heap) - 1)
  BY <1>2, <1>3
<1>5. /\ Rearranged(r, s)
      /\ (\A i \in 1..Len(r.heap) : i # n + 1 => r.heap[1].when <= r.heap[i].when) => RootMin(s)
      /\ r.heap[1].when <= r.heap[n + 1].when => s = r
  BY <1>1, <1>3, <1>4, SiftUp
<1>6. ASSUME RootMin(q)
      PROVE  RootMin(s)
  <2>1. ASSUME NEW i \in 1..Len(r.heap), i # n + 1
        PROVE  r.heap[1].when <= r.heap[i].when
    <3>1. i \in 1..n /\ 1 \in 1..n
      BY <1>2, <1>3, <2>1
    <3>2. r.heap[i] = q.heap[i] /\ r.heap[1] = q.heap[1]
      BY <1>3, <3>1
    <3>3. q.heap[1].when <= q.heap[i].when
      BY <1>6, <3>1 DEF RootMin
    <3> QED BY <3>2, <3>3
  <2> QED BY <1>5, <2>1
<1>7. ASSUME NEW i \in 1..Len(s.heap)
      PROVE  s.heap[i] = node \/ \E j \in 1..n : s.heap[i] = q.heap[j]
  <2>1. PICK j \in 1..Len(r.heap) : s.heap[i] = r.heap[j]
    BY <1>5 DEF Rearranged
  <2>2. j = n + 1 \/ j \in 1..n
    BY <1>2, <1>3
  <2> QED BY <1>3, <2>1, <2>2
<1>8. ASSUME n > 0, q.heap[1].when <= node.when
      PROVE  s.heap[1] = q.heap[1]
  <2>1. r.heap[1] = q.heap[1]
    BY <1>2, <1>3, <1>8
  <2>2. s = r
    BY <1>3, <1>5, <1>8, <2>1
  <2> QED BY <2>1, <2>2
<1> QED BY <1>3, <1>5, <1>6, <1>7, <1>8 DEF Rearranged

(* destory_ takes one node out, whichever place it has. *)
LEMMA DestroyKeeps ==
  ASSUME NEW q, Sound(q), NEW pos \in 0..(Len(q.heap) - 1), NEW s, s = destory_(q, pos)
  PROVE  /\ Sound(s)
         /\ RootMin(q) => RootMin(s)
         /\ \A i \in 1..Len(s.heap) : \E j \in 1..Len(q.heap) : s.heap[i] = q.heap[j]
         /\ RootMin(q) /\ pos > 0 => Len(s.heap) > 0 /\ s.heap[1] = q.heap[1]
<1> DEFINE n == Len(q.heap)
           p == IF pos < n - 1 THEN swap_(q, pos, n - 1) ELSE q
           r == [heap |-> Front(p.heap), index |-> Restrict(p.index, DOMAIN p.index \ {Last(p.heap).id})]
<1>1. s = IF pos < Len(r.heap) THEN shif_down_or_up(r, pos) ELSE r
  BY DEF destory_, Size
<1>2. n \in Nat /\ n > 0 /\ n - 1 \in 0..(n - 1) /\ pos \in 0..(n - 1)
  BY SoundSize
<1>3. /\ Rearranged(q, p)
      /\ \A i \in 1..n : p.heap[i] = q.heap[IF i = pos + 1 THEN n ELSE IF i = n THEN pos + 1 ELSE i]
  <2>1. CASE pos < n - 1
    <3>1. p = swap_(q, pos, n - 1)
      BY <2>1
    <3> HIDE DEF p
    <3>2. \A i \in 1..n :
             p.heap[i] = q.heap[IF i = pos + 1 THEN (n - 1) + 1
                                ELSE IF i = (n - 1) + 1 THEN pos + 1 ELSE i]
      BY <1>2, <3>1, SwapHeap
    <3>3. (n - 1) + 1 = n
      BY <1>2
    <3> QED BY <1>2, <3>1, <3>2, <3>3, SwapRearranges
  <2>2. CASE ~(pos < n - 1)
    <3>1. p = q /\ pos + 1 = n
      BY <1>2, <2>2
    <3> HIDE DEF p
    <3> QED BY <3>1, SameRearranged
  <2> QED BY <2>1, <2>2
<1>4. Sound(p) /\ Len(p.heap) = n /\ Len(p.heap) > 0
  BY <1>2, <1>3 DEF Rearranged
<1> HIDE DEF p
<1>5. Sound(r) /\ Len(r.heap) = n - 1 /\ \A i \in 1..(n - 1) : r.heap[i] = p.heap[i]
  <2>1. r = [heap |-> Front(p.heap),
             index |-> Restrict(p.index, DOMAIN p.index \ {Last(p.heap).id})]
    OBVIOUS
  <2> HIDE DEF r, n
  <2>a. Sound(p) /\ Len(p.heap) > 0
    BY <1>4
  <2>b. ASSUME NEW b, b = [heap |-> Front(p.heap),
                           index |-> Restrict(p.index, DOMAIN p.index \ {Last(p.heap).id})]
        PROVE  /\ Sound(b) /\ Len(b.heap) = Len(p.heap) - 1
               /\ \A i \in 1..(Len(p.heap) - 1) : b.heap[i] = p.heap[i]
    <3>1. Sound(b)
      BY <2>a, <2>b, DropLast, Zenon
    <3>2. Len(b.heap) = Len(p.heap) - 1
      BY <2>a, <2>b, DropLast, Zenon
    <3>3. \A i \in 1..(Len(p.heap) - 1) : b.heap[i] = p.heap[i]
      BY <2>a, <2>b, DropLast, Zenon
    <3> QED BY <3>1, <3>2, <3>3
  <2>2. /\ Sound(r) /\ Len(r.heap) = Len(p.heap) - 1
        /\ \A i \in 1..(Len(p.heap) - 1) : r.heap[i] = p.heap[i]
    BY <2>1, <2>b, Zenon
  <2> QED BY <1>4, <2>2
<1> HIDE DEF r, n
<1>6. ASSUME NEW i \in 1..(n - 1)
      PROVE  r.heap[i] = q.heap[IF i = pos + 1 THEN n ELSE i]
  BY <1>2, <1>3, <1>5
<1>7. ASSUME NEW i \in 1..(n - 1)
      PROVE  \E j \in 1..Len(q.heap) : r.heap[i] = q.heap[j]
  <2>1. (IF i = pos + 1 THEN n ELSE i) \in 1..n
    BY <1>2
  <2> QED BY <1>6, <2>1 DEF n
<1>8. ASSUME RootMin(q)
      PROVE  pos > 0 /\ n - 1 > 0 => /\ r.heap[1] = q.heap[1]
                                    /\ \A i \in 1..(n - 1) : r.heap[1].when <= r.heap[i].when
  <2> SUFFICES ASSUME pos > 0, n - 1 > 0
               PROVE  /\ r.heap[1] = q.heap[1]
                      /\ \A i \in 1..(n - 1) : r.heap[1].when <= r.heap[i].when
    OBVIOUS
  <2>1. r.heap[1] = q.heap[1]
    BY <1>2, <1>6
  <2>2. ASSUME NEW i \in 1..(n - 1)
        PROVE  q.heap[1].when <= r.heap[i].when
    <3>1. PICK j \in 1..Len(q.heap) : r.heap[i] = q.heap[j]
      BY <1>7
    <3> QED BY <1>8, <3>1 DEF RootMin
  <2> QED BY <2>1, <2>2
<1>9. CASE pos < Len(r.heap)
  <2>1. s = shif_down_or_up(r, pos) /\ pos \in 0..(Len(r.heap) - 1) /\ n - 1 > 0
    BY <1>1, <1>2, <1>5, <1>9
  <2>2. /\ Rearranged(r, s)
        /\ (\A i \in 1..Len(r.heap) : i # pos + 1 => r.heap[1].when <= r.heap[i].when) => RootMin(s)
        /\ pos > 0 /\ r.heap[1].when <= r.heap[pos + 1].when => s = r
    BY <1>5, <2>1, SiftEither
  <2>3. Sound(s) /\ Len(s.heap) = n - 1
    BY <1>5, <2>2 DEF Rearranged
  <2>4. ASSUME NEW i \in 1..Len(s.heap)
        PROVE  \E j \in 1..Len(q.heap) : s.heap[i] = q.heap[j]
    <3>1. PICK k \in 1..Len(r.heap) : s.heap[i] = r.heap[k]
      BY <2>2 DEF Rearranged
    <3> QED BY <1>5, <1>7, <3>1
  <2>5. ASSUME RootMin(q), pos > 0
        PROVE  s.heap[1] = q.heap[1] /\ RootMin(s)
    <3>1. r.heap[1].when <= r.heap[pos + 1].when
      BY <1>2, <1>5, <1>8, <1>9, <2>1, <2>5
    <3>2. s = r
      BY <2>2, <2>5, <3>1
    <3> QED BY <1>5, <1>8, <2>1, <2>5, <3>2 DEF RootMin
  <2>6. ASSUME RootMin(q), pos = 0
        PROVE  RootMin(s)
    <3>1. r = r /\ Len(r.heap) > 0
      BY <1>2, <1>5, <2>1
    <3>2. shif_up_(r, 0) = r
      BY DEF shif_up_
    <3>3. s = shif_down_(r, 0)
      BY <2>1, <2>6, <3>2 DEF shif_down_or_up
    <3> QED BY <1>5, <3>1, <3>3, SiftDownRoot
  <2>7. pos > 0 \/ pos = 0
    BY <1>2
  <2> QED BY <1>2, <2>1, <2>3, <2>4, <2>5, <2>6, <2>7
<1>10. CASE ~(pos < Len(r.heap))
  <2>1. s = r /\ pos = n - 1
    BY <1>1, <1>2, <1>5, <1>10
  <2>2. CASE n - 1 > 0
    BY <1>2, <1>5, <1>7, <1>8, <2>1, <2>2 DEF RootMin
  <2>3. CASE ~(n - 1 > 0)
    <3>1. n - 1 = 0 /\ pos = 0 /\ Len(s.heap) = 0
      BY <1>2, <1>5, <2>1, <2>3
    <3>2. 1..Len(s.heap) = {}
      BY <3>1
    <3> QED BY <1>5, <2>1, <3>1, <3>2 DEF RootMin
  <2> QED BY <2>2, <2>3
<1> QED BY <1>9, <1>10

(* remove, of a timer that is in the heap or not. *)
LEMMA RemoveKeeps ==
  ASSUME NEW q, Sound(q), NEW id, NEW s, s = remove(q, id)
  PROVE  /\ Sound(s)
         /\ RootMin(q) => RootMin(s)
         /\ \A i \in 1..Len(s.heap) : \E j \in 1..Len(q.heap) : s.heap[i] = q.heap[j]
         /\ RootMin(q) /\ Len(q.heap) > 0 /\ q.heap[1].id # id
            => Len(s.heap) > 0 /\ s.heap[1] = q.heap[1]
<1>1. CASE id \notin DOMAIN q.index
  <2>1. s = q
    BY <1>1 DEF remove, find
  <2> QED BY <2>1
<1>2. CASE id \in DOMAIN q.index
  <2> DEFINE pos == q.index[id]
  <2>1. s = destory_(q, pos)
    BY <1>2 DEF remove, find
  <2>2. pos \in 0..(Len(q.heap) - 1) /\ q.heap[pos + 1].id = id
    BY <1>2 DEF Sound
  <2> HIDE DEF pos
  <2>3. q.heap[1].id # id => pos > 0
    BY <2>2
  <2> QED BY <2>1, <2>2, <2>3, DestroyKeeps, SMTT(30)
<1> QED BY <1>1, <1>2

(* reset of a timer in the heap.  It only sifts down, so the order is restored when
   the timer was the root. *)
LEMMA ResetKeeps ==
  ASSUME NEW q, Sound(q), NEW id \in DOMAIN q.index, NEW w \in 0..MaxWhen,
         NEW s, s = reset(q, id, w)
  PROVE  Sound(s) /\ (q.index[id] = 0 => RootMin(s))
<1> DEFINE pos == q.index[id]
           node == [q.heap[pos + 1] EXCEPT !.when = w]
           r == [heap |-> [q.heap EXCEPT ![pos + 1] = node], index |-> q.index]
<1>1. pos \in 0..(Len(q.heap) - 1) /\ pos + 1 \in 1..Len(q.heap) /\ Len(q.heap) > 0
  BY SoundSize DEF Sound
<1>2. q = [heap |-> q.heap, index |-> q.index]
  BY DEF Sound
<1>3. [q EXCEPT !.heap[pos + 1].when = w] = r
  BY <1>2
<1>4. s = shif_down_(r, pos)
  BY <1>3 DEF reset
<1>5. node \in Nodes /\ node.id = q.heap[pos + 1].id
  <2>1. q.heap[pos + 1] \in Nodes
    BY <1>1, WhenInt
  <2>2. w \in -MaxLate..MaxWhen
    BY TimerAssumption
  <2> QED BY <2>1, <2>2 DEF Nodes
<1> HIDE DEF pos, node
<1>6. Sound(r) /\ Len(r.heap) = Len(q.heap)
  BY <1>1, <1>5, ReplaceNode
<1> HIDE DEF r
<1>7. CASE pos = 0
  BY <1>1, <1>4, <1>6, <1>7, SiftDownRoot DEF Rearranged
<1>8. CASE pos # 0
  <2>1. pos \in 1..(Len(r.heap) - 1)
    BY <1>1, <1>6, <1>8
  <2>2. s = r
    BY <1>4, <1>6, <2>1, SiftDownAway
  <2> QED BY <1>6, <1>8, <2>2 DEF pos
<1> QED BY <1>7, <1>8

(* extend of a timer in the heap: it never becomes earlier, so sifting it down is enough. *)
LEMMA ExtendKeeps ==
  ASSUME NEW q, Sound(q), NEW id \in DOMAIN q.index, NEW by \in Nat,
         q.heap[q.index[id] + 1].when + by <= MaxWhen, NEW repeat \in BOOLEAN,
         NEW s, s = extend(q, by, id, repeat)
  PROVE  /\ Sound(s) /\ Len(s.heap) = Len(q.heap)
         /\ RootMin(q) => RootMin(s)
         /\ \A i \in 1..Len(s.heap) :
              \E j \in 1..Len(q.heap) : q.heap[j].when <= s.heap[i].when
         /\ q.index[id] # 0 => s.heap[1] = q.heap[1]
<1> DEFINE pos == q.index[id]
           old == q.heap[pos + 1]
           node == [old EXCEPT !.when = old.when + by, !.repeat = repeat]
           r == [heap |-> [q.heap EXCEPT ![pos + 1] = node], index |-> q.index]
<1>1. pos \in 0..(Len(q.heap) - 1) /\ pos + 1 \in 1..Len(q.heap) /\ Len(q.heap) > 0
  BY SoundSize DEF Sound
<1>2. q = [heap |-> q.heap, index |-> q.index] /\ q.heap \in Seq(Nodes)
  BY DEF Sound
<1>3. [q EXCEPT !.heap[pos + 1].when = @ + by, !.heap[pos + 1].repeat = repeat] = r
  <2> DEFINE late == [old EXCEPT !.when = old.when + by]
             a == [heap |-> [q.heap EXCEPT ![pos + 1] = late], index |-> q.index]
  <2>a. ASSUME NEW w
        PROVE  [q EXCEPT !.heap[pos + 1].when = w]
               = [heap |-> [q.heap EXCEPT ![pos + 1] = [q.heap[pos + 1] EXCEPT !.when = w]],
                  index |-> q.index]
    <3>1. q = [heap |-> q.heap, index |-> q.index]
      BY <1>2
    <3> HIDE DEF pos
    <3> QED BY <3>1
  <2>1. [q EXCEPT !.heap[pos + 1].when = @ + by] = a
    <3>1. [q EXCEPT !.heap[pos + 1].when = @ + by] = [q EXCEPT !.heap[pos + 1].when = old.when + by]
      OBVIOUS
    <3> QED BY <2>a, <3>1
  <2>2. [q EXCEPT !.heap[pos + 1].when = @ + by, !.heap[pos + 1].repeat = repeat]
          = [a EXCEPT !.heap[pos + 1].repeat = repeat]
    BY <2>1
  <2>3. a.heap[pos + 1] = late /\ node = [late EXCEPT !.repeat = repeat]
    BY <1>1, <1>2
  <2>4. [a EXCEPT !.heap[pos + 1].repeat = repeat]
          = [heap |-> [a.heap EXCEPT ![pos + 1] = [a.heap[pos + 1] EXCEPT !.repeat = repeat]],
             index |-> q.index]
    OBVIOUS
  <2>5. [a.heap EXCEPT ![pos + 1] = node] = [q.heap EXCEPT ![pos + 1] = node]
    BY <1>1, <1>2
  <2> QED BY <2>a, <2>2, <2>3, <2>4, <2>5
<1>4. s = shif_down_(r, pos)
  BY <1>3 DEF extend
<1>5. old \in Nodes
  BY <1>1, WhenInt
<1>6. node \in Nodes /\ node.id = q.heap[pos + 1].id /\ old.when <= node.when
  <2>1. old.when \in -MaxLate..MaxWhen
    BY <1>5 DEF Nodes
  <2>2. old.when + by \in -MaxLate..MaxWhen /\ old.when <= old.when + by
    BY <2>1, TimerAssumption
  <2>3. node \in Nodes
    <3> DEFINE later == old.when + by
    <3>1. later \in -MaxLate..MaxWhen
      BY <2>2
    <3> HIDE DEF old, later
    <3>2. [old EXCEPT !.when = later, !.repeat = repeat] \in Nodes
      BY <1>5, <3>1 DEF Nodes
    <3> QED BY <3>2 DEF later
  <2>4. node.id = old.id /\ node.when = old.when + by
    <3> DEFINE later == old.when + by
    <3> HIDE DEF old, later
    <3>1. /\ [old EXCEPT !.when = later, !.repeat = repeat].id = old.id
          /\ [old EXCEPT !.when = later, !.repeat = repeat].when = later
      BY <1>5 DEF Nodes
    <3> QED BY <3>1 DEF later
  <2> QED BY <2>2, <2>3, <2>4
<1> HIDE DEF pos, node, old
<1>7. /\ Sound(r) /\ Len(r.heap) = Len(q.heap)
      /\ \A i \in 1..Len(q.heap) : r.heap[i] = IF i = pos + 1 THEN node ELSE q.heap[i]
  BY <1>1, <1>6, ReplaceNode
<1> HIDE DEF r
<1>8. ASSUME NEW i \in 1..Len(q.heap)
      PROVE  q.heap[i].when <= r.heap[i].when
  <2>1. q.heap[i].when \in Int
    BY WhenInt
  <2> QED BY <1>6, <1>7, <2>1 DEF old
<1>9. CASE pos = 0
  <2>1. Rearranged(r, s) /\ RootMin(s)
    BY <1>1, <1>4, <1>7, <1>9, SiftDownRoot
  <2>2. ASSUME NEW i \in 1..Len(s.heap)
        PROVE  \E j \in 1..Len(q.heap) : q.heap[j].when <= s.heap[i].when
    <3>1. PICK k \in 1..Len(r.heap) : s.heap[i] = r.heap[k]
      BY <2>1 DEF Rearranged
    <3> QED BY <1>7, <1>8, <3>1
  <2> QED BY <1>7, <1>9, <2>1, <2>2 DEF Rearranged, pos
<1>10. CASE pos # 0
  <2>1. pos \in 1..(Len(r.heap) - 1) /\ 1 \in 1..Len(q.heap) /\ 1 # pos + 1
    BY <1>1, <1>7, <1>10
  <2>2. s = r
    BY <1>4, <1>7, <2>1, SiftDownAway
  <2>3. s.heap[1] = q.heap[1]
    BY <1>7, <2>1, <2>2
  <2>4. ASSUME RootMin(q)
        PROVE  RootMin(s)
    <3> SUFFICES ASSUME NEW i \in 1..Len(s.heap) PROVE s.heap[1].when <= s.heap[i].when
      BY DEF RootMin
    <3>1. i \in 1..Len(q.heap) /\ q.heap[1].when <= q.heap[i].when /\ q.heap[i].when <= s.heap[i].when
      BY <1>7, <1>8, <2>2, <2>4 DEF RootMin
    <3>2. q.heap[1].when \in Int /\ q.heap[i].when \in Int /\ s.heap[i].when \in Int
      BY <1>7, <2>1, <2>2, <3>1, WhenInt
    <3> QED BY <2>3, <3>1, <3>2
  <2> QED BY <1>7, <1>8, <2>2, <2>3, <2>4
<1> QED BY <1>9, <1>10

(* Two heaps of the same size. *)
SameSize(s, q) == Len(s.heap) = Len(q.heap)

(* extend changes no size: the timer is moved, not added. *)
LEMMA ExtendSize ==
  ASSUME NEW q, Sound(q), NEW id \in DOMAIN q.index, NEW by \in Nat,
         q.heap[q.index[id] + 1].when + by <= MaxWhen, NEW repeat \in BOOLEAN,
         NEW s, s = extend(q, by, id, repeat)
  PROVE  SameSize(s, q)
  BY ExtendKeeps DEF SameSize

(* What reset_ makes of the heap: get_k returns one timer or none. *)
LEMMA FoldReset ==
  ASSUME Len(expired) <= 1, expired \in Seq(Nodes)
  PROVE  FoldLeft(Reset, timer_list_, expired) =
           IF expired = <<>> THEN timer_list_ ELSE Reset(timer_list_, expired[1])
<1> DEFINE D == DOMAIN expired
           Body(f) == [x \in SUBSET D |->
                         IF x = {} THEN timer_list_ ELSE Reset(f[x \ {Max(x)}], expired[Max(x)])]
           iter == CHOOSE f : f = Body(f)
<1>1. FoldLeft(Reset, timer_list_, expired) = iter[D]
  BY DEF FoldLeft, MapThenFoldSet
<1>2. CASE expired = <<>>
  <2>1. D = {}
    BY <1>2
  <2> DEFINE z == [x \in SUBSET D |-> timer_list_]
  <2>2. z = Body(z)
    BY <2>1
  <2>3. iter = Body(iter)
    <3> HIDE DEF z, Body
    <3> QED BY <2>2, Zenon
  <2> HIDE DEF iter
  <2>4. iter[D] = timer_list_
    BY <2>1, <2>3
  <2> QED BY <1>1, <1>2, <2>4
<1>3. CASE expired # <<>>
  <2>1. D = {1}
    <3>1. DOMAIN expired = 1..Len(expired) /\ Len(expired) \in Nat /\ Len(expired) # 0
      BY <1>3
    <3>2. Len(expired) = 1
      BY <3>1
    <3> QED BY <3>1, <3>2
  <2>2. Max({1}) = 1
    BY DEF Max
  <2>3. \A x \in SUBSET D : x # {} => x = D
    BY <2>1
  <2> DEFINE z == [x \in SUBSET D |->
                     IF x = {} THEN timer_list_ ELSE Reset(timer_list_, expired[1])]
  <2> HIDE DEF D
  <2>4. z = Body(z)
    <3>1. {1} \ {1} = {} /\ {} \in SUBSET D
      OBVIOUS
    <3>2. z[{}] = timer_list_
      BY <3>1
    <3>3. ASSUME NEW x \in SUBSET D
          PROVE  (IF x = {} THEN timer_list_ ELSE Reset(timer_list_, expired[1]))
                 = IF x = {} THEN timer_list_ ELSE Reset(z[x \ {Max(x)}], expired[Max(x)])
      <4> HIDE DEF z
      <4>1. CASE x = {}
        BY <4>1
      <4>2. CASE x # {}
        <5>1. Max(x) = 1 /\ x \ {Max(x)} = {}
          BY <2>1, <2>2, <2>3, <3>1, <4>2
        <5> QED BY <3>2, <4>2, <5>1
      <4> QED BY <4>1, <4>2
    <3> QED BY <3>3, Zenon
  <2>5. iter = Body(iter)
    <3> HIDE DEF z, Body
    <3> QED BY <2>4, Zenon
  <2> HIDE DEF iter
  <2>6. {1} \ {1} = {} /\ {} \in SUBSET D /\ D \in SUBSET D /\ D # {}
    BY <2>1
  <2>7. iter[{}] = timer_list_
    BY <2>5, <2>6
  <2>8. iter[D] = Reset(iter[D \ {Max(D)}], expired[Max(D)])
    BY <2>5, <2>6
  <2>9. iter[D] = Reset(timer_list_, expired[1])
    BY <2>1, <2>2, <2>6, <2>7, <2>8
  <2> QED BY <1>1, <1>3, <2>9
<1> QED BY <1>2, <1>3

-------------------------------------------------------------------------------
(* The part of the invariant that is about the heap alone. *)
HeapOK == Sound(timer_list_) /\ (~selfish => RootMin(timer_list_))

(* The rest of the type invariant. *)
RestOK ==
  /\ armed \in {Off} \cup 0..MaxWhen
  /\ expired \in Seq(Nodes) /\ called \in 0..Len(expired)
  /\ cancel_set_ \subseteq Timers
  /\ pc \in {"idle", "calling", "hung", "corrupt"} /\ selfish \in BOOLEAN

(* The invariant in parts that the actions disturb one by one. *)
LEMMA InvParts == QueueInv <=> HeapOK /\ RestOK /\ Phases /\ Running /\ Covered
<1>1. ASSUME Sound(timer_list_)
      PROVE  TypeOK <=> RestOK
  <2>1. /\ timer_list_.heap \in Seq(Nodes) /\ Len(timer_list_.heap) <= Cardinality(Timers)
        /\ DOMAIN timer_list_.index \subseteq Timers
    BY <1>1, SoundSize DEF Sound
  <2> QED BY <2>1 DEF TypeOK, RestOK, Size
<1> QED BY <1>1 DEF QueueInv, HeapOK

(* The same parts in the next state. *)
LEMMA InvPartsPrimed == QueueInv' <=> HeapOK' /\ RestOK' /\ Phases' /\ Running' /\ Covered'
BY InvParts, PTL

(* What the timerfd is armed for. *)
LEMMA ArmedForNode ==
  ASSUME NEW node \in Nodes
  PROVE  /\ ArmedFor(node) \in 0..MaxWhen
         /\ ArmedFor(node) = 0 \/ ArmedFor(node) <= node.when
         /\ node.when \in Int
BY TimerAssumption DEF ArmedFor, Nodes

(* The queue starts empty. *)
LEMMA InitQueueInv == Init => QueueInv
<1> SUFFICES ASSUME Init PROVE HeapOK /\ RestOK /\ Phases /\ Running /\ Covered
  BY InvParts
<1> USE DEF Init
<1>1. HeapOK
  <2>1. EmptyHeap.heap = <<>> /\ EmptyHeap.index = <<>> /\ DOMAIN EmptyHeap.index = {}
    BY DEF EmptyHeap
  <2>2. Cardinality(DOMAIN EmptyHeap.index) = 0 /\ Len(EmptyHeap.heap) = 0
    BY <2>1, FS_EmptySet
  <2>3. EmptyHeap = [heap |-> EmptyHeap.heap, index |-> EmptyHeap.index]
    BY DEF EmptyHeap
  <2>4. EmptyHeap.heap \in Seq(Nodes) /\ 1..Len(EmptyHeap.heap) = {}
    BY <2>1, <2>2
  <2> HIDE DEF EmptyHeap
  <2>5. Sound(EmptyHeap)
    BY <2>1, <2>2, <2>3, <2>4 DEF Sound
  <2>6. RootMin(EmptyHeap)
    BY <2>4 DEF RootMin
  <2> QED BY <2>5, <2>6 DEF HeapOK
<1>2. RestOK /\ Phases
  <2>1. selfish \in BOOLEAN /\ pc \in {"idle", "calling", "hung", "corrupt"}
    BY Zenon
  <2>2. expired \in Seq(Nodes) /\ called \in 0..Len(expired) /\ Len(expired) <= 1
    OBVIOUS
  <2> QED BY <2>1, <2>2 DEF RestOK, Phases
<1>3. Running
  BY DEF Running
<1>4. Covered
  BY DEF Covered, EmptyHeap
<1> QED BY <1>1, <1>2, <1>3, <1>4

(* add_timer. *)
LEMMA AddKeeps ==
  ASSUME QueueInv, NEW t \in Timers, NEW lag \in 0..MaxLag, NEW r \in BOOLEAN, add_timer(t, lag, r)
  PROVE  QueueInv'
<1> DEFINE node == [id |-> t, when |-> Interval[t] - lag, repeat |-> r]
           q == timer_list_
           s == timer_list_'
<1>1. HeapOK /\ RestOK /\ Phases /\ Running /\ Covered
  BY InvParts
<1>2. /\ s = push(q, node)
      /\ armed' = IF node.when <= front(s).when THEN ArmedFor(node) ELSE armed
      /\ UNCHANGED <<expired, called, cancel_set_, pc, selfish>>
      /\ node.id \notin DOMAIN q.index
  BY DEF add_timer, add_timer_in_loop_, find
<1>3. node \in Nodes /\ (pc # "idle" => node.when >= 0) /\ node.when \in Int
  <2>1. /\ Interval[t] \in 1..MaxWhen /\ Interval[t] - lag >= -MaxLate
        /\ lag > 0 => pc = "idle"
    BY TimerAssumption DEF add_timer
  <2>2. Interval[t] - lag \in -MaxLate..MaxWhen /\ (pc # "idle" => Interval[t] - lag >= 0)
    BY <2>1, TimerAssumption
  <2> QED BY <2>2 DEF Nodes
<1> HIDE DEF node
<1>4. Sound(q)
  BY <1>1 DEF HeapOK
<1>5. /\ Sound(s) /\ Len(s.heap) = Len(q.heap) + 1
      /\ RootMin(q) => RootMin(s)
      /\ \A i \in 1..Len(s.heap) :
           s.heap[i] = node \/ \E j \in 1..Len(q.heap) : s.heap[i] = q.heap[j]
      /\ Len(q.heap) > 0 /\ q.heap[1].when <= node.when => s.heap[1] = q.heap[1]
  BY <1>2, <1>3, <1>4, PushNew
<1>6. Len(q.heap) \in Nat
  BY <1>4, SoundSize
<1>7. HeapOK'
  BY <1>1, <1>2, <1>5 DEF HeapOK
<1>8. RestOK'
  BY <1>1, <1>2, <1>3, ArmedForNode DEF RestOK
<1>9. Phases'
  BY <1>1, <1>2 DEF Phases
<1>10. Running'
  <2> SUFFICES ASSUME pc = "calling", ~selfish, NEW i \in 1..Len(expired), expired[i].repeat
               PROVE  Len(s.heap) > 0 /\ s.heap[1].id = expired[i].id /\ s.heap[1].when <= 0
    BY <1>2 DEF Running
  <2>1. Len(q.heap) > 0 /\ q.heap[1].id = expired[i].id /\ q.heap[1].when <= 0
    BY <1>1 DEF Running
  <2>2. q.heap[1].when \in Int
    BY <1>4, <1>6, <2>1, WhenInt
  <2>3. s.heap[1] = q.heap[1]
    BY <1>3, <1>5, <2>1, <2>2
  <2> QED BY <1>5, <1>6, <2>1, <2>3
<1>11. Covered'
  <2> SUFFICES ASSUME pc = "idle", ~selfish, NEW i \in 1..Len(s.heap)
               PROVE  0 <= armed' /\ (armed' = 0 \/ armed' <= s.heap[i].when)
    BY <1>2 DEF Covered
  <2>1. s.heap[1].when <= s.heap[i].when /\ 1 \in 1..Len(s.heap)
    BY <1>1, <1>5, <1>6 DEF HeapOK, RootMin
  <2>2. s.heap[1].when \in Int /\ s.heap[i].when \in Int
    BY <1>5, <2>1, WhenInt
  <2>3. CASE node.when <= s.heap[1].when
    <3>1. armed' = ArmedFor(node)
      BY <1>2, <2>3 DEF front, At
    <3> QED BY <1>3, <2>1, <2>2, <2>3, <3>1, ArmedForNode
  <2>4. CASE ~(node.when <= s.heap[1].when)
    <3>1. armed' = armed
      BY <1>2, <2>4 DEF front, At
    <3>2. s.heap[1] # node
      BY <1>3, <2>4
    <3>3. PICK j \in 1..Len(q.heap) : s.heap[1] = q.heap[j]
      BY <1>5, <2>1, <3>2
    <3>4. 0 <= armed /\ (armed = 0 \/ armed <= s.heap[1].when)
      BY <1>1, <3>3 DEF Covered
    <3>5. armed \in Int
      BY <1>1, TimerAssumption DEF RestOK, Off
    <3> QED BY <2>1, <2>2, <3>1, <3>4, <3>5
  <2> QED BY <2>3, <2>4
<1> QED BY <1>7, <1>8, <1>9, <1>10, <1>11, InvPartsPrimed

(* cancel. *)
LEMMA CancelKeeps ==
  ASSUME QueueInv, NEW t \in Timers, cancel_timer_in_loop_(t)
  PROVE  QueueInv'
<1> DEFINE q == timer_list_
           s == timer_list_'
<1>1. HeapOK /\ RestOK /\ Phases /\ Running /\ Covered
  BY InvParts
<1>2. /\ s = remove(q, t)
      /\ cancel_set_' = IF ~find(timer_list_, t) /\ pc = "calling"
                        THEN cancel_set_ \cup {t} ELSE cancel_set_
      /\ selfish' = (selfish \/ OwnRepeating(t))
      /\ UNCHANGED <<armed, expired, called, pc>>
  BY DEF cancel_timer_in_loop_
<1>3. selfish' \in BOOLEAN /\ (~selfish' => ~selfish /\ ~OwnRepeating(t))
  BY <1>2, Zenon
<1>4. Sound(q)
  BY <1>1 DEF HeapOK
<1>5. /\ Sound(s)
      /\ RootMin(q) => RootMin(s)
      /\ \A i \in 1..Len(s.heap) : \E j \in 1..Len(q.heap) : s.heap[i] = q.heap[j]
      /\ RootMin(q) /\ Len(q.heap) > 0 /\ q.heap[1].id # t
         => Len(s.heap) > 0 /\ s.heap[1] = q.heap[1]
  BY <1>2, <1>4, RemoveKeeps
<1>6. HeapOK'
  BY <1>1, <1>3, <1>5 DEF HeapOK
<1>7. RestOK'
  <2>1. cancel_set_' \subseteq Timers
    BY <1>1, <1>2 DEF RestOK
  <2> QED BY <1>1, <1>2, <1>3, <2>1 DEF RestOK
<1>8. Phases'
  BY <1>1, <1>2 DEF Phases
<1>9. Running'
  <2> SUFFICES ASSUME pc = "calling", ~selfish', NEW i \in 1..Len(expired), expired[i].repeat
               PROVE  Len(s.heap) > 0 /\ s.heap[1].id = expired[i].id /\ s.heap[1].when <= 0
    BY <1>2 DEF Running
  <2>1. Len(q.heap) > 0 /\ q.heap[1].id = expired[i].id /\ q.heap[1].when <= 0
    BY <1>1, <1>3 DEF Running
  <2>2. i \in DOMAIN expired
    BY <1>1 DEF RestOK
  <2>3. expired[i].id # t
    BY <1>3, <2>2 DEF OwnRepeating
  <2> QED BY <1>1, <1>3, <1>5, <2>1, <2>3 DEF HeapOK
<1>10. Covered'
  <2> SUFFICES ASSUME pc = "idle", ~selfish', NEW i \in 1..Len(s.heap)
               PROVE  0 <= armed /\ (armed = 0 \/ armed <= s.heap[i].when)
    BY <1>2 DEF Covered
  <2>1. PICK j \in 1..Len(q.heap) : s.heap[i] = q.heap[j]
    BY <1>5
  <2> QED BY <1>1, <1>3, <2>1 DEF Covered
<1> QED BY <1>6, <1>7, <1>8, <1>9, <1>10, InvPartsPrimed

(* extend_timer. *)
LEMMA ExtendTimerKeeps ==
  ASSUME QueueInv, NEW t \in Timers, NEW iv \in {0, 1}, NEW r \in BOOLEAN,
         extend_timer_in_loop_(t, iv, r)
  PROVE  QueueInv'
<1> DEFINE by == IF iv > 0 THEN iv ELSE Period(t)
           q == timer_list_
           s == timer_list_'
<1>1. HeapOK /\ RestOK /\ Phases /\ Running /\ Covered
  BY InvParts
<1>2. /\ s = extend(q, by, t, r)
      /\ selfish' = (selfish \/ OwnRepeating(t))
      /\ UNCHANGED <<armed, expired, called, cancel_set_, pc>>
      /\ t \in DOMAIN q.index /\ q.heap[q.index[t] + 1].when + by <= MaxWhen
  BY DEF extend_timer_in_loop_, find, At
<1>3. selfish' \in BOOLEAN /\ (~selfish' => ~selfish /\ ~OwnRepeating(t))
  BY <1>2, Zenon
<1>4. by \in Nat
  BY PeriodBound, TimerAssumption
<1> HIDE DEF by
<1>5. Sound(q)
  BY <1>1 DEF HeapOK
<1>6. /\ Sound(s) /\ Len(s.heap) = Len(q.heap)
      /\ RootMin(q) => RootMin(s)
      /\ \A i \in 1..Len(s.heap) :
           \E j \in 1..Len(q.heap) : q.heap[j].when <= s.heap[i].when
      /\ q.index[t] # 0 => s.heap[1] = q.heap[1]
  <2>1. t \in DOMAIN q.index /\ q.heap[q.index[t] + 1].when + by <= MaxWhen /\ s = extend(q, by, t, r)
    BY <1>2
  <2> HIDE DEF q, s
  <2>a. Sound(s)
    BY <1>4, <1>5, <2>1, ExtendKeeps, Zenon
  <2>b. SameSize(s, q)
    BY <1>4, <1>5, <2>1, ExtendSize, Zenon
  <2>2. Len(s.heap) = Len(q.heap)
    BY <2>b DEF SameSize
  <2>3. RootMin(q) => RootMin(s)
    BY <1>4, <1>5, <2>1, ExtendKeeps, Zenon
  <2>4. \A i \in 1..Len(s.heap) : \E j \in 1..Len(q.heap) : q.heap[j].when <= s.heap[i].when
    BY <1>4, <1>5, <2>1, ExtendKeeps, Zenon
  <2>5. q.index[t] # 0 => s.heap[1] = q.heap[1]
    BY <1>4, <1>5, <2>1, ExtendKeeps, ZenonT(40)
  <2> QED BY <2>a, <2>2, <2>3, <2>4, <2>5
<1>7. HeapOK'
  BY <1>1, <1>3, <1>6 DEF HeapOK
<1>8. RestOK'
  BY <1>1, <1>2, <1>3 DEF RestOK
<1>9. Phases'
  BY <1>1, <1>2 DEF Phases
<1>10. Running'
  <2> SUFFICES ASSUME pc = "calling", ~selfish', NEW i \in 1..Len(expired), expired[i].repeat
               PROVE  Len(s.heap) > 0 /\ s.heap[1].id = expired[i].id /\ s.heap[1].when <= 0
    BY <1>2 DEF Running
  <2>1. Len(q.heap) > 0 /\ q.heap[1].id = expired[i].id /\ q.heap[1].when <= 0
    BY <1>1, <1>3 DEF Running
  <2>2. i \in DOMAIN expired
    BY <1>1 DEF RestOK
  <2>3. expired[i].id # t
    BY <1>3, <2>2 DEF OwnRepeating
  <2>4. q.heap[q.index[t] + 1].id = t
    BY <1>2, <1>5 DEF Sound
  <2>5. q.index[t] # 0
    BY <2>1, <2>3, <2>4
  <2> QED BY <1>6, <2>1, <2>5
<1>11. Covered'
  <2> SUFFICES ASSUME pc = "idle", ~selfish', NEW i \in 1..Len(s.heap)
               PROVE  0 <= armed /\ (armed = 0 \/ armed <= s.heap[i].when)
    BY <1>2 DEF Covered
  <2>1. PICK j \in 1..Len(q.heap) : q.heap[j].when <= s.heap[i].when
    BY <1>6
  <2>2. 0 <= armed /\ (armed = 0 \/ armed <= q.heap[j].when)
    BY <1>1, <1>3 DEF Covered
  <2>3. armed \in Int /\ q.heap[j].when \in Int /\ s.heap[i].when \in Int
    <3>1. armed \in Int
      BY <1>1, TimerAssumption DEF RestOK, Off
    <3> QED BY <1>5, <1>6, <3>1, WhenInt
  <2> QED BY <2>1, <2>2, <2>3
<1> QED BY <1>7, <1>8, <1>9, <1>10, <1>11, InvPartsPrimed

(* handle_read_ up to the callbacks. *)
LEMMA ReadKeeps ==
  ASSUME QueueInv, handle_read_
  PROVE  QueueInv'
<1> DEFINE q == timer_list_
<1>1. HeapOK /\ RestOK /\ Phases /\ Running /\ Covered
  BY InvParts
<1>2. Sound(q) /\ expired = <<>> /\ Len(q.heap) \in Nat
  BY <1>1, SoundSize DEF HeapOK, Phases, handle_read_
<1>3. HeapOK'
  BY <1>1 DEF HeapOK, handle_read_
<1>4. CASE get_k_hangs(q)
  <2>1. pc' = "hung" /\ UNCHANGED <<expired, cancel_set_, timer_list_, armed, selfish>> /\ called' = 0
    BY <1>4 DEF handle_read_
  <2>2. RestOK'
    BY <1>1, <1>2, <2>1 DEF RestOK
  <2>3. Phases' /\ Running' /\ Covered'
    BY <1>2, <2>1 DEF Phases, Running, Covered
  <2> QED BY <1>3, <2>2, <2>3, InvPartsPrimed
<1>5. CASE ~get_k_hangs(q)
  <2>1. /\ expired' = get_k(q) /\ cancel_set_' = {} /\ pc' = "calling" /\ called' = 0
        /\ UNCHANGED <<timer_list_, armed, selfish>>
    BY <1>5 DEF handle_read_
  <2>2. CASE Len(q.heap) > 0 /\ q.heap[1].when <= 0
    <3>1. expired' = <<q.heap[1]>>
      BY <2>1, <2>2 DEF get_k, Size, Due, front, At
    <3>2. q.heap[1] \in Nodes
      BY <1>2, <2>2, WhenInt
    <3>3. expired' \in Seq(Nodes) /\ Len(expired') = 1 /\ expired'[1] = q.heap[1]
      BY <3>1, <3>2
    <3>4. RestOK'
      BY <1>1, <2>1, <3>3 DEF RestOK
    <3>5. Phases' /\ Covered'
      BY <2>1, <3>3 DEF Phases, Covered
    <3>6. Running'
      BY <2>1, <2>2, <3>3 DEF Running
    <3> QED BY <1>3, <3>4, <3>5, <3>6, InvPartsPrimed
  <2>3. CASE ~(Len(q.heap) > 0 /\ q.heap[1].when <= 0)
    <3>1. expired' = <<>>
      BY <2>1, <2>3 DEF get_k, Size, Due, front, At
    <3>2. expired' \in Seq(Nodes) /\ Len(expired') = 0
      BY <3>1
    <3>3. RestOK'
      BY <1>1, <2>1, <3>2 DEF RestOK
    <3>4. Phases' /\ Covered'
      BY <2>1, <3>2 DEF Phases, Covered
    <3>5. Running'
      BY <3>2 DEF Running
    <3> QED BY <1>3, <3>3, <3>4, <3>5, InvPartsPrimed
  <2> QED BY <2>2, <2>3
<1> QED BY <1>4, <1>5

(* RunCallback. *)
LEMMA CallbackKeeps ==
  ASSUME QueueInv, RunCallback
  PROVE  QueueInv'
<1>1. HeapOK /\ RestOK /\ Phases /\ Running /\ Covered
  BY InvParts
<1>2. RestOK'
  BY <1>1 DEF RestOK, RunCallback
<1>3. HeapOK' /\ Phases' /\ Running' /\ Covered'
  BY <1>1 DEF HeapOK, Phases, Running, Covered, RunCallback
<1> QED BY <1>2, <1>3, InvPartsPrimed

(* reset_, the end of handle_read_. *)
LEMMA ResetTimersKeeps ==
  ASSUME QueueInv, reset_
  PROVE  QueueInv'
<1> DEFINE q == timer_list_
           s == timer_list_'
<1>1. HeapOK /\ RestOK /\ Phases /\ Running /\ Covered
  BY InvParts
<1>2. Sound(q) /\ pc = "calling" /\ Len(expired) \in Nat
  BY <1>1 DEF HeapOK, RestOK, reset_
<1>3. /\ expired' = <<>> /\ called' = 0 /\ UNCHANGED <<cancel_set_, selfish>>
      /\ expired' \in Seq(Nodes) /\ Len(expired') = 0
  BY DEF reset_
<1>4. Phases' /\ Running'
  BY <1>3 DEF Phases, Running
<1>5. CASE ResetsAbsent
  <2>1. pc' = "corrupt" /\ UNCHANGED <<timer_list_, armed>>
    BY <1>5 DEF reset_
  <2>2. RestOK'
    BY <1>1, <1>3, <2>1 DEF RestOK
  <2>3. HeapOK' /\ Covered'
    BY <1>1, <1>3, <2>1 DEF HeapOK, Covered
  <2> QED BY <1>4, <2>2, <2>3, InvPartsPrimed
<1>6. CASE ~ResetsAbsent
  <2>1. s = FoldLeft(Reset, timer_list_, expired) /\ armed' = Rearmed(s) /\ pc' = "idle"
    BY <1>6 DEF reset_
  <2>2. s = IF expired = <<>> THEN q ELSE Reset(q, expired[1])
    BY <1>1, <2>1, FoldReset DEF RestOK, Phases
  <2>3. Sound(s) /\ (~selfish => RootMin(s))
    <3>1. CASE expired = <<>>
      BY <1>1, <2>2, <3>1 DEF HeapOK
    <3>2. CASE expired # <<>>
      <4> DEFINE e == expired[1]
      <4>1. s = Reset(q, e)
        BY <2>2, <3>2
      <4>2. 1 \in 1..Len(expired) /\ 1 \in DOMAIN expired /\ e \in Nodes
        BY <1>1, <3>2 DEF RestOK
      <4> HIDE DEF e
      <4>3. CASE ~e.repeat
        <5>1. s = remove(q, e.id)
          BY <4>1, <4>3 DEF Reset
        <5> QED BY <1>1, <1>2, <5>1, RemoveKeeps DEF HeapOK
      <4>4. CASE e.repeat /\ e.id \in cancel_set_
        <5>1. s = q
          BY <4>1, <4>4 DEF Reset
        <5> QED BY <1>1, <5>1 DEF HeapOK
      <4>5. CASE e.repeat /\ e.id \notin cancel_set_
        <5>1. s = reset(q, e.id, Period(e.id))
          BY <4>1, <4>5 DEF Reset
        <5>2. e.id \in DOMAIN q.index
          BY <1>6, <4>2, <4>5 DEF ResetsAbsent, find, e
        <5>3. Period(e.id) \in 0..MaxWhen
          BY <4>2, PeriodBound DEF Nodes
        <5>4. Sound(s) /\ (q.index[e.id] = 0 => RootMin(s))
          BY <1>2, <5>1, <5>2, <5>3, ResetKeeps
        <5>5. ~selfish => q.index[e.id] = 0
          <6> SUFFICES ASSUME ~selfish PROVE q.index[e.id] = 0
            OBVIOUS
          <6>1. Len(q.heap) > 0 /\ q.heap[1].id = e.id
            BY <1>1, <1>2, <4>2, <4>5 DEF Running, e
          <6>2. 1 \in 1..Len(q.heap)
            BY <1>2, <6>1, SoundSize
          <6>3. q.index[q.heap[1].id] = 1 - 1
            BY <1>2, <6>2 DEF Sound
          <6> QED BY <6>1, <6>3
        <5> QED BY <5>4, <5>5
      <4> QED BY <4>3, <4>4, <4>5
    <3> QED BY <3>1, <3>2
  <2>4. HeapOK'
    BY <1>3, <2>3 DEF HeapOK
  <2>5. CASE s.heap = <<>>
    <3>1. armed' = armed /\ Len(s.heap) = 0
      BY <2>1, <2>5 DEF Rearmed
    <3>2. RestOK'
      BY <1>1, <1>3, <2>1, <3>1 DEF RestOK
    <3>3. Covered'
      BY <3>1 DEF Covered
    <3> QED BY <1>4, <2>4, <3>2, <3>3, InvPartsPrimed
  <2>6. CASE s.heap # <<>>
    <3>1. armed' = ArmedFor(s.heap[1])
      BY <2>1, <2>6 DEF Rearmed, front, At
    <3>2. 1 \in 1..Len(s.heap)
      BY <2>3, <2>6 DEF Sound
    <3>3. s.heap[1] \in Nodes
      BY <2>3, <3>2, WhenInt
    <3>4. /\ armed' \in 0..MaxWhen /\ (armed' = 0 \/ armed' <= s.heap[1].when)
          /\ s.heap[1].when \in Int
      BY <3>1, <3>3, ArmedForNode
    <3>5. RestOK'
      BY <1>1, <1>3, <2>1, <3>4 DEF RestOK
    <3>6. Covered'
      <4> SUFFICES ASSUME ~selfish, NEW i \in 1..Len(s.heap)
                   PROVE  0 <= armed' /\ (armed' = 0 \/ armed' <= s.heap[i].when)
        BY <1>3 DEF Covered
      <4>1. s.heap[1].when <= s.heap[i].when
        BY <2>3 DEF RootMin
      <4>2. s.heap[i].when \in Int
        BY <2>3, WhenInt
      <4>3. armed' \in Int /\ 0 <= armed'
        BY <3>4, TimerAssumption
      <4> QED BY <3>4, <4>1, <4>2, <4>3
    <3> QED BY <1>4, <2>4, <3>5, <3>6, InvPartsPrimed
  <2> QED BY <2>5, <2>6
<1> QED BY <1>5, <1>6

(* A unit of time passes. *)
LEMMA TickKeeps ==
  ASSUME QueueInv, Tick
  PROVE  QueueInv'
<1> DEFINE q == timer_list_
           s == timer_list_'
           n == Len(q.heap)
           h == Sooner(q.heap)
<1>1. HeapOK /\ RestOK /\ Phases /\ Running /\ Covered
  BY InvParts
<1>2. /\ armed' = IF armed > 0 THEN armed - 1 ELSE armed
      /\ UNCHANGED <<expired, called, cancel_set_, pc, selfish>>
  BY DEF Tick
<1>3. Sound(q) /\ n \in Nat /\ q.heap \in Seq(Nodes) /\ DOMAIN q.heap = 1..n
      /\ q = [heap |-> q.heap, index |-> q.index]
  BY <1>1, SoundSize DEF HeapOK, Sound
<1>4. s = [heap |-> h, index |-> q.index]
  <2>1. s = [q EXCEPT !.heap = h]
    BY DEF Tick
  <2>2. ASSUME NEW g
        PROVE  [q EXCEPT !.heap = g] = [heap |-> g, index |-> q.index]
    <3>1. q = [heap |-> q.heap, index |-> q.index]
      BY <1>3
    <3> HIDE DEF q
    <3> QED BY <3>1
  <2> QED BY <2>1, <2>2
<1>5. ASSUME NEW i \in 1..n
      PROVE  q.heap[i].when > -MaxLate
  <2>1. i - 1 \in Positions(q) /\ (i - 1) + 1 = i
    BY <1>3 DEF Positions, Size
  <2>2. At(q, i - 1).when > -MaxLate
    BY <2>1 DEF Tick
  <2> QED BY <2>1, <2>2 DEF At
<1>6. ASSUME NEW i \in 1..n
      PROVE  h[i] \in Nodes /\ h[i].id = q.heap[i].id /\ h[i].when = q.heap[i].when - 1
  <2> DEFINE o == q.heap[i]
             w == o.when - 1
  <2>1. o \in Nodes
    BY <1>3
  <2>2. o.when \in -MaxLate..MaxWhen /\ o.when > -MaxLate
    BY <1>5, <2>1 DEF Nodes
  <2>3. w \in -MaxLate..MaxWhen
    BY <2>2, TimerAssumption
  <2>4. h[i] = [o EXCEPT !.when = w]
    BY <1>3 DEF Sooner
  <2> HIDE DEF o, w, h
  <2>5. [o EXCEPT !.when = w] \in Nodes /\ [o EXCEPT !.when = w].id = o.id
        /\ [o EXCEPT !.when = w].when = w
    BY <2>1, <2>3 DEF Nodes
  <2> QED BY <2>4, <2>5 DEF o, w
<1>7. h \in Seq(Nodes) /\ Len(h) = n
  <2>1. h = [i \in 1..n |-> h[i]]
    BY <1>3 DEF Sooner
  <2> HIDE DEF h, n
  <2> QED BY <1>3, <1>6, <2>1
<1> HIDE DEF h
<1>8. s.heap = h /\ s.index = q.index /\ s = [heap |-> s.heap, index |-> s.index]
  BY <1>4
<1>9. Sound(s)
  <2>1. /\ \A i \in 1..n : /\ q.heap[i].id \in DOMAIN q.index
                           /\ q.index[q.heap[i].id] = i - 1
        /\ \A t \in DOMAIN q.index : q.index[t] \in 0..(n - 1) /\ q.heap[q.index[t] + 1].id = t
        /\ DOMAIN q.index \subseteq Timers /\ Cardinality(DOMAIN q.index) = n
    BY <1>3 DEF Sound
  <2>2. ASSUME NEW t \in DOMAIN q.index
        PROVE  h[q.index[t] + 1].id = t
    <3>1. q.index[t] + 1 \in 1..n
      BY <1>3, <2>1
    <3> QED BY <1>6, <2>1, <3>1
  <2>3. \A i \in 1..n : h[i].id \in DOMAIN q.index /\ q.index[h[i].id] = i - 1
    BY <1>6, <2>1
  <2> HIDE DEF n, q, s
  <2> QED BY <1>7, <1>8, <2>1, <2>2, <2>3 DEF Sound
<1>10. \A i \in 1..n : q.heap[i].when \in Int
  BY <1>3, WhenInt
<1>11. HeapOK'
  <2>1. ASSUME RootMin(q)
        PROVE  RootMin(s)
    <3> SUFFICES ASSUME NEW i \in 1..n PROVE h[1].when <= h[i].when
      BY <1>7, <1>8 DEF RootMin
    <3>1. 1 \in 1..n /\ q.heap[1].when <= q.heap[i].when
      BY <1>3, <2>1 DEF RootMin
    <3> QED BY <1>6, <1>10, <3>1
  <2> QED BY <1>1, <1>2, <1>9, <2>1 DEF HeapOK
<1>12. armed \in Int
  BY <1>1, TimerAssumption DEF RestOK, Off
<1>13. RestOK'
  <2>1. armed' \in {Off} \cup 0..MaxWhen
    BY <1>1, <1>2, TimerAssumption DEF RestOK, Off
  <2> QED BY <1>1, <1>2, <2>1 DEF RestOK
<1>14. Phases'
  BY <1>1, <1>2 DEF Phases
<1>15. Running'
  <2> SUFFICES ASSUME pc = "calling", ~selfish, NEW i \in 1..Len(expired), expired[i].repeat
               PROVE  Len(h) > 0 /\ h[1].id = expired[i].id /\ h[1].when <= 0
    BY <1>2, <1>8 DEF Running
  <2>1. n > 0 /\ q.heap[1].id = expired[i].id /\ q.heap[1].when <= 0
    BY <1>1 DEF Running
  <2>2. 1 \in 1..n
    BY <1>3, <2>1
  <2> QED BY <1>6, <1>7, <1>10, <2>1, <2>2
<1>16. Covered'
  <2> SUFFICES ASSUME pc = "idle", ~selfish, NEW i \in 1..n
               PROVE  0 <= armed' /\ (armed' = 0 \/ armed' <= h[i].when)
    BY <1>2, <1>7, <1>8 DEF Covered
  <2>1. 0 <= armed /\ (armed = 0 \/ armed <= q.heap[i].when)
    BY <1>1 DEF Covered
  <2> QED BY <1>2, <1>6, <1>10, <1>12, <2>1
<1> QED BY <1>11, <1>13, <1>14, <1>15, <1>16, InvPartsPrimed

(* Every step keeps the invariant. *)
LEMMA NextQueueInv == QueueInv /\ [Next]_vars => QueueInv'
<1> SUFFICES ASSUME QueueInv, [Next]_vars PROVE QueueInv'
  OBVIOUS
<1>1. CASE \E t \in Timers, lag \in 0..MaxLag, r \in BOOLEAN : add_timer(t, lag, r)
  BY <1>1, AddKeeps
<1>2. CASE \E t \in Timers : cancel_timer_in_loop_(t)
  BY <1>2, CancelKeeps
<1>3. CASE \E t \in Timers, i \in {0, 1}, r \in BOOLEAN : extend_timer_in_loop_(t, i, r)
  BY <1>3, ExtendTimerKeeps
<1>4. CASE handle_read_
  BY <1>4, ReadKeeps
<1>5. CASE RunCallback
  BY <1>5, CallbackKeeps
<1>6. CASE reset_
  BY <1>6, ResetTimersKeeps
<1>7. CASE Tick
  BY <1>7, TickKeeps
<1>8. CASE UNCHANGED vars
  <2>1. HeapOK /\ RestOK /\ Phases /\ Running /\ Covered
    BY InvParts
  <2>2. HeapOK' /\ RestOK' /\ Phases' /\ Running' /\ Covered'
    BY <1>8, <2>1 DEF vars, HeapOK, RestOK, Phases, Running, Covered
  <2> QED BY <2>2, InvPartsPrimed
<1> QED BY <1>1, <1>2, <1>3, <1>4, <1>5, <1>6, <1>7, <1>8 DEF Next

(* The inductive invariant holds in every reachable state. *)
THEOREM QueueInvariant == Spec => []QueueInv
BY InitQueueInv, NextQueueInv, PTL DEF Spec

(* Every variable keeps its type, and the heap never holds more than four nodes. *)
THEOREM TypeCorrect == Spec => []TypeOK
<1>1. QueueInv => TypeOK
  BY DEF QueueInv
<1> QED BY <1>1, QueueInvariant, PTL

(* four_heap.cc:19: whatever sequence of pushes, removals, resets and extensions comes,
   the map finds every timer of the vector in its place and no other. *)
THEOREM IndexCorrect == Spec => []IndexMatchesHeap
<1>1. QueueInv => IndexMatchesHeap
  <2> SUFFICES ASSUME QueueInv PROVE IndexMatchesHeap
    OBVIOUS
  <2> DEFINE q == timer_list_
  <2>1. Sound(q) /\ Len(q.heap) \in Nat
    BY SoundSize DEF QueueInv
  <2>2. ASSUME NEW p \in Positions(q)
        PROVE  find(q, At(q, p).id) /\ q.index[At(q, p).id] = p
    <3>1. p \in Int /\ p + 1 \in 1..Len(q.heap) /\ (p + 1) - 1 = p
      BY <2>1 DEF Positions, Size
    <3>2. q.heap[p + 1].id \in DOMAIN q.index /\ q.index[q.heap[p + 1].id] = (p + 1) - 1
      BY <2>1, <3>1 DEF Sound
    <3> QED BY <3>1, <3>2 DEF find, At
  <2>3. Cardinality(DOMAIN q.index) = Size(q)
    BY <2>1 DEF Sound, Size
  <2> QED BY <2>2, <2>3 DEF IndexMatchesHeap
<1> QED BY <1>1, QueueInvariant, PTL

(* timerqueue.cc:101, :161: between two handlers the timerfd becomes readable no later
   than any timer is due, unless a repeating timer cancelled or extended itself. *)
THEOREM TimerfdCorrect == Spec => []TimerfdCoversEarliest
<1>1. QueueInv => TimerfdCoversEarliest
  <2> SUFFICES ASSUME QueueInv, pc = "idle", ~selfish, NEW p \in Positions(timer_list_)
               PROVE  armed \in 0..ArmedFor(At(timer_list_, p))
    BY DEF TimerfdCoversEarliest
  <2> DEFINE node == timer_list_.heap[p + 1]
  <2>1. Sound(timer_list_) /\ Len(timer_list_.heap) \in Nat
    BY SoundSize DEF QueueInv
  <2>2. p + 1 \in 1..Len(timer_list_.heap)
    BY <2>1 DEF Positions, Size
  <2>3. 0 <= armed /\ (armed = 0 \/ armed <= node.when)
    BY <2>2 DEF QueueInv, Covered
  <2>4. armed \in Int
    BY TimerAssumption DEF QueueInv, TypeOK, Off
  <2>5. node.when \in Int
    BY <2>1, <2>2, WhenInt
  <2>6. At(timer_list_, p) = node
    BY DEF At
  <2> HIDE DEF node
  <2> QED BY <2>3, <2>4, <2>5, <2>6 DEF ArmedFor
<1> QED BY <1>1, QueueInvariant, PTL

(* four_heap.cc:170: the root, the only timer get_k runs, is an earliest one, with the
   same exception. *)
THEOREM RootCorrect == Spec => []RootIsEarliest
<1>1. QueueInv => RootIsEarliest
  <2> SUFFICES ASSUME QueueInv, ~selfish, NEW p \in Positions(timer_list_)
               PROVE  front(timer_list_).when <= At(timer_list_, p).when
    BY DEF RootIsEarliest
  <2>1. Sound(timer_list_) /\ Len(timer_list_.heap) \in Nat
    BY SoundSize DEF QueueInv
  <2>2. p + 1 \in 1..Len(timer_list_.heap)
    BY <2>1 DEF Positions, Size
  <2>3. timer_list_.heap[1].when <= timer_list_.heap[p + 1].when
    BY <2>2 DEF QueueInv, RootMin
  <2> QED BY <2>3 DEF front, At
<1> QED BY <1>1, QueueInvariant, PTL
===============================================================================
