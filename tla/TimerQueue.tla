------------------------------ MODULE TimerQueue -------------------------------
(***************************************************************************)
(* TimerQueue (base/timerqueue.cc) on its loop: timers in a FourHeap, one  *)
(* timerfd armed for the earliest.  All steps are the loop thread's; calls *)
(* from other threads reach it as functors (EventLoop), which is why a     *)
(* timer may be added some time after its expiry was computed.  The        *)
(* callbacks of handle_read_ may themselves add, cancel and extend.        *)
(***************************************************************************)
EXTENDS FourHeap, FiniteSets

CONSTANTS Timers,   \* the ids get_ hands out; an id that is free again stands for a new one
          Interval, \* Interval[t]: the interval t is added with, in units of time
          Second,   \* the units in a second
          MaxWhen,  \* bound: how far ahead a timer may be set
          MaxLate,  \* bound: how late the loop may be
          MaxLag    \* bound: how long a functor that adds a timer waits

(* HttpServer has two timers.  From five on shif_down_ does not see the node at
   position 4 and the root need not be the earliest. *)
ASSUME TimerAssumption ==
  /\ IsFiniteSet(Timers) /\ Cardinality(Timers) \in 1..4
  /\ Interval \in [Timers -> 1..MaxWhen]
  /\ Second \in Nat \ {0}
  /\ MaxWhen \in Nat \ {0} /\ MaxLate \in Nat /\ MaxLag \in Nat

Off == -1 \* a timerfd that was never armed

VARIABLES timer_list_, \* the FourHeap
          armed,       \* time until the timerfd is readable; 0: it is; or Off
          expired,     \* what get_expired_ returned, and
          called,      \*   how many of these callbacks have been started
          cancel_set_, \* ids cancelled inside a callback that were not in the heap
          pc,          \* "idle", "calling"; "hung" in get_k; "corrupt"
          selfish      \* history: a callback has cancelled or extended its own repeating timer

vars == <<timer_list_, armed, expired, called, cancel_set_, pc, selfish>>

Nodes == [id: Timers, when: -MaxLate..MaxWhen, repeat: BOOLEAN]

TypeOK ==
  /\ timer_list_.heap \in Seq(Nodes) /\ Size(timer_list_) <= Cardinality(Timers)
  /\ DOMAIN timer_list_.index \subseteq Timers
  /\ armed \in {Off} \cup 0..MaxWhen
  /\ expired \in Seq(Nodes) /\ called \in 0..Len(expired)
  /\ cancel_set_ \subseteq Timers
  /\ pc \in {"idle", "calling", "hung", "corrupt"} /\ selfish \in BOOLEAN

Init ==
  /\ timer_list_ = EmptyHeap /\ armed = Off
  /\ expired = <<>> /\ called = 0 /\ cancel_set_ = {}
  /\ pc = "idle" /\ selfish = FALSE

(* The loop thread is between two handlers or inside a callback. *)
MayCall == pc = "idle" \/ (pc = "calling" /\ called > 0)

OwnRepeating(t) == \E i \in DOMAIN expired : expired[i].id = t /\ expired[i].repeat

(* interval_ is an int: the float interval of add_timer loses its fraction, and a
   timer of less than a second repeats with 0. *)
Period(t) == (Interval[t] \div Second) * Second

(* reset_timerfd: a time that has passed fires at once. *)
ArmedFor(node) == IF node.when > 0 THEN node.when ELSE 0

-------------------------------------------------------------------------------
add_timer_in_loop_(t, when, repeat) ==
  LET node == [id |-> t, when |-> when, repeat |-> repeat]
      q == push(timer_list_, node)
  IN
  /\ timer_list_' = q
  /\ armed' = IF node.when <= front(q).when THEN ArmedFor(node) ELSE armed
  /\ UNCHANGED <<expired, called, cancel_set_, pc, selfish>>

(* add_timer, on the loop thread or lag units before its functor runs, which is
   never inside a callback; the expiry may have passed by then.  The id is one no
   timer has. *)
add_timer(t, lag, repeat) ==
  /\ MayCall
  /\ ~find(timer_list_, t) /\ t \notin {expired[i].id : i \in DOMAIN expired}
  /\ lag > 0 => pc = "idle"
  /\ Interval[t] - lag >= -MaxLate
  /\ add_timer_in_loop_(t, Interval[t] - lag, repeat)

(* cancel. *)
cancel_timer_in_loop_(t) ==
  /\ MayCall
  /\ timer_list_' = remove(timer_list_, t)
  /\ cancel_set_' = IF ~find(timer_list_, t) /\ pc = "calling"
                    THEN cancel_set_ \cup {t} ELSE cancel_set_
  /\ selfish' = (selfish \/ OwnRepeating(t))
  /\ UNCHANGED <<armed, expired, called, pc>>

(* extend_timer: interval 0 stands for the timer's own, without its fraction. *)
extend_timer_in_loop_(t, interval, repeat) ==
  LET by == IF interval > 0 THEN interval ELSE Period(t) IN
  /\ MayCall /\ find(timer_list_, t)
  /\ At(timer_list_, timer_list_.index[t]).when + by <= MaxWhen
  /\ timer_list_' = extend(timer_list_, by, t, repeat)
  /\ selfish' = (selfish \/ OwnRepeating(t))
  /\ UNCHANGED <<armed, expired, called, cancel_set_, pc>>

-------------------------------------------------------------------------------
(* handle_read_ up to the callbacks.  The timerfd is not read: it stays readable
   until it is armed again. *)
handle_read_ ==
  /\ pc = "idle" /\ armed = 0
  /\ IF get_k_hangs(timer_list_)
     THEN pc' = "hung" /\ UNCHANGED <<expired, cancel_set_>>
     ELSE /\ expired' = get_k(timer_list_)
          /\ cancel_set_' = {}
          /\ pc' = "calling"
  /\ called' = 0
  /\ UNCHANGED <<timer_list_, armed, selfish>>

(* e.run(): the callback begins, and may call any of the operations above. *)
RunCallback ==
  /\ pc = "calling" /\ called < Len(expired)
  /\ called' = called + 1
  /\ UNCHANGED <<timer_list_, armed, expired, cancel_set_, pc, selfish>>

(* Fault: armed for the next expiry of the timer that has run. *)
Rearmed_Own(q) ==
  IF q.heap # <<>> /\ expired # <<>> THEN Period(expired[1].id) ELSE armed

(* The end of reset_: armed for the root, unless no timer is left. *)
Rearmed(q) == IF q.heap # <<>> THEN ArmedFor(front(q)) ELSE armed

(* One expired timer in reset_.  What counts is the copy made before the
   callbacks: a timer that was extended or made repeating meanwhile is treated as
   it was. *)
Reset(q, e) ==
  IF ~e.repeat THEN remove(q, e.id)
  ELSE IF e.id \in cancel_set_ THEN q
  ELSE reset(q, e.id, Period(e.id))

(* A repeating timer that cancelled itself was found in the heap, so it is not in
   cancel_set_: reset_ then enters its id with position 0 and overwrites the
   expiry of another timer, or writes past an empty vector. *)
ResetsAbsent ==
  \E i \in DOMAIN expired :
    LET e == expired[i] IN e.repeat /\ e.id \notin cancel_set_ /\ ~find(timer_list_, e.id)

reset_ ==
  /\ pc = "calling" /\ called = Len(expired)
  /\ IF ResetsAbsent
     THEN pc' = "corrupt" /\ UNCHANGED <<timer_list_, armed>>
     ELSE LET q == FoldLeft(Reset, timer_list_, expired) IN
          /\ timer_list_' = q
          /\ armed' = Rearmed(q)
          /\ pc' = "idle"
  /\ expired' = <<>> /\ called' = 0
  /\ UNCHANGED <<cancel_set_, selfish>>

(* The nodes a unit of time later. *)
Sooner(nodes) == [i \in DOMAIN nodes |-> [nodes[i] EXCEPT !.when = @ - 1]]

(* A unit of time passes, in or between handlers. *)
Tick ==
  /\ pc \in {"idle", "calling"}
  /\ \A p \in Positions(timer_list_) : At(timer_list_, p).when > -MaxLate
  /\ \/ timer_list_.heap # <<>> \/ armed > 0
  /\ timer_list_' = [timer_list_ EXCEPT !.heap = Sooner(@)]
  /\ armed' = IF armed > 0 THEN armed - 1 ELSE armed
  /\ UNCHANGED <<expired, called, cancel_set_, pc, selfish>>

Next ==
  \/ \E t \in Timers, lag \in 0..MaxLag, r \in BOOLEAN : add_timer(t, lag, r)
  \/ \E t \in Timers : cancel_timer_in_loop_(t)
  \/ \E t \in Timers, i \in {0, 1}, r \in BOOLEAN : extend_timer_in_loop_(t, i, r)
  \/ handle_read_ \/ RunCallback \/ reset_ \/ Tick

Spec == Init /\ [][Next]_vars

-------------------------------------------------------------------------------
Alive == pc \in {"idle", "calling"}

(* The map and the vector of the heap describe the same timers through every
   sequence of pushes, removals, resets and extensions (four_heap.cc:19): a wrong
   entry would cancel or extend somebody else's timer. *)
IndexMatchesHeap ==
  Alive =>
    /\ \A p \in Positions(timer_list_) :
         find(timer_list_, At(timer_list_, p).id) /\ timer_list_.index[At(timer_list_, p).id] = p
    /\ Cardinality(DOMAIN timer_list_.index) = Size(timer_list_)

(* Between two handlers the timerfd becomes readable no later than the earliest
   timer is due, whatever was added, cancelled, extended or reset before, in or
   out of callbacks (timerqueue.cc:101, :161).  The exception is a repeating timer
   that extended itself in its callback: reset_ then moves it forward and only
   sifts down, as the comment at timerqueue.cc:147 warns. *)
TimerfdCoversEarliest ==
  (pc = "idle" /\ ~selfish) =>
    \A p \in Positions(timer_list_) : armed \in 0..ArmedFor(At(timer_list_, p))

(* The root of the heap is an earliest timer, so that get_k, which takes the root
   and nothing else, never runs a timer before one that was due earlier
   (four_heap.cc:170); with the timerfd covering the earliest timer it follows that
   a timer that is due is the next to run.  The same exception applies. *)
RootIsEarliest ==
  (Alive /\ ~selfish) =>
    \A p \in Positions(timer_list_) : front(timer_list_).when <= At(timer_list_, p).when
===============================================================================
