------------------------------- MODULE TcpServer -------------------------------
(***************************************************************************)
(* The server above the connections: TcpServer and EventLoopThreadPool     *)
(* (src/server/), Acceptor (src/event/acceptor.cc) and the idle wheel of   *)
(* HttpServer (src/httpserver.h, src/httpserver.cc, src/server/entry.h).   *)
(*                                                                         *)
(* The question is who owns a TcpConnection.  It is referenced by the map  *)
(* connection_ and by functors that travel between the base loop and the   *)
(* I/O loops; an Entry of the wheel holds a weak reference and calls       *)
(* shutdown when its last bucket is dropped; shutdown travels with a raw   *)
(* this.  Loop 0 is the base loop, loop i > 0 the i-th of loops_.  What a  *)
(* connection does with bytes is module TcpConnection's.                   *)
(***************************************************************************)
EXTENDS Naturals, Sequences, FiniteSets, SequencesExt

CONSTANTS MaxConns,    \* bound on the connections accepted
          MaxThreads   \* bound on set_thread_num

ASSUME ConnsAssumption == MaxConns \in Nat \ {0}
ASSUME ThreadsAssumption == MaxThreads \in Nat

Base == 0
Loops == 0..MaxThreads
Conns == 1..MaxConns
NoConn == 0
Buckets == 3               \* connection_list_(3)

VARIABLES num_threads_, loops_,  \* requested, and size of the vector of loops
          listening_,
          next_, next_id,
          connection_,           \* names in the map
          conn,                  \* the TcpConnection objects
          pending, functors,     \* of each loop: pending_func_, the local batch
          ran,                   \* of each loop: functors of the batch made
          wheel,                 \* connection_list_, oldest bucket first
          held,                  \* of each loop: the entry message_cb has locked
          peer,                  \* "open" or "closed" at the other end
          idle,                  \* history: ticks since the entry was inserted
          stale,                 \* history: a functor ran on a freed object
          failed                 \* an assertion of the server failed

serverVars == <<num_threads_, loops_, listening_, next_, next_id>>
queueVars == <<pending, functors, ran>>
vars == <<num_threads_, loops_, listening_, next_, next_id, connection_, conn, pending,
          functors, ran, wheel, held, peer, idle, stale, failed>>

(* The object before the constructor has run. *)
NoObject == [loop |-> Base, status |-> "none", channel |-> "none"]
Objects == [loop : Loops,
            status : {"none", "CONNECTING", "CONNECTED", "DISCONNECTING", "DISCONNECTED"},
            channel : {"none", "on", "off", "removed"}]

(* Functors.  The first three hold a TcpConnectionPtr, the last a raw this. *)
Owning == {"build_connect", "remove_connection_in_loop", "destroy_connect"}
Functors == [f : Owning \cup {"shutdown_in_loop_"}, c : Conns]
Functor(f, c) == [f |-> f, c |-> c]

TypeOK ==
  /\ num_threads_ \in 0..MaxThreads /\ loops_ \in 0..MaxThreads
  /\ {listening_, stale, failed} \subseteq BOOLEAN
  /\ next_ = 0 \/ next_ \in 0..(loops_ - 1)
  /\ next_id \in 1..(MaxConns + 1)
  /\ connection_ \subseteq 1..(next_id - 1)
  /\ conn \in [Conns -> Objects]
  /\ pending \in [Loops -> Seq(Functors)] /\ functors \in [Loops -> Seq(Functors)]
  /\ ran \in [Loops -> Nat]
  /\ wheel \in [1..Buckets -> SUBSET Conns]
  /\ held \in [Loops -> Conns \cup {NoConn}]
  /\ peer \in [Conns -> {"open", "closed"}]
  /\ idle \in [Conns -> 0..Buckets]

(* The constructors of HttpServer, TcpServer, Acceptor and EventLoopThreadPool. *)
Init ==
  /\ num_threads_ = 0 /\ loops_ = 0
  /\ listening_ = FALSE /\ stale = FALSE /\ failed = FALSE
  /\ next_ = 0 /\ next_id = 1
  /\ connection_ = {}
  /\ conn = [c \in Conns |-> NoObject]
  /\ pending = [l \in Loops |-> <<>>] /\ functors = [l \in Loops |-> <<>>]
  /\ ran = [l \in Loops |-> 0]
  /\ wheel = [b \in 1..Buckets |-> {}]
  /\ held = [l \in Loops |-> NoConn]
  /\ peer = [c \in Conns |-> "open"]
  /\ idle = [c \in Conns |-> 0]

-------------------------------------------------------------------------------
(* Who is alive, and what a loop thread is doing.                            *)

Waiting(l) == ToSet(pending[l]) \cup ToSet(SubSeq(functors[l], ran[l] + 1, Len(functors[l])))

(* The shared_ptrs: the map, the functors queued or still in the local vector
   of dopending_func, and the guard of a channel whose handler is running. *)
Alive(c) ==
  \/ c \in connection_
  \/ \E l \in Loops : \/ held[l] = c
                      \/ \E e \in ToSet(pending[l]) \cup ToSet(functors[l]) :
                            e.f \in Owning /\ e.c = c
Freed(c) == c < next_id /\ ~Alive(c)

(* The loop is between two callbacks, handling events: no batch is running. *)
HandlesEvents(l) == functors[l] = <<>> /\ held[l] = NoConn

Queue(q, l, e) == [q EXCEPT ![l] = Append(@, e)]

-------------------------------------------------------------------------------
(* Starting the server.                                                      *)

(* set_thread_num, before start: later calls change nothing that is read. *)
SetThreadNum(n) ==
  /\ ~listening_
  /\ num_threads_' = n
  /\ UNCHANGED <<loops_, listening_, next_, next_id, connection_, conn, queueVars,
                 wheel, held, peer, idle, stale, failed>>

(* EventLoopThreadPool::start: one EventLoopThread, and its loop, per thread. *)
PoolStart == loops_' = num_threads_

(* Acceptor::listen. *)
Listen == listening_' = TRUE

(* TcpServer::start: the threads, then listen, directly because start is called
   on the base thread. *)
Start ==
  /\ ~listening_
  /\ PoolStart
  /\ Listen
  /\ UNCHANGED <<num_threads_, next_, next_id, connection_, conn, queueVars,
                 wheel, held, peer, idle, stale, failed>>

-------------------------------------------------------------------------------
(* The operations of a connection that decide about its life.                *)

(* build_connect. *)
Built(cs, c) == [cs EXCEPT ![c].status = "CONNECTED", ![c].channel = "on"]

(* Fault: the entry goes into the oldest bucket. *)
Inserted_Oldest(w, c) == [w EXCEPT ![1] = @ \cup {c}]

(* connection_list_.back().insert(entry): in connection_cb of a connection that
   is up, and in message_cb. *)
Inserted(w, c) == [w EXCEPT ![Buckets] = @ \cup {c}]

(* shutdown_in_loop_: only a connected connection is shut. *)
Shut(cs, C) ==
  [c \in Conns |-> IF c \in C /\ cs[c].status = "CONNECTED"
                     THEN [cs[c] EXCEPT !.status = "DISCONNECTING"] ELSE cs[c]]

(* handle_close_, up to the callbacks. *)
Closed(cs, c) == [cs EXCEPT ![c].status = "DISCONNECTED", ![c].channel = "off"]

(* destroy_connect. *)
Destroyed(cs, c) ==
  [cs EXCEPT ![c].status = IF @ = "CONNECTED" THEN "DISCONNECTING" ELSE @,
             ![c].channel = "removed"]

(* Channel::remove asserts that no event is enabled; a connected connection
   disables them first. *)
RemovesEnabledChannel(c) == conn[c].status # "CONNECTED" /\ conn[c].channel = "on"

-------------------------------------------------------------------------------
(* Accepting.                                                                *)

(* next_++; if (loops_.size() <= next_) next_ = 0; *)
Advanced == IF loops_ <= next_ + 1 THEN 0 ELSE next_ + 1

(* get_loop: the base loop when there is no other, else the next one. *)
NextLoop == IF loops_ = 0 THEN Base ELSE next_ + 1

(* Acceptor::handle_read_ gets a descriptor.  An accept that fails changes
   nothing: the branch for EMFILE is not reached, because SocketServer::accept
   calls setnonblocking on the failed descriptor first and that sets errno. *)
Accepts == HandlesEvents(Base) /\ listening_

(* new_connection: choose the loop, enter the map, run build_connect there, at
   once on the base loop and through the queue elsewhere. *)
NewConnection ==
  /\ Accepts
  /\ next_id \in Conns
  /\ LET c == next_id
         l == NextLoop
         cs == [conn EXCEPT ![c] = [loop |-> l, status |-> "CONNECTING", channel |-> "none"]]
     IN /\ next_id' = next_id + 1
        /\ next_' = IF loops_ = 0 THEN next_ ELSE Advanced
        /\ connection_' = connection_ \cup {c}
        /\ \/ /\ l = Base
              /\ conn' = Built(cs, c)
              /\ wheel' = Inserted(wheel, c)
              /\ UNCHANGED pending
           \/ /\ l # Base
              /\ conn' = cs
              /\ pending' = Queue(pending, l, Functor("build_connect", c))
              /\ UNCHANGED wheel
  /\ UNCHANGED <<num_threads_, loops_, listening_, functors, ran, held, peer, idle,
                 stale, failed>>

-------------------------------------------------------------------------------
(* Events of the connections' channels, and the timer of the wheel.          *)

CanHandle(c) == /\ conn[c].channel = "on"
                /\ HandlesEvents(conn[c].loop)

(* handle_read_ with data calls message_cb, which locks the entry.  When the
   entry is gone message_cb does nothing that is modelled here. *)
MessageLocks(c) ==
  /\ CanHandle(c)
  /\ peer[c] = "open"
  /\ \E b \in 1..Buckets : c \in wheel[b]
  /\ held' = [held EXCEPT ![conn[c].loop] = c]
  /\ UNCHANGED <<serverVars, connection_, conn, queueVars, wheel, peer, idle, stale, failed>>

(* The rest of message_cb: the entry goes to the newest bucket, the request is
   answered. *)
MessageInserts(l) ==
  /\ held[l] # NoConn
  /\ wheel' = Inserted(wheel, held[l])
  /\ idle' = [idle EXCEPT ![held[l]] = 0]
  /\ held' = [held EXCEPT ![l] = NoConn]
  /\ UNCHANGED <<serverVars, connection_, conn, queueVars, peer, stale, failed>>

(* The peer closes its end; a bound is not needed, it happens once. *)
PeerCloses(c) ==
  /\ c < next_id
  /\ peer[c] = "open"
  /\ peer' = [peer EXCEPT ![c] = "closed"]
  /\ UNCHANGED <<serverVars, connection_, conn, queueVars, wheel, held, idle, stale, failed>>

(* Fault: the name stays in the map. *)
Erased_Kept(c) == connection_

(* connection_.erase(conn->get_name()). *)
Erased(c) == connection_ \ {c}

(* handle_read_ of zero bytes: handle_close_, then remove_connection, which on
   the base loop erases and destroys at once and elsewhere asks the base loop. *)
HandleClose(c) ==
  /\ CanHandle(c)
  /\ peer[c] = "closed"
  /\ \/ /\ conn[c].loop = Base
        /\ conn' = Destroyed(Closed(conn, c), c)
        /\ connection_' = Erased(c)
        /\ failed' = (failed \/ c \notin connection_)
        /\ UNCHANGED pending
     \/ /\ conn[c].loop # Base
        /\ conn' = Closed(conn, c)
        /\ pending' = Queue(pending, Base, Functor("remove_connection_in_loop", c))
        /\ UNCHANGED <<connection_, failed>>
  /\ UNCHANGED <<serverVars, functors, ran, wheel, held, peer, idle, stale>>

(* Entries whose last shared_ptr is in the bucket that ontime drops. *)
Dropped == (wheel[1] \ UNION {wheel[b] : b \in 2..Buckets}) \ {held[l] : l \in Loops}

(* Entries that find their connection when they die (weakConn_.lock()). *)
Expired == {c \in Dropped : Alive(c)}

(* The shutdowns that the dying entries send to loop l. *)
Shutdowns(l) ==
  SetToSeq({Functor("shutdown_in_loop_", c) : c \in {d \in Expired : conn[d].loop = l}})

(* ontime, every second on the base loop: push an empty bucket, drop the oldest
   one, and with it the entries that are in no other; ~Entry calls shutdown. *)
Tick ==
  /\ HandlesEvents(Base)
  /\ wheel' = [b \in 1..Buckets |-> IF b = Buckets THEN {} ELSE wheel[b + 1]]
  /\ idle' = [c \in Conns |-> IF c < next_id /\ idle[c] < Buckets THEN idle[c] + 1 ELSE idle[c]]
  /\ conn' = Shut(conn, {c \in Expired : conn[c].loop = Base})
  /\ pending' = [l \in Loops |-> IF l = Base THEN pending[l] ELSE pending[l] \o Shutdowns(l)]
  /\ UNCHANGED <<serverVars, connection_, functors, ran, held, peer, stale, failed>>

-------------------------------------------------------------------------------
(* dopending_func of loop l.                                                 *)

(* functors.swap(pending_func_). *)
SwapBatch(l) ==
  /\ HandlesEvents(l)
  /\ pending[l] # <<>>
  /\ functors' = [functors EXCEPT ![l] = pending[l]]
  /\ pending' = [pending EXCEPT ![l] = <<>>]
  /\ UNCHANGED <<serverVars, connection_, conn, ran, wheel, held, peer, idle, stale, failed>>

Runs(l, f, c) ==
  /\ ran[l] < Len(functors[l])
  /\ functors[l][ran[l] + 1] = Functor(f, c)
  /\ ran' = [ran EXCEPT ![l] = @ + 1]
  /\ UNCHANGED <<serverVars, functors, held, peer>>

(* build_connect and connection_cb. *)
RunBuild(l, c) ==
  /\ Runs(l, "build_connect", c)
  /\ failed' = (failed \/ conn[c].status # "CONNECTING")
  /\ conn' = Built(conn, c)
  /\ wheel' = Inserted(wheel, c)
  /\ idle' = [idle EXCEPT ![c] = 0]
  /\ UNCHANGED <<connection_, pending, stale>>

(* Fault: the connection is erased and never destroyed on its loop. *)
RunRemove_NoDestroy(l, c) ==
  /\ Runs(l, "remove_connection_in_loop", c)
  /\ failed' = (failed \/ c \notin connection_)
  /\ connection_' = Erased(c)
  /\ UNCHANGED <<conn, pending, wheel, idle, stale>>

(* remove_connection_in_loop: erase, assert(n == 1), and hand destroy_connect
   to the connection's loop. *)
RunRemove(l, c) ==
  /\ Runs(l, "remove_connection_in_loop", c)
  /\ failed' = (failed \/ c \notin connection_)
  /\ connection_' = Erased(c)
  /\ pending' = Queue(pending, conn[c].loop, Functor("destroy_connect", c))
  /\ UNCHANGED <<conn, wheel, idle, stale>>

(* destroy_connect. *)
RunDestroy(l, c) ==
  /\ Runs(l, "destroy_connect", c)
  /\ failed' = (failed \/ RemovesEnabledChannel(c))
  /\ conn' = Destroyed(conn, c)
  /\ UNCHANGED <<connection_, pending, wheel, idle, stale>>

(* shutdown_in_loop_ through the raw this.  On a freed object the status read
   is that of a dead object, or of the connection that now has the memory. *)
RunShutdown(l, c) ==
  /\ Runs(l, "shutdown_in_loop_", c)
  /\ \/ /\ Alive(c)
        /\ conn' = Shut(conn, {c})
        /\ UNCHANGED stale
     \/ /\ ~Alive(c)
        /\ stale' = TRUE
        /\ \E C \in {{}} \cup {{d} : d \in {d \in Conns : d > c /\ d < next_id}} :
              conn' = Shut(conn, C)
  /\ UNCHANGED <<connection_, pending, wheel, idle, failed>>

(* The local vector goes out of scope and drops its references. *)
EndBatch(l) ==
  /\ functors[l] # <<>> /\ ran[l] = Len(functors[l])
  /\ functors' = [functors EXCEPT ![l] = <<>>]
  /\ ran' = [ran EXCEPT ![l] = 0]
  /\ UNCHANGED <<serverVars, connection_, conn, pending, wheel, held, peer, idle, stale, failed>>

LoopStep(l) ==
  \/ MessageInserts(l)
  \/ SwapBatch(l)
  \/ EndBatch(l)
  \/ \E c \in Conns : RunBuild(l, c) \/ RunRemove(l, c) \/ RunDestroy(l, c) \/ RunShutdown(l, c)

Next ==
  \/ \E n \in 0..MaxThreads : SetThreadNum(n)
  \/ Start
  \/ NewConnection
  \/ Tick
  \/ \E c \in Conns : MessageLocks(c) \/ PeerCloses(c) \/ HandleClose(c)
  \/ \E l \in Loops : LoopStep(l)

(* A loop that has something to run runs it.  epoll is level triggered: an
   end-of-file that is reported again and again is handled. *)
Fairness ==
  /\ \A l \in Loops : WF_vars(LoopStep(l)) /\ SF_vars(SwapBatch(l))
  /\ \A c \in Conns : SF_vars(HandleClose(c))

Spec == Init /\ [][Next]_vars
FairSpec == Spec /\ Fairness

-------------------------------------------------------------------------------

(* No assertion of the server or of a destroyed connection fails: every name
   erased is in the map exactly then (assert(n == 1), tcpserver.cc:86),
   build_connect finds CONNECTING, Channel::remove finds no enabled event, and
   when the last shared_ptr goes, whichever thread held it, the connection is
   DISCONNECTED (tcpconnection.cc:60) and its channel is out of its loop. *)
AssertionsHold ==
  /\ ~failed
  /\ \A c \in Conns : Freed(c) => /\ conn[c].status = "DISCONNECTED"
                                  /\ conn[c].channel = "removed"

(* The idle wheel shuts exactly the idle connections, as long as no shutdown
   has run on a freed object: a connection whose entry was last inserted three
   ticks ago is shut or has a shutdown on its way or a request in progress, and
   none is shut earlier (httpserver.h:46, entry.h:20-27). *)
ShutdownIffIdle ==
  stale \/ \A c \in Conns :
    /\ conn[c].status = "DISCONNECTING" => idle[c] = Buckets
    /\ conn[c].status = "CONNECTED" /\ idle[c] = Buckets =>
         \/ held[conn[c].loop] = c
         \/ Functor("shutdown_in_loop_", c) \in Waiting(conn[c].loop)

(* A connection whose peer has closed is freed: the close event, the removal on
   the base loop and the destruction on the connection's loop all happen, and
   no reference is left behind (tcpserver.cc:75-90). *)
ClosedIsFreed == \A c \in Conns : peer[c] = "closed" ~> ~Alive(c)
===============================================================================
