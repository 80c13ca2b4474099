----------------------------- MODULE TcpConnection -----------------------------
(***************************************************************************)
(* TcpConnection (src/server/tcpconnection.cc): one connection, the loop   *)
(* thread that serves it, the application's callbacks, other threads that  *)
(* call its public operations, the kernel's socket and the peer.           *)
(*                                                                         *)
(* One step of the loop thread is one callback of handle_event_guard_, one *)
(* functor, or one call made by an application callback.  The loop may     *)
(* take a queued functor or a ready event in any order, which is more than *)
(* the batches of EventLoop allow.  A byte of message m is <<m, i>>.       *)
(***************************************************************************)
EXTENDS Naturals, Sequences, Channel

CONSTANTS LoopOps,     \* operations the application calls on the loop thread
          ForeignOps,  \* operations other threads call
          MsgLen,      \* bytes of a message passed to send
          HighWater,   \* high_water_mark_
          MaxCalls,    \* bound on the calls of the public operations
          MaxMixed,    \* the same, once one is neither send nor shutdown
          MaxRecv      \* bound on the messages the peer sends

Ops == {"send", "shutdown", "force_close", "start_read", "stop_read"}

ASSUME OpsAssumption == LoopOps \subseteq Ops /\ ForeignOps \subseteq Ops
ASSUME BoundsAssumption == /\ {MsgLen, HighWater} \subseteq Nat \ {0}
                           /\ {MaxCalls, MaxMixed, MaxRecv} \subseteq Nat
                           /\ MaxMixed <= MaxCalls

VARIABLES status_, reading_,
          channel_,        \* a channel of module Channel
          output_buffer_,
          pc,              \* what the loop thread is doing
          todo,            \* callbacks of handle_event_guard_ still to be made
          pending,         \* functors queued on the loop for this connection
          single,          \* TRUE iff the server's base loop is this loop
          checked,         \* foreign calls between their test of status_ and what
                           \* follows: m for the m-th call, a send; 0 for force_close
          removal,         \* the server's part in taking the connection down
          fin,             \* shutdown_write has been called
          wire,            \* bytes the kernel accepted, in order
          inbox,           \* messages from the peer not read yet
          received,        \* messages the peer has sent
          peer,            \* "open", "closed" (FIN received), "reset"
          sockErr,         \* a pending socket error
          calls,           \* public operations called so far
          used,            \* history: which ones, and "~TcpServer"
          accepted,        \* history: bytes send_in_loop_ did not give up
          ups, downs,      \* history: calls of connection_cb_
          failed           \* an assertion of TcpConnection failed

connVars == <<status_, reading_, channel_, output_buffer_>>
netVars == <<inbox, received, peer, sockErr>>
callVars == <<single, calls, used>>
histVars == <<accepted, ups, downs>>
vars == <<status_, reading_, channel_, output_buffer_, pc, todo, pending, single,
          checked, removal, fin, wire, inbox, received, peer, sockErr, calls, used,
          accepted, ups, downs, failed>>

Statuses == {"DISCONNECTED", "CONNECTING", "CONNECTED", "DISCONNECTING"}

(* "loop" between callbacks; "app" in message_cb_, write_complete_cb_ or
   high_water_mark_cb_; "up", "down" and "gone" in the connection_cb_ of
   build_connect, handle_close_ and destroy_connect. *)
LoopStates == {"loop", "app", "up", "down", "gone"}
Handlers == {"close", "error", "read", "write"}
Functors == {"build_connect", "destroy_connect", "force_close_in_loop_",
             "write_complete_cb_", "high_water_mark_cb_", "shutdown_in_loop_",
             "start_read_in_loop_", "stop_read_in_loop_", "send_in_loop_"}
Bytes == (1..MaxCalls) \X (1..MsgLen)

(* The bytes of the m-th call of send. *)
Message(m) == [i \in 1..MsgLen |-> <<m, i>>]
Functor(f) == [f |-> f, m |-> 0]

TypeOK ==
  /\ status_ \in Statuses
  /\ reading_ \in BOOLEAN
  /\ channel_ \in ChannelStates
  /\ output_buffer_ \in Seq(Bytes) /\ wire \in Seq(Bytes) /\ accepted \in Seq(Bytes)
  /\ pc \in LoopStates
  /\ todo \in SUBSET Handlers
  /\ pending \in Seq([f : Functors, m : 0..MaxCalls])
  /\ checked \subseteq 0..MaxCalls
  /\ {single, fin, sockErr, failed} \subseteq BOOLEAN
  /\ removal \in {"none", "base", "queued", "done"}
  /\ inbox \in 0..MaxRecv /\ received \in 0..MaxRecv
  /\ peer \in {"open", "closed", "reset"}
  /\ calls \in 0..MaxCalls
  /\ used \subseteq Ops \cup {"~TcpServer"}
  /\ ups \in 0..1 /\ downs \in Nat

(* TcpServer::new_connection has built the object and handed build_connect to
   the connection's loop. *)
Init ==
  /\ status_ = "CONNECTING"
  /\ reading_ = TRUE
  /\ channel_ = NewChannel
  /\ output_buffer_ = <<>> /\ wire = <<>> /\ accepted = <<>>
  /\ pc = "loop"
  /\ todo = {}
  /\ pending = <<Functor("build_connect")>>
  /\ checked = {}
  /\ fin = FALSE /\ sockErr = FALSE
  /\ removal = "none"
  /\ inbox = 0 /\ received = 0
  /\ peer = "open"
  /\ single \in BOOLEAN
  /\ calls = 0
  /\ used = {}
  /\ failed = FALSE
  /\ ups = 0 /\ downs = 0

-------------------------------------------------------------------------------
(* The operations that run on the loop thread.  q is the functor queue they    *)
(* append to: pending, or its tail when they run as its first functor.        *)

(* What ::send may do with len bytes: take some (none is EWOULDBLOCK), or fail.
   A socket shut for writing or reset fails with EPIPE or ECONNRESET; a reset
   connection may also report another error, which the code does not tell from
   EWOULDBLOCK. *)
SendOutcomes(len) ==
  IF fin \/ peer = "reset"
    THEN {[n |-> 0, fault |-> TRUE]}
           \cup (IF peer = "reset" THEN {[n |-> 0, fault |-> FALSE]} ELSE {})
    ELSE {[n |-> k, fault |-> FALSE] : k \in 0..len}

(* Fault: send straight away even when earlier bytes are waiting. *)
SendsDirectly_Always == TRUE

(* if (!channel_->is_writing() && output_buffer_.read_able_bytes() == 0) *)
SendsDirectly == ~is_writing(channel_) /\ output_buffer_ = <<>>

(* old_len + remaining >= high_water_mark_ && old_len < high_water_mark_ *)
CrossesMark(old, new) == new >= HighWater /\ old < HighWater

(* Fault: the channel is not armed for what stays in the buffer. *)
ArmWriting_Never(c) == c

(* if (!channel_->is_writing()) channel_->enable_writing(); *)
ArmWriting(c) == IF is_writing(c) THEN c ELSE enable_writing(c)

SendInLoop(m, q) ==
  IF status_ = "DISCONNECTED"
    THEN pending' = q /\ UNCHANGED <<output_buffer_, channel_, wire, accepted>>
    ELSE \E o \in IF SendsDirectly THEN SendOutcomes(MsgLen)
                                   ELSE {[n |-> 0, fault |-> FALSE]} :
           LET rest == SubSeq(Message(m), o.n + 1, MsgLen)
               keep == ~o.fault /\ rest # <<>>
               new == IF keep THEN output_buffer_ \o rest ELSE output_buffer_
               crosses == keep /\ CrossesMark(Len(output_buffer_), Len(new))
           IN /\ wire' = wire \o SubSeq(Message(m), 1, o.n)
              /\ output_buffer_' = new
              /\ channel_' = IF keep THEN ArmWriting(channel_) ELSE channel_
              /\ accepted' = IF o.fault THEN accepted ELSE accepted \o Message(m)
              /\ pending' = q
                   \o (IF rest = <<>> THEN <<Functor("write_complete_cb_")>> ELSE <<>>)
                   \o (IF crosses THEN <<Functor("high_water_mark_cb_")>> ELSE <<>>)

(* Fault: FIN is sent without looking at the output buffer. *)
ShutsWrite_Always(s, c) == s = "CONNECTED"

(* shutdown_in_loop_ calls shutdown_write at once iff nothing is being written. *)
ShutsWrite(s, c) == s = "CONNECTED" /\ ~is_writing(c)

ShutdownInLoop ==
  /\ status_' = IF status_ = "CONNECTED" THEN "DISCONNECTING" ELSE status_
  /\ fin' = (fin \/ ShutsWrite(status_, channel_))

StartReadInLoop ==
  IF ~reading_ \/ ~is_reading(channel_)
    THEN channel_' = enable_reading(channel_) /\ reading_' = TRUE
    ELSE UNCHANGED <<channel_, reading_>>

StopReadInLoop ==
  IF reading_ \/ is_reading(channel_)
    THEN channel_' = disable_reading(channel_) /\ reading_' = FALSE
    ELSE UNCHANGED <<channel_, reading_>>

(* Fault: the status is left DISCONNECTING. *)
HandleClose_KeepStatus ==
  /\ status_' = "DISCONNECTING"
  /\ channel_' = disable_all(channel_)
  /\ pc' = "down"
  /\ downs' = downs + 1
  /\ UNCHANGED failed

(* handle_close_ up to its connection_cb_; close_cb_ follows in AppReturns. *)
HandleClose ==
  IF status_ \in {"CONNECTED", "DISCONNECTING"}
    THEN /\ status_' = "DISCONNECTED"
         /\ channel_' = disable_all(channel_)
         /\ pc' = "down"
         /\ downs' = downs + 1
         /\ UNCHANGED failed
    ELSE /\ failed' = TRUE
         /\ UNCHANGED <<status_, channel_, pc, downs>>

(* Fault: destroy_connect runs connection_cb_ whatever the state. *)
MustNotify_Always == TRUE

(* destroy_connect: an established connection is told first. *)
MustNotify == status_ = "CONNECTED"

DestroyConnect ==
  IF MustNotify
    THEN /\ status_' = "DISCONNECTING"
         /\ channel_' = disable_all(channel_)
         /\ pc' = "gone"
         /\ downs' = downs + 1
         /\ UNCHANGED removal
    ELSE /\ channel_' = remove(channel_)
         /\ removal' = "done"
         /\ pc' = "loop"
         /\ UNCHANGED <<status_, downs>>

-------------------------------------------------------------------------------
(* Events: poll, and then the callbacks of handle_event_guard_ in order.      *)

Idle == pc = "loop" /\ todo = {}

(* What epoll_wait reports: IN and OUT only when asked for, HUP and ERR always.
   HUP with no IN is the closing case of handle_event_guard_. *)
Readable == "read" \in channel_.interest /\ (inbox > 0 \/ peer # "open")
Hup == peer = "reset" \/ (peer = "closed" /\ fin)

Poll ==
  /\ Idle
  /\ channel_.registered
  /\ \E writable \in BOOLEAN :
       LET out == "write" \in channel_.interest /\ (writable \/ peer = "reset")
           ready == (IF Hup /\ ~Readable THEN {"close"} ELSE {})
                      \cup (IF sockErr THEN {"error"} ELSE {})
                      \cup (IF Readable THEN {"read"} ELSE {})
                      \cup (IF out THEN {"write"} ELSE {})
       IN ready # {} /\ todo' = ready
  /\ UNCHANGED <<connVars, pc, pending, checked, removal, fin, wire, netVars,
                 callVars, histVars, failed>>

(* The next callback of handle_event_guard_ is h. *)
Dispatch(h) ==
  /\ pc = "loop"
  /\ h \in todo
  /\ h = "error" => "close" \notin todo
  /\ h = "read" => todo \cap {"close", "error"} = {}
  /\ h = "write" => todo = {"write"}
  /\ todo' = todo \ {h}

CloseEvent ==
  /\ Dispatch("close")
  /\ HandleClose
  /\ UNCHANGED <<reading_, output_buffer_, pending, checked, removal, fin, wire,
                 netVars, callVars, accepted, ups>>

(* handle_error_: getsockopt(SO_ERROR) clears the pending error. *)
ErrorEvent ==
  /\ Dispatch("error")
  /\ sockErr' = FALSE
  /\ UNCHANGED <<connVars, pc, pending, checked, removal, fin, wire, inbox,
                 received, peer, callVars, histVars, failed>>

(* handle_read_, n > 0: message_cb_ with everything that has arrived. *)
ReadMessage ==
  /\ Dispatch("read")
  /\ ~sockErr /\ inbox > 0 /\ peer # "reset"
  /\ inbox' = 0
  /\ pc' = "app"
  /\ UNCHANGED <<connVars, pending, checked, removal, fin, wire, received, peer,
                 sockErr, callVars, histVars, failed>>

(* Fault: end of file is taken for an empty read. *)
ReadEof_Ignored ==
  /\ Dispatch("read")
  /\ ~sockErr /\ (inbox = 0 \/ peer = "reset")
  /\ UNCHANGED <<connVars, pc, pending, checked, removal, fin, wire, netVars,
                 callVars, histVars, failed>>

(* handle_read_, n == 0: the peer has closed, or the error was already taken. *)
ReadEof ==
  /\ Dispatch("read")
  /\ ~sockErr /\ (inbox = 0 \/ peer = "reset")
  /\ HandleClose
  /\ UNCHANGED <<reading_, output_buffer_, pending, checked, removal, fin, wire,
                 netVars, callVars, accepted, ups>>

(* handle_read_, n < 0: the error is reported, and only logged. *)
ReadError ==
  /\ Dispatch("read")
  /\ sockErr
  /\ sockErr' = FALSE
  /\ UNCHANGED <<connVars, pc, pending, checked, removal, fin, wire, inbox,
                 received, peer, callVars, histVars, failed>>

(* handle_write_: write what the kernel takes; when the buffer is empty, stop
   writing, queue write_complete_cb_ and, when closing, shutdown_in_loop_. *)
WriteEvent ==
  /\ Dispatch("write")
  /\ IF is_writing(channel_)
       THEN \E n \in IF peer = "reset" \/ fin THEN {0} ELSE 0..Len(output_buffer_) :
              LET left == SubSeq(output_buffer_, n + 1, Len(output_buffer_))
                  drained == n > 0 /\ left = <<>>
                  c == IF drained THEN disable_writing(channel_) ELSE channel_
              IN /\ wire' = wire \o SubSeq(output_buffer_, 1, n)
                 /\ output_buffer_' = left
                 /\ channel_' = c
                 /\ pending' = IF drained
                                 THEN Append(pending, Functor("write_complete_cb_"))
                                 ELSE pending
                 /\ fin' = (fin \/ (drained /\ status_ = "DISCONNECTING"
                                            /\ ShutsWrite(status_, c)))
       ELSE UNCHANGED <<wire, output_buffer_, channel_, pending, fin>>
  /\ UNCHANGED <<status_, reading_, pc, checked, removal, netVars, callVars,
                 accepted, ups, downs, failed>>

-------------------------------------------------------------------------------
(* Functors.                                                                  *)

(* The loop takes the first functor, which is f. *)
Takes(f) == Idle /\ pending # <<>> /\ Head(pending).f = f

RunBuildConnect ==
  /\ Takes("build_connect")
  /\ pending' = Tail(pending)
  /\ IF status_ = "CONNECTING"
       THEN /\ status_' = "CONNECTED"
            /\ channel_' = enable_reading(channel_)
            /\ pc' = "up"
            /\ ups' = ups + 1
            /\ UNCHANGED failed
       ELSE failed' = TRUE /\ UNCHANGED <<status_, channel_, pc, ups>>
  /\ UNCHANGED <<reading_, output_buffer_, todo, checked, removal, fin, wire,
                 netVars, callVars, accepted, downs>>

RunDestroyConnect ==
  /\ Takes("destroy_connect")
  /\ pending' = Tail(pending)
  /\ DestroyConnect
  /\ UNCHANGED <<reading_, output_buffer_, todo, checked, fin, wire, netVars,
                 callVars, accepted, ups, failed>>

RunSend ==
  /\ Takes("send_in_loop_")
  /\ SendInLoop(Head(pending).m, Tail(pending))
  /\ UNCHANGED <<status_, reading_, pc, todo, checked, removal, fin, netVars,
                 callVars, ups, downs, failed>>

RunShutdown ==
  /\ Takes("shutdown_in_loop_")
  /\ pending' = Tail(pending)
  /\ ShutdownInLoop
  /\ UNCHANGED <<reading_, channel_, output_buffer_, pc, todo, checked, removal,
                 wire, netVars, callVars, histVars, failed>>

(* status_ == CONNECTED && status_ == CONNECTING never holds: nothing happens. *)
RunForceClose ==
  /\ Takes("force_close_in_loop_")
  /\ pending' = Tail(pending)
  /\ UNCHANGED <<connVars, pc, todo, checked, removal, fin, wire, netVars, callVars,
                 histVars, failed>>

RunReadSwitch ==
  /\ \/ Takes("start_read_in_loop_") /\ StartReadInLoop
     \/ Takes("stop_read_in_loop_") /\ StopReadInLoop
  /\ pending' = Tail(pending)
  /\ UNCHANGED <<status_, output_buffer_, pc, todo, checked, removal, fin, wire,
                 netVars, callVars, histVars, failed>>

RunCallback ==
  /\ Takes("write_complete_cb_") \/ Takes("high_water_mark_cb_")
  /\ pending' = Tail(pending)
  /\ pc' = "app"
  /\ UNCHANGED <<connVars, todo, checked, removal, fin, wire, netVars, callVars,
                 histVars, failed>>

(* A callback returns.  After the one of handle_close_ comes close_cb_:
   TcpServer::remove_connection, which on the base loop runs destroy_connect in
   place and elsewhere passes by the base loop.  After the one of
   destroy_connect comes Channel::remove. *)
AppReturns ==
  /\ pc \in {"app", "up", "down", "gone"}
  /\ CASE pc = "down" /\ single /\ removal = "none" -> DestroyConnect
       [] pc = "down" /\ ~single /\ removal = "none" ->
            /\ removal' = "base"
            /\ pc' = "loop"
            /\ UNCHANGED <<status_, channel_, downs>>
       [] pc = "gone" -> /\ channel_' = remove(channel_)
                         /\ removal' = "done"
                         /\ pc' = "loop"
                         /\ UNCHANGED <<status_, downs>>
       [] OTHER -> pc' = "loop" /\ UNCHANGED <<status_, channel_, removal, downs>>
  /\ UNCHANGED <<reading_, output_buffer_, todo, pending, checked, fin, wire,
                 netVars, callVars, accepted, ups, failed>>

-------------------------------------------------------------------------------
(* The public operations.                                                     *)

Called(op) == /\ used' = used \cup {op}
              /\ calls < IF used' \subseteq {"send", "shutdown"} THEN MaxCalls ELSE MaxMixed
              /\ calls' = calls + 1
              /\ UNCHANGED single
LoopCalls(op) == op \in LoopOps /\ pc # "loop" /\ Called(op)
ForeignCalls(op) == op \in ForeignOps /\ removal # "done" /\ Called(op)

(* send on the loop thread: nothing unless CONNECTED, else send_in_loop_. *)
Send ==
  /\ LoopCalls("send")
  /\ IF status_ = "CONNECTED"
       THEN SendInLoop(calls + 1, pending)
       ELSE UNCHANGED <<output_buffer_, channel_, wire, accepted, pending>>
  /\ UNCHANGED <<status_, reading_, pc, todo, checked, removal, fin, netVars,
                 ups, downs, failed>>

(* send on another thread: the test of status_ ... *)
ForeignSend ==
  /\ ForeignCalls("send")
  /\ checked' = checked \cup IF status_ = "CONNECTED" THEN {calls + 1} ELSE {}
  /\ UNCHANGED <<connVars, pc, todo, pending, removal, fin, wire, netVars,
                 histVars, failed>>

(* ... and run_in_loop, later: of two threads either may be first. *)
ForeignSendQueues ==
  /\ \E m \in checked \ {0} :
       /\ checked' = checked \ {m}
       /\ pending' = Append(pending, [f |-> "send_in_loop_", m |-> m])
  /\ UNCHANGED <<connVars, pc, todo, removal, fin, wire, netVars, callVars,
                 histVars, failed>>

Shutdown ==
  /\ LoopCalls("shutdown")
  /\ ShutdownInLoop
  /\ UNCHANGED <<reading_, channel_, output_buffer_, pc, todo, pending, checked,
                 removal, wire, netVars, histVars, failed>>

(* start_read and stop_read on the loop thread. *)
ReadSwitch ==
  /\ \/ LoopCalls("start_read") /\ StartReadInLoop
     \/ LoopCalls("stop_read") /\ StopReadInLoop
  /\ UNCHANGED <<status_, output_buffer_, pc, todo, pending, checked, removal,
                 fin, wire, netVars, histVars, failed>>

(* shutdown, start_read and stop_read from another thread: run_in_loop queues. *)
ForeignQueues ==
  /\ \E op \in {"shutdown", "start_read", "stop_read"} :
       /\ ForeignCalls(op)
       /\ pending' = Append(pending,
            Functor(CASE op = "shutdown" -> "shutdown_in_loop_"
                      [] op = "start_read" -> "start_read_in_loop_"
                      [] op = "stop_read" -> "stop_read_in_loop_"))
  /\ UNCHANGED <<connVars, pc, todo, checked, removal, fin, wire, netVars,
                 histVars, failed>>

(* force_close on the loop thread: test, set and queue with nothing between. *)
ForceClose ==
  /\ LoopCalls("force_close")
  /\ IF status_ \in {"CONNECTED", "CONNECTING"}
       THEN /\ status_' = "DISCONNECTING"
            /\ pending' = Append(pending, Functor("force_close_in_loop_"))
       ELSE UNCHANGED <<status_, pending>>
  /\ UNCHANGED <<reading_, channel_, output_buffer_, pc, todo, checked, removal,
                 fin, wire, netVars, histVars, failed>>

(* force_close on another thread: the test of status_ ... *)
ForeignForceClose ==
  /\ ForeignCalls("force_close")
  /\ 0 \notin checked
  /\ checked' = checked \cup IF status_ \in {"CONNECTED", "CONNECTING"} THEN {0} ELSE {}
  /\ UNCHANGED <<connVars, pc, todo, pending, removal, fin, wire, netVars,
                 histVars, failed>>

(* ... and the assignment, with the functor, later. *)
ForeignForceCloseSets ==
  /\ 0 \in checked
  /\ checked' = checked \ {0}
  /\ status_' = "DISCONNECTING"
  /\ pending' = Append(pending, Functor("force_close_in_loop_"))
  /\ UNCHANGED <<reading_, channel_, output_buffer_, pc, todo, removal, fin, wire,
                 netVars, callVars, histVars, failed>>

-------------------------------------------------------------------------------
(* The server's base loop, and the peer.                                      *)

(* remove_connection_in_loop on the base loop sends destroy_connect back. *)
BaseRemoves ==
  /\ removal = "base"
  /\ removal' = "queued"
  /\ pending' = Append(pending, Functor("destroy_connect"))
  /\ UNCHANGED <<connVars, pc, todo, checked, fin, wire, netVars, callVars, histVars,
                 failed>>

(* ~TcpServer hands destroy_connect to the loop of a connection still mapped. *)
ServerDestroys ==
  /\ removal = "none"
  /\ removal' = "queued"
  /\ used' = used \cup {"~TcpServer"}
  /\ pending' = Append(pending, Functor("destroy_connect"))
  /\ UNCHANGED <<connVars, pc, todo, checked, fin, wire, netVars, single, calls, histVars,
                 failed>>

PeerSends ==
  /\ peer = "open" /\ received < MaxRecv
  /\ inbox' = inbox + 1
  /\ received' = received + 1
  /\ UNCHANGED <<connVars, pc, todo, pending, checked, removal, fin, wire, peer,
                 sockErr, callVars, histVars, failed>>

PeerCloses ==
  /\ peer = "open"
  /\ peer' = "closed"
  /\ UNCHANGED <<connVars, pc, todo, pending, checked, removal, fin, wire, inbox,
                 received, sockErr, callVars, histVars, failed>>

PeerResets ==
  /\ peer # "reset"
  /\ peer' = "reset"
  /\ sockErr' = TRUE
  /\ UNCHANGED <<connVars, pc, todo, pending, checked, removal, fin, wire, inbox,
                 received, callVars, histVars, failed>>

Healthy == ~failed /\ ~channel_.failed  \* a failed assertion ends the process

EventStep == CloseEvent \/ ErrorEvent \/ ReadMessage \/ ReadEof \/ ReadError \/ WriteEvent
FunctorStep == \/ RunBuildConnect \/ RunDestroyConnect \/ RunSend \/ RunShutdown
               \/ RunForceClose \/ RunReadSwitch \/ RunCallback
LoopStep == EventStep \/ FunctorStep \/ AppReturns
CallStep == \/ Send \/ ForeignSend \/ ForeignSendQueues \/ Shutdown \/ ReadSwitch
            \/ ForeignQueues \/ ForceClose \/ ForeignForceClose \/ ForeignForceCloseSets

Next ==
  /\ Healthy
  /\ LoopStep \/ Poll \/ CallStep \/ BaseRemoves \/ ServerDestroys
     \/ PeerSends \/ PeerCloses \/ PeerResets

Spec == Init /\ [][Next]_vars

-------------------------------------------------------------------------------
(* Properties.                                                                *)

(* The connection is used as HttpServer uses it: send and shutdown, from a
   callback or from another thread, on a server that is not destroyed. *)
BasicUse == used \subseteq {"send", "shutdown"}

(* No assertion of TcpConnection, Channel or Epoller fails in basic use, in
   whatever order the calls, the events and the functors come. *)
AssertionsHold == BasicUse => Healthy

(* No byte is lost, duplicated or overtaken between send_in_loop_ and the
   kernel: what was written, followed by what waits in output_buffer_, is what
   was accepted, in order (send_in_loop_ and handle_write_). *)
StreamIntegrity == wire \o output_buffer_ = accepted

(* Bytes wait in output_buffer_ exactly while the channel is armed for writing,
   for as long as the connection is not closed: neither are they forgotten, nor
   does the loop spin on a writable socket with nothing to write. *)
ArmedIffBuffered ==
  status_ \in {"CONNECTED", "DISCONNECTING"} /\ removal = "none" /\ downs = 0
    => (is_writing(channel_) <=> output_buffer_ # <<>>)

(* FIN never overtakes data: once shutdown_write has been called nothing is
   left to write, on a connection that has not been reset (shutdown_in_loop_). *)
FinAfterData == fin /\ peer # "reset" => output_buffer_ = <<>>

(* In basic use connection_cb_ announces the connection's end once, after its
   beginning, although handle_close_ and destroy_connect both make the call. *)
UpThenDownOnce == BasicUse => downs <= ups /\ downs <= 1

(* In basic use a destroyed connection is off the poller and in the state that
   ~Channel and ~TcpConnection assert (channel.cc:15, tcpconnection.cc:60). *)
DestroyedClean ==
  BasicUse /\ removal = "done" /\ Idle
    => ~channel_.added_to_loop_ /\ status_ = "DISCONNECTED"

(* The loop thread runs, the base loop runs, and a callback returns. *)
Fairness ==
  /\ WF_vars(Healthy /\ (LoopStep \/ Poll))
  /\ WF_vars(Healthy /\ BaseRemoves)

FairSpec == Spec /\ Fairness

(* In basic use, when the peer closes or resets, the connection is closed,
   removed from the server and destroyed. *)
PeerGoneIsDestroyed == (peer # "open") ~> (removal = "done" \/ ~BasicUse)
===============================================================================
