------------------------- MODULE TcpConnectionProofs ---------------------------
(***************************************************************************)
(* The six safety properties of TcpConnection, for every message length,   *)
(* high-water mark and bound on the calls.                                 *)
(***************************************************************************)
EXTENDS TcpConnection, SequenceTheorems, TLAPS

Callbacks == {"write_complete_cb_", "high_water_mark_cb_"}

(* What may be queued: send_in_loop_ comes with the bytes of a call. *)
QueuedFunctors == {e \in [f : Functors, m : 0..MaxCalls] : e.f = "send_in_loop_" => e.m # 0}

(* TypeOK, with what it takes to be inductive. *)
Typed ==
  /\ status_ \in Statuses /\ reading_ \in BOOLEAN /\ channel_ \in ChannelStates
  /\ output_buffer_ \in Seq(Bytes) /\ wire \in Seq(Bytes) /\ accepted \in Seq(Bytes)
  /\ pc \in LoopStates /\ todo \in SUBSET Handlers
  /\ pending \in Seq(QueuedFunctors)
  /\ single \in BOOLEAN /\ checked \subseteq 0..MaxCalls /\ fin \in BOOLEAN
  /\ sockErr \in BOOLEAN /\ failed \in BOOLEAN
  /\ removal \in {"none", "base", "queued", "done"}
  /\ inbox \in 0..MaxRecv /\ received \in 0..MaxRecv /\ inbox <= received
  /\ peer \in {"open", "closed", "reset"}
  /\ calls \in 0..MaxCalls /\ used \subseteq Ops \cup {"~TcpServer"}
  /\ ups \in 0..1 /\ downs \in Nat

(* build_connect is the first functor of the connection and runs once. *)
BuiltOnce == \A i \in 1..Len(pending) : pending[i].f = "build_connect" => i = 1 /\ ups = 0

(* Until it has run the loop thread does nothing else for this connection. *)
Unbuilt ==
  ups = 0 /\ ~failed =>
    /\ pending # <<>> /\ pending[1].f = "build_connect"
    /\ pc = "loop" /\ todo = {}
    /\ channel_ = NewChannel /\ output_buffer_ = <<>>
    /\ ~fin /\ downs = 0 /\ removal \in {"none", "queued"}

(* A connection is connected only between build_connect and its first end. *)
Established ==
  /\ status_ = "CONNECTED" => downs = 0 /\ removal # "done" /\ pc # "gone"
  /\ status_ = "CONNECTING" => ups = 0

(* The channel writes only what is there, and until the connection ends what is
   there is written; together they give ArmedIffBuffered. *)
WritingHasData == is_writing(channel_) => output_buffer_ # <<>>
DataIsWritten ==
  downs = 0 /\ removal # "done" /\ output_buffer_ # <<>> => is_writing(channel_)

(* The inductive invariant that holds in every use of the connection. *)
StreamInv ==
  /\ Typed
  /\ BuiltOnce /\ Unbuilt /\ Established
  /\ WritingHasData /\ DataIsWritten
  /\ StreamIntegrity
  /\ FinAfterData

(* Basic use: the functors that can be queued, and at most one of them takes the
   connection down. *)
BasicPending ==
  /\ \A i \in 1..Len(pending) :
       /\ pending[i].f \notin {"force_close_in_loop_", "start_read_in_loop_",
                               "stop_read_in_loop_"}
       /\ pending[i].f = "destroy_connect" => removal = "queued"
  /\ \A i, j \in 1..Len(pending) :
       pending[i].f = "destroy_connect" /\ pending[j].f = "destroy_connect" => i = j

(* Basic use: the channel goes once from new to added, deleted and new again, in
   step with the status of the connection. *)
BasicChannel ==
  /\ ~channel_.failed
  /\ status_ = "CONNECTING" => channel_ = NewChannel
  /\ status_ \in {"CONNECTED", "DISCONNECTING"} =>
       channel_.status = "ADD" /\ "read" \in channel_.events
  /\ status_ = "DISCONNECTED" /\ removal # "done" =>
       channel_.status = "DEL" /\ channel_.events = {} /\ ~channel_.registered
  /\ removal = "done" =>
       /\ channel_.status = "NEW" /\ channel_.events = {}
       /\ ~channel_.registered /\ ~channel_.added_to_loop_

(* Basic use: the life of the connection, and of the callbacks still to be made
   for the last poll. *)
BasicLife ==
  /\ ~failed /\ 0 \notin checked
  /\ pc # "gone"
  /\ pc = "down" => status_ = "DISCONNECTED" /\ removal = "none"
  /\ ups = 0 <=> status_ = "CONNECTING"
  /\ downs = IF status_ = "DISCONNECTED" THEN 1 ELSE 0
  /\ removal # "none" => status_ = "DISCONNECTED"
  /\ todo \cap {"close", "read"} # {} => status_ \in {"CONNECTED", "DISCONNECTING"}
  /\ ~({"close", "read"} \subseteq todo)

BasicInv == BasicUse => BasicPending /\ BasicChannel /\ BasicLife

-------------------------------------------------------------------------------
(* Operators.                                                                *)

(* The bounds are numbers. *)
LEMMA Bounds ==
  /\ MsgLen \in Nat \ {0} /\ HighWater \in Nat \ {0}
  /\ MaxCalls \in Nat /\ MaxMixed \in Nat /\ MaxRecv \in Nat
  /\ MaxMixed <= MaxCalls
  BY BoundsAssumption

(* Channel::update_ leaves the mask it is given, and keeps the channel's type. *)
LEMMA SetEventsType ==
  ASSUME NEW c \in ChannelStates, NEW es \in SUBSET Events
  PROVE  /\ SetEvents(c, es) \in ChannelStates
         /\ SetEvents(c, es).events = es
<1> DEFINE d == [c EXCEPT !.events = es, !.added_to_loop_ = TRUE]
<1>1. d \in ChannelStates /\ d.events = es
  BY DEF ChannelStates
<1>2. CtlSet(d) \in ChannelStates /\ CtlSet(d).events = es
  BY <1>1 DEF ChannelStates, CtlSet
<1>3. CtlDel(d) \in ChannelStates /\ CtlDel(d).events = es
  BY <1>1 DEF ChannelStates, CtlDel
<1>4. d.status \in {"NEW", "ADD", "DEL"}
  BY <1>1 DEF ChannelStates
<1>5. update_channel(d) \in ChannelStates /\ update_channel(d).events = es
  <2>1. CASE d.status = "NEW"
    BY <1>1, <1>2, <2>1 DEF update_channel, ChannelStates
  <2>2. CASE d.status = "DEL"
    BY <1>1, <1>2, <2>2 DEF update_channel, ChannelStates
  <2>3. CASE d.status = "ADD"
    BY <1>1, <1>2, <1>3, <2>3 DEF update_channel, ChannelStates
  <2> QED
    BY <1>4, <2>1, <2>2, <2>3
<1> QED
  BY <1>5 DEF SetEvents

(* The five changes of the mask: their type, and what they do to writing. *)
LEMMA MaskOps ==
  ASSUME NEW c \in ChannelStates
  PROVE  /\ enable_reading(c) \in ChannelStates
         /\ enable_reading(c).events = c.events \cup {"read"}
         /\ disable_reading(c) \in ChannelStates
         /\ disable_reading(c).events = c.events \ {"read"}
         /\ enable_writing(c) \in ChannelStates
         /\ enable_writing(c).events = c.events \cup {"write"}
         /\ disable_writing(c) \in ChannelStates
         /\ disable_writing(c).events = c.events \ {"write"}
         /\ disable_all(c) \in ChannelStates
         /\ disable_all(c).events = {}
<1>1. c.events \in SUBSET Events
  BY DEF ChannelStates
<1>2. /\ c.events \cup {"read"} \in SUBSET Events /\ c.events \ {"read"} \in SUBSET Events
      /\ c.events \cup {"write"} \in SUBSET Events /\ c.events \ {"write"} \in SUBSET Events
      /\ {} \in SUBSET Events
  BY <1>1 DEF Events
<1> QED
  BY <1>2, SetEventsType
     DEF enable_reading, disable_reading, enable_writing, disable_writing, disable_all

(* Channel::remove keeps the mask. *)
LEMMA RemoveType ==
  ASSUME NEW c \in ChannelStates
  PROVE  remove(c) \in ChannelStates /\ remove(c).events = c.events
  BY DEF ChannelStates, remove, CtlDel, is_none_event

(* The bytes of a message. *)
LEMMA MessageType ==
  ASSUME NEW m \in 1..MaxCalls
  PROVE  Message(m) \in Seq(Bytes) /\ Len(Message(m)) = MsgLen
  BY Bounds DEF Message, Bytes

(* Concatenation of byte strings is associative. *)
LEMMA ByteConcat ==
  ASSUME NEW s \in Seq(Bytes), NEW t \in Seq(Bytes), NEW u \in Seq(Bytes)
  PROVE  (s \o t) \o u = s \o (t \o u)
  BY ConcatAssociative

(* A sequence cut in two. *)
LEMMA Cut ==
  ASSUME NEW S, NEW s \in Seq(S), NEW n \in 0..Len(s)
  PROVE  /\ SubSeq(s, 1, n) \in Seq(S) /\ SubSeq(s, n + 1, Len(s)) \in Seq(S)
         /\ SubSeq(s, 1, n) \o SubSeq(s, n + 1, Len(s)) = s
         /\ SubSeq(s, n + 1, Len(s)) = <<>> <=> n = Len(s)
         /\ n = 0 => SubSeq(s, 1, n) = <<>> /\ SubSeq(s, n + 1, Len(s)) = s
<1> DEFINE a == SubSeq(s, 1, n)
           b == SubSeq(s, n + 1, Len(s))
<1>1. a \in Seq(S) /\ Len(a) = n /\ \A i \in 1..n : a[i] = s[i]
  OBVIOUS
<1>2. b \in Seq(S) /\ Len(b) = Len(s) - n /\ \A i \in 1..(Len(s) - n) : b[i] = s[n + i]
  OBVIOUS
<1>3. n = 0 => b = s
  BY SubSeqFull
<1> HIDE DEF a, b
<1>4. a \o b = s
  <2> DEFINE c == a \o b
  <2>1. /\ c \in Seq(S) /\ Len(c) = Len(a) + Len(b)
        /\ \A i \in 1..(Len(a) + Len(b)) : c[i] = IF i <= Len(a) THEN a[i] ELSE b[i - Len(a)]
    BY <1>1, <1>2, ConcatProperties
  <2> HIDE DEF c
  <2>0. Len(c) = Len(s)
    BY <1>1, <1>2, <2>1
  <2>2. ASSUME NEW i \in 1..Len(s) PROVE c[i] = s[i]
    <3>1. CASE i <= n
      BY <1>1, <1>2, <2>1, <3>1
    <3>2. CASE i > n
      <4>1. i - n \in 1..(Len(s) - n) /\ n + (i - n) = i
        BY <3>2
      <4>2. c[i] = b[i - n]
        BY <1>1, <1>2, <2>1, <3>2
      <4> QED
        BY <1>2, <4>1, <4>2
    <3> QED
      BY <3>1, <3>2
  <2>3. c = s
    BY <2>0, <2>1, <2>2, SeqEqual
  <2> QED
    BY <2>3 DEF c
<1>5. b = <<>> <=> n = Len(s)
  BY <1>2
<1>6. n = 0 => a = <<>>
  BY <1>1
<1> QED
  BY <1>1, <1>2, <1>3, <1>4, <1>5, <1>6 DEF a, b

-------------------------------------------------------------------------------
(* The functor queue.                                                        *)

(* The queue becomes q followed by functors whose names are in F. *)
Adds(q, F) ==
  /\ pending' \in Seq(QueuedFunctors)
  /\ Len(q) <= Len(pending')
  /\ \A i \in 1..Len(pending') :
       IF i <= Len(q) THEN pending'[i] = q[i] ELSE pending'[i].f \in F

(* The functors without bytes may be queued. *)
LEMMA FunctorType ==
  ASSUME NEW f \in Functors \ {"send_in_loop_"}
  PROVE  Functor(f) \in QueuedFunctors /\ Functor(f).f = f
  BY Bounds DEF Functor, QueuedFunctors

(* One functor is appended to q. *)
LEMMA AddsOne ==
  ASSUME NEW q \in Seq(QueuedFunctors), NEW e \in QueuedFunctors, pending' = Append(q, e)
  PROVE  Adds(q, {e.f}) /\ Len(pending') = Len(q) + 1
<1>1. /\ pending' \in Seq(QueuedFunctors) /\ Len(pending') = Len(q) + 1 /\ Len(q) \in Nat
      /\ \A i \in 1..Len(q) : pending'[i] = q[i]
      /\ pending'[Len(q) + 1] = e
  OBVIOUS
<1> QED
  BY <1>1 DEF Adds

(* Nothing is appended to q. *)
LEMMA AddsNone ==
  ASSUME NEW q \in Seq(QueuedFunctors), NEW F, pending' = q
  PROVE  Adds(q, F)
  BY DEF Adds

(* The queue without its first functor. *)
LEMMA TailQueue ==
  ASSUME Typed, pending # <<>>
  PROVE  /\ Tail(pending) \in Seq(QueuedFunctors)
         /\ Len(Tail(pending)) = Len(pending) - 1
         /\ \A i \in 1..(Len(pending) - 1) : Tail(pending)[i] = pending[i + 1]
         /\ Head(pending) = pending[1] /\ pending[1] \in QueuedFunctors
         /\ Len(pending) \in Nat \ {0}
  BY DEF Typed

-------------------------------------------------------------------------------
(* What send_in_loop_ and handle_write_ do to the stream.                    *)

(* The outcome of ::send: no more bytes than asked for, none with an error, and
   on a socket shut for writing an error unless the peer has reset. *)
LEMMA SendOutcome ==
  ASSUME Typed, NEW o \in IF SendsDirectly THEN SendOutcomes(MsgLen)
                                           ELSE {[n |-> 0, fault |-> FALSE]}
  PROVE  /\ o.n \in 0..MsgLen /\ o.fault \in BOOLEAN
         /\ o.fault => o.n = 0
         /\ ~SendsDirectly => o.n = 0
         /\ ~o.fault /\ SendsDirectly => ~fin \/ peer = "reset"
<1>1. CASE ~SendsDirectly
  <2>1. o = [n |-> 0, fault |-> FALSE]
    BY <1>1
  <2> QED
    BY <1>1, <2>1, Bounds
<1>2. CASE SendsDirectly /\ (fin \/ peer = "reset")
  <2>1. \/ o = [n |-> 0, fault |-> TRUE]
        \/ peer = "reset" /\ o = [n |-> 0, fault |-> FALSE]
    <3>1. o \in SendOutcomes(MsgLen)
      BY <1>2
    <3> QED
      BY <1>2, <3>1 DEF SendOutcomes
  <2>2. CASE o = [n |-> 0, fault |-> TRUE]
    BY <1>2, <2>2, Bounds
  <2>3. CASE peer = "reset" /\ o = [n |-> 0, fault |-> FALSE]
    BY <1>2, <2>3, Bounds
  <2> QED
    BY <2>1, <2>2, <2>3
<1>3. CASE SendsDirectly /\ ~(fin \/ peer = "reset")
  <2>1. PICK k \in 0..MsgLen : o = [n |-> k, fault |-> FALSE]
    <3>1. o \in SendOutcomes(MsgLen)
      BY <1>3
    <3> QED
      BY <1>3, <3>1 DEF SendOutcomes
  <2> QED
    BY <1>3, <2>1, Bounds
<1> QED
  BY <1>1, <1>2, <1>3

(* send_in_loop_ keeps the stream whole.  Either it leaves the buffer and the
   channel alone, or it leaves bytes in the buffer and the channel armed. *)
LEMMA SendEffect ==
  ASSUME Typed, StreamIntegrity, NEW m \in 1..MaxCalls, NEW q \in Seq(QueuedFunctors),
         SendInLoop(m, q)
  PROVE  /\ output_buffer_' \in Seq(Bytes) /\ wire' \in Seq(Bytes) /\ accepted' \in Seq(Bytes)
         /\ channel_' \in ChannelStates
         /\ Adds(q, Callbacks)
         /\ StreamIntegrity'
         /\ \/ UNCHANGED <<output_buffer_, channel_>>
            \/ /\ status_ # "DISCONNECTED"
               /\ output_buffer_' # <<>>
               /\ channel_' = ArmWriting(channel_) /\ is_writing(channel_')
               /\ SendsDirectly => ~fin \/ peer = "reset"
<1>0. /\ output_buffer_ \in Seq(Bytes) /\ wire \in Seq(Bytes) /\ accepted \in Seq(Bytes)
      /\ channel_ \in ChannelStates
  BY DEF Typed
<1>1. CASE status_ = "DISCONNECTED"
  <2>1. pending' = q /\ UNCHANGED <<output_buffer_, channel_, wire, accepted>>
    BY <1>1 DEF SendInLoop
  <2> QED
    BY <1>0, <2>1, AddsNone DEF StreamIntegrity
<1>2. CASE status_ # "DISCONNECTED"
  <2>1. PICK o \in IF SendsDirectly THEN SendOutcomes(MsgLen)
                                    ELSE {[n |-> 0, fault |-> FALSE]} :
          LET rest == SubSeq(Message(m), o.n + 1, MsgLen)
              keep == ~o.fault /\ rest # <<>>
              new == IF keep THEN output_buffer_ \o rest ELSE output_buffer_
              crosses == keep /\ CrossesMark(Len(output_buffer_), Len(new))
          IN /\ wire' = wire \o SubSeq(Message(m), 1, o.n)
             /\ output_buffer_' = new
             /\ channel_' = IF keep THEN ArmWriting(channel_) ELSE channel_
             /\ accepted' = IF o.fault THEN accepted ELSE accepted \o Message(m)
             /\ pending' = q
                  \o (IF rest = <<>> THEN <<Functor("write_complete_cb_")>> ELSE <<>>)
                  \o (IF crosses THEN <<Functor("high_water_mark_cb_")>> ELSE <<>>)
    BY <1>2, Zenon DEF SendInLoop
  <2> DEFINE M == Message(m)
             sent == SubSeq(M, 1, o.n)
             rest == SubSeq(M, o.n + 1, MsgLen)
             keep == ~o.fault /\ rest # <<>>
  <2>2. /\ o.n \in 0..MsgLen /\ o.fault \in BOOLEAN
        /\ o.fault => o.n = 0
        /\ ~SendsDirectly => o.n = 0
        /\ ~o.fault /\ SendsDirectly => ~fin \/ peer = "reset"
    BY SendOutcome, Zenon
  <2>3. M \in Seq(Bytes) /\ Len(M) = MsgLen
    BY MessageType
  <2>4. /\ sent \in Seq(Bytes) /\ rest \in Seq(Bytes) /\ sent \o rest = M
        /\ rest = <<>> <=> o.n = MsgLen
        /\ o.n = 0 => sent = <<>> /\ rest = M
    BY <2>2, <2>3, Cut, ZenonT(40)
  <2>5. /\ wire' = wire \o sent
        /\ output_buffer_' = IF keep THEN output_buffer_ \o rest ELSE output_buffer_
        /\ channel_' = IF keep THEN ArmWriting(channel_) ELSE channel_
        /\ accepted' = IF o.fault THEN accepted ELSE accepted \o M
    BY <2>1, Zenon
  <2>6. Adds(q, Callbacks)
    <3> DEFINE w == <<Functor("write_complete_cb_")>>
               h == <<Functor("high_water_mark_cb_")>>
    <3>1. /\ Functor("write_complete_cb_") \in QueuedFunctors
          /\ Functor("write_complete_cb_").f \in Callbacks
          /\ Functor("high_water_mark_cb_") \in QueuedFunctors
          /\ Functor("high_water_mark_cb_").f \in Callbacks
      BY FunctorType DEF Functors, Callbacks
    <3>2. /\ w \in Seq(QueuedFunctors) /\ Len(w) = 1 /\ w[1].f \in Callbacks
          /\ h \in Seq(QueuedFunctors) /\ Len(h) = 1 /\ h[1].f \in Callbacks
      BY <3>1
    <3> HIDE DEF w, h
    <3>3. PICK x \in {w, <<>>}, y \in {h, <<>>} : pending' = (q \o x) \o y
      BY <2>1 DEF w, h
    <3>4. /\ x \in Seq(QueuedFunctors) /\ Len(x) \in 0..1
          /\ \A i \in 1..Len(x) : x[i].f \in Callbacks
      <4>1. CASE x = w
        <5>0. Len(x) = 1
          BY <3>2, <4>1
        <5>1. \A i \in 1..Len(x) : i = 1
          BY ONLY <5>0
        <5> QED
          BY <3>2, <4>1, <5>1
      <4>2. CASE x = <<>>
        BY <4>2
      <4> QED
        BY <4>1, <4>2
    <3>5. /\ y \in Seq(QueuedFunctors) /\ Len(y) \in 0..1
          /\ \A i \in 1..Len(y) : y[i].f \in Callbacks
      <4>1. CASE y = h
        <5>0. Len(y) = 1
          BY <3>2, <4>1
        <5>1. \A i \in 1..Len(y) : i = 1
          BY ONLY <5>0
        <5> QED
          BY <3>2, <4>1, <5>1
      <4>2. CASE y = <<>>
        BY <4>2
      <4> QED
        BY <4>1, <4>2
    <3> DEFINE z == q \o x
    <3>6. /\ z \in Seq(QueuedFunctors) /\ Len(z) = Len(q) + Len(x)
          /\ \A i \in 1..(Len(q) + Len(x)) : z[i] = IF i <= Len(q) THEN q[i] ELSE x[i - Len(q)]
      BY <3>4, ConcatProperties
    <3> HIDE DEF z
    <3>7. /\ pending' \in Seq(QueuedFunctors) /\ Len(pending') = Len(z) + Len(y)
          /\ \A i \in 1..(Len(z) + Len(y)) :
               pending'[i] = IF i <= Len(z) THEN z[i] ELSE y[i - Len(z)]
      BY <3>3, <3>5, <3>6, ConcatProperties DEF z
    <3>8. Len(q) \in Nat /\ Len(z) \in Nat
      BY <3>6
    <3>9. ASSUME NEW i \in 1..Len(pending')
          PROVE  IF i <= Len(q) THEN pending'[i] = q[i] ELSE pending'[i].f \in Callbacks
      <4>1. CASE i <= Len(q)
        BY <3>4, <3>6, <3>7, <3>8, <4>1
      <4>2. CASE i > Len(q) /\ i <= Len(z)
        <5>1. i - Len(q) \in 1..Len(x) /\ pending'[i] = x[i - Len(q)]
          BY <3>4, <3>6, <3>7, <3>8, <4>2
        <5> QED
          BY <3>4, <3>8, <4>2, <5>1
      <4>3. CASE i > Len(q) /\ i > Len(z)
        <5>1. i - Len(z) \in 1..Len(y) /\ pending'[i] = y[i - Len(z)]
          BY <3>5, <3>7, <3>8, <4>3
        <5> QED
          BY <3>5, <3>8, <4>3, <5>1
      <4> QED
        BY <3>8, <4>1, <4>2, <4>3
    <3> QED
      BY <3>4, <3>5, <3>6, <3>7, <3>8, <3>9 DEF Adds
  <2> HIDE DEF M, sent, rest
  <2>7. ArmWriting(channel_) \in ChannelStates /\ is_writing(ArmWriting(channel_))
    BY <1>0, MaskOps DEF ArmWriting, is_writing
  <2>8. CASE o.fault
    <3>1. sent = <<>> /\ wire' = wire /\ UNCHANGED <<output_buffer_, channel_, accepted>>
      BY <1>0, <2>2, <2>4, <2>5, <2>8, ConcatEmptySeq
    <3> QED
      BY <1>0, <2>6, <3>1 DEF StreamIntegrity
  <2>9. CASE ~o.fault /\ rest = <<>>
    <3>1. SendsDirectly /\ sent = M
      <4>1. o.n # 0
        BY <2>4, <2>9, Bounds
      <4>2. sent = M
        BY <2>4, <2>9, ConcatEmptySeq
      <4> QED
        BY <2>2, <4>1, <4>2
    <3>2. output_buffer_ = <<>>
      BY <3>1 DEF SendsDirectly
    <3>3. /\ wire' = wire \o M /\ UNCHANGED <<output_buffer_, channel_>>
          /\ accepted' = accepted \o M
      BY <2>5, <2>9, <3>1
    <3>4. StreamIntegrity'
      BY <1>0, <2>3, <3>2, <3>3, ConcatEmptySeq, ConcatProperties DEF StreamIntegrity
    <3> QED
      BY <1>0, <2>3, <2>6, <3>3, <3>4, ConcatProperties
  <2>10. CASE ~o.fault /\ rest # <<>>
    <3>1. /\ wire' = wire \o sent /\ output_buffer_' = output_buffer_ \o rest
          /\ channel_' = ArmWriting(channel_) /\ accepted' = accepted \o M
      BY <2>5, <2>10
    <3>2. (wire \o sent) \o (output_buffer_ \o rest) = (wire \o output_buffer_) \o M
      <4>1. CASE o.n = 0
        <5>1. wire \o sent = wire /\ rest = M
          BY <1>0, <2>4, <4>1, ConcatEmptySeq
        <5>2. (wire \o output_buffer_) \o M = wire \o (output_buffer_ \o M)
          BY <1>0, <2>3, ByteConcat
        <5> QED
          BY <5>1, <5>2, Zenon
      <4>2. CASE o.n # 0
        <5>1. output_buffer_ = <<>>
          BY <2>2, <4>2 DEF SendsDirectly
        <5>2. output_buffer_ \o rest = rest /\ wire \o output_buffer_ = wire
          BY <1>0, <2>4, <5>1, ConcatEmptySeq
        <5>3. (wire \o sent) \o rest = wire \o (sent \o rest)
          BY <1>0, <2>4, ByteConcat
        <5> QED
          BY <2>4, <5>2, <5>3, Zenon
      <4> QED
        BY <4>1, <4>2
    <3>3. output_buffer_' # <<>>
      BY <1>0, <2>4, <2>10, <3>1, ConcatEqualIffEmpty
    <3>4. /\ output_buffer_' \in Seq(Bytes) /\ wire' \in Seq(Bytes) /\ accepted' \in Seq(Bytes)
      BY <1>0, <2>3, <2>4, <3>1, ConcatProperties
    <3>5. SendsDirectly => ~fin \/ peer = "reset"
      BY <2>2, <2>10
    <3> QED
      BY <1>2, <2>6, <2>7, <3>1, <3>2, <3>3, <3>4, <3>5 DEF StreamIntegrity
  <2> QED
    BY <2>2, <2>8, <2>9, <2>10
<1> QED
  BY <1>1, <1>2

(* handle_write_ keeps the stream whole.  It leaves things as they are, or bytes
   in the buffer and the channel armed, or neither. *)
LEMMA WriteEffect ==
  ASSUME Typed, StreamIntegrity, WriteEvent
  PROVE  /\ output_buffer_' \in Seq(Bytes) /\ wire' \in Seq(Bytes)
         /\ channel_' \in ChannelStates
         /\ Adds(pending, Callbacks)
         /\ fin' = fin
         /\ StreamIntegrity'
         /\ \/ UNCHANGED <<output_buffer_, channel_>>
            \/ is_writing(channel_) /\ output_buffer_' # <<>> /\ channel_' = channel_
            \/ /\ is_writing(channel_) /\ output_buffer_' = <<>>
               /\ channel_' = disable_writing(channel_) /\ ~is_writing(channel_')
<1>0. /\ output_buffer_ \in Seq(Bytes) /\ wire \in Seq(Bytes) /\ accepted \in Seq(Bytes)
      /\ channel_ \in ChannelStates /\ fin \in BOOLEAN /\ pending \in Seq(QueuedFunctors)
      /\ accepted' = accepted
  BY DEF Typed, WriteEvent
<1>1. CASE ~is_writing(channel_)
  <2>1. UNCHANGED <<wire, output_buffer_, channel_, pending, fin>>
    BY <1>1 DEF WriteEvent
  <2> QED
    BY <1>0, <2>1, AddsNone DEF StreamIntegrity
<1>2. CASE is_writing(channel_)
  <2>1. PICK n \in IF peer = "reset" \/ fin THEN {0} ELSE 0..Len(output_buffer_) :
          LET left == SubSeq(output_buffer_, n + 1, Len(output_buffer_))
              drained == n > 0 /\ left = <<>>
              c == IF drained THEN disable_writing(channel_) ELSE channel_
          IN /\ wire' = wire \o SubSeq(output_buffer_, 1, n)
             /\ output_buffer_' = left
             /\ channel_' = c
             /\ pending' = IF drained
                             THEN Append(pending, Functor("write_complete_cb_"))
                             ELSE pending
             /\ fin' = (fin \/ (drained /\ status_ = "DISCONNECTING"
                                        /\ ShutsWrite(status_, c)))
    BY <1>2, Zenon DEF WriteEvent
  <2>2. n \in 0..Len(output_buffer_)
    BY <1>0
  <2> DEFINE sent == SubSeq(output_buffer_, 1, n)
             left == SubSeq(output_buffer_, n + 1, Len(output_buffer_))
             drained == n > 0 /\ left = <<>>
  <2>3. /\ sent \in Seq(Bytes) /\ left \in Seq(Bytes) /\ sent \o left = output_buffer_
        /\ left = <<>> <=> n = Len(output_buffer_)
        /\ n = 0 => left = output_buffer_
    BY <1>0, <2>2, Cut
  <2>4. /\ wire' = wire \o sent /\ output_buffer_' = left
        /\ channel_' = IF drained THEN disable_writing(channel_) ELSE channel_
        /\ pending' = IF drained THEN Append(pending, Functor("write_complete_cb_"))
                                 ELSE pending
    BY <2>1, Zenon
  <2>5. fin' = fin
    BY <1>0, <2>1 DEF ShutsWrite
  <2>6. Adds(pending, Callbacks)
    <3>1. CASE drained
      <4>1. /\ Functor("write_complete_cb_") \in QueuedFunctors
            /\ Functor("write_complete_cb_").f \in Callbacks
        BY FunctorType DEF Functors, Callbacks
      <4>2. Adds(pending, {Functor("write_complete_cb_").f})
        BY <1>0, <2>4, <3>1, <4>1, AddsOne
      <4> QED
        BY <4>1, <4>2 DEF Adds
    <3>2. CASE ~drained
      BY <1>0, <2>4, <3>2, AddsNone
    <3> QED
      BY <3>1, <3>2
  <2> HIDE DEF sent, left
  <2>7. StreamIntegrity'
    <3>1. (wire \o sent) \o left = wire \o (sent \o left)
      BY <1>0, <2>3, ByteConcat
    <3>2. (wire \o sent) \o left = accepted
      BY <2>3, <3>1 DEF StreamIntegrity
    <3> QED
      BY <1>0, <2>4, <3>2, Zenon DEF StreamIntegrity
  <2>8. wire' \in Seq(Bytes) /\ output_buffer_' \in Seq(Bytes) /\ channel_' \in ChannelStates
    BY <1>0, <2>3, <2>4, ConcatProperties, MaskOps
  <2>9. CASE n = 0
    <3>1. UNCHANGED <<output_buffer_, channel_>>
      BY <2>3, <2>4, <2>9
    <3> QED
      BY <2>5, <2>6, <2>7, <2>8, <3>1
  <2>10. CASE n > 0 /\ left # <<>>
    BY <1>2, <2>4, <2>5, <2>6, <2>7, <2>8, <2>10
  <2>11. CASE n > 0 /\ left = <<>>
    <3>1. channel_' = disable_writing(channel_) /\ output_buffer_' = <<>>
      BY <2>4, <2>11
    <3>2. ~is_writing(channel_')
      BY <1>0, <3>1, MaskOps DEF is_writing
    <3> QED
      BY <1>2, <2>5, <2>6, <2>7, <2>8, <3>1, <3>2
  <2> QED
    BY <1>0, <2>2, <2>9, <2>10, <2>11
<1> QED
  BY <1>1, <1>2

-------------------------------------------------------------------------------
(* Type correctness.                                                         *)

(* Typed is stronger than the module's type invariant. *)
LEMMA TypedTypeOK == Typed => TypeOK
<1> SUFFICES ASSUME Typed PROVE TypeOK
  OBVIOUS
<1>1. QueuedFunctors \subseteq [f : Functors, m : 0..MaxCalls]
  BY DEF QueuedFunctors
<1>2. pending \in Seq([f : Functors, m : 0..MaxCalls])
  BY <1>1, SeqMonotonic DEF Typed
<1> QED
  BY <1>2 DEF Typed, TypeOK

(* A call of a public operation keeps the types of the calls' records. *)
LEMMA CalledType ==
  ASSUME Typed, NEW op \in Ops, Called(op)
  PROVE  /\ calls' \in 0..MaxCalls /\ used' \subseteq Ops \cup {"~TcpServer"}
         /\ single' = single /\ calls + 1 \in 1..MaxCalls
<1>1. calls \in 0..MaxCalls /\ MaxCalls \in Nat /\ MaxMixed \in Nat /\ MaxMixed <= MaxCalls
  BY Bounds DEF Typed
<1>2. calls < MaxCalls /\ calls' = calls + 1
  BY <1>1 DEF Called
<1>3. calls' \in 0..MaxCalls /\ calls + 1 \in 1..MaxCalls
  BY <1>1, <1>2
<1> QED
  BY <1>3 DEF Typed, Called

(* handle_close_ keeps the types, whether its assertion holds or not. *)
LEMMA HandleCloseType ==
  ASSUME Typed, HandleClose
  PROVE  /\ status_' \in Statuses /\ channel_' \in ChannelStates /\ pc' \in LoopStates
         /\ downs' \in Nat /\ failed' \in BOOLEAN
<1>0. disable_all(channel_) \in ChannelStates
  BY MaskOps DEF Typed
<1>1. CASE status_ \in {"CONNECTED", "DISCONNECTING"}
  BY <1>0, <1>1 DEF Typed, HandleClose, Statuses, LoopStates
<1>2. CASE status_ \notin {"CONNECTED", "DISCONNECTING"}
  <2>1. failed' = TRUE /\ UNCHANGED <<status_, channel_, pc, downs>>
    BY <1>2 DEF HandleClose
  <2>2. failed' \in BOOLEAN
    BY <2>1
  <2> QED
    BY <2>1, <2>2 DEF Typed
<1> QED
  BY <1>1, <1>2

(* The steps of the events keep the types. *)
LEMMA EventTyped ==
  ASSUME StreamInv, EventStep \/ Poll
  PROVE  Typed'
<1> USE DEF StreamInv
<1>1. CASE CloseEvent
  <2>1. HandleClose
    BY <1>1 DEF CloseEvent
  <2> QED
    BY <1>1, <2>1, HandleCloseType DEF Typed, CloseEvent, Dispatch, netVars, callVars
<1>2. CASE ErrorEvent
  BY <1>2 DEF Typed, ErrorEvent, Dispatch, connVars, callVars, histVars
<1>3. CASE ReadMessage
  BY <1>3, Bounds DEF Typed, ReadMessage, Dispatch, connVars, callVars, histVars, LoopStates
<1>4. CASE ReadEof
  <2>1. HandleClose
    BY <1>4 DEF ReadEof
  <2> QED
    BY <1>4, <2>1, HandleCloseType DEF Typed, ReadEof, Dispatch, netVars, callVars
<1>5. CASE ReadError
  BY <1>5 DEF Typed, ReadError, Dispatch, connVars, callVars, histVars
<1>6. CASE WriteEvent
  <2>1. /\ output_buffer_' \in Seq(Bytes) /\ wire' \in Seq(Bytes)
        /\ channel_' \in ChannelStates /\ fin' = fin /\ pending' \in Seq(QueuedFunctors)
    BY <1>6, WriteEffect DEF Adds
  <2> QED
    BY <1>6, <2>1 DEF Typed, WriteEvent, Dispatch, netVars, callVars
<1>7. CASE Poll
  <2>1. todo' \in SUBSET Handlers
    BY <1>7 DEF Poll, Handlers
  <2> QED
    BY <1>7, <2>1 DEF Typed, Poll, connVars, netVars, callVars, histVars
<1> QED
  BY <1>1, <1>2, <1>3, <1>4, <1>5, <1>6, <1>7 DEF EventStep

(* The steps of the functors keep the types. *)
LEMMA FunctorTyped ==
  ASSUME StreamInv, Healthy, FunctorStep
  PROVE  Typed'
<1> USE DEF StreamInv
<1>0. /\ disable_all(channel_) \in ChannelStates /\ enable_reading(channel_) \in ChannelStates
      /\ disable_reading(channel_) \in ChannelStates /\ remove(channel_) \in ChannelStates
  BY MaskOps, RemoveType DEF Typed
<1>t. pending # <<>> => /\ Tail(pending) \in Seq(QueuedFunctors)
                        /\ Head(pending) = pending[1] /\ pending[1] \in QueuedFunctors
                        /\ 1 \in 1..Len(pending)
  BY TailQueue DEF Typed
<1>1. CASE RunBuildConnect
  <2>1. ups = 0 /\ pending' \in Seq(QueuedFunctors)
    BY <1>t, <1>1 DEF RunBuildConnect, Takes, BuiltOnce
  <2>2. CASE status_ = "CONNECTING"
    BY <1>0, <1>1, <2>1, <2>2
       DEF Typed, RunBuildConnect, netVars, callVars, Statuses, LoopStates
  <2>3. CASE status_ # "CONNECTING"
    <3>1. failed' = TRUE /\ UNCHANGED <<status_, channel_, pc, ups>>
      BY <1>1, <2>3 DEF RunBuildConnect
    <3>2. failed' \in BOOLEAN
      BY <3>1
    <3> QED
      BY <1>1, <2>1, <3>1, <3>2 DEF Typed, RunBuildConnect, netVars, callVars
  <2> QED
    BY <2>2, <2>3
<1>2. CASE RunDestroyConnect
  <2>1. pending' \in Seq(QueuedFunctors)
    BY <1>t, <1>2 DEF RunDestroyConnect, Takes
  <2> QED
    BY <1>0, <1>2, <2>1
       DEF Typed, RunDestroyConnect, DestroyConnect, netVars, callVars, Statuses, LoopStates
<1>3. CASE RunSend
  <2>1. Head(pending).m \in 1..MaxCalls /\ Tail(pending) \in Seq(QueuedFunctors)
    BY <1>t, <1>3, Bounds DEF RunSend, Takes, QueuedFunctors
  <2>2. /\ output_buffer_' \in Seq(Bytes) /\ wire' \in Seq(Bytes) /\ accepted' \in Seq(Bytes)
        /\ channel_' \in ChannelStates /\ pending' \in Seq(QueuedFunctors)
    BY <1>3, <2>1, SendEffect DEF Adds, RunSend
  <2> QED
    BY <1>3, <2>2 DEF Typed, RunSend, netVars, callVars
<1>4. CASE RunShutdown
  <2>1. pending' \in Seq(QueuedFunctors)
    BY <1>t, <1>4 DEF RunShutdown, Takes
  <2>2. fin' \in BOOLEAN /\ status_' \in Statuses
    BY <1>4 DEF Typed, RunShutdown, ShutdownInLoop, Statuses
  <2> QED
    BY <1>4, <2>1, <2>2 DEF Typed, RunShutdown, netVars, callVars, histVars
<1>5. CASE RunForceClose
  <2>1. pending' \in Seq(QueuedFunctors)
    BY <1>t, <1>5 DEF RunForceClose, Takes
  <2> QED
    BY <1>5, <2>1 DEF Typed, RunForceClose, connVars, netVars, callVars, histVars
<1>6. CASE RunReadSwitch
  <2>1. pending' \in Seq(QueuedFunctors)
    BY <1>t, <1>6 DEF RunReadSwitch, Takes
  <2>2. channel_' \in ChannelStates /\ reading_' \in BOOLEAN
    BY <1>0, <1>6 DEF Typed, RunReadSwitch, StartReadInLoop, StopReadInLoop
  <2> QED
    BY <1>6, <2>1, <2>2 DEF Typed, RunReadSwitch, netVars, callVars, histVars
<1>7. CASE RunCallback
  <2>1. pending' \in Seq(QueuedFunctors)
    BY <1>t, <1>7 DEF RunCallback, Takes
  <2> QED
    BY <1>7, <2>1 DEF Typed, RunCallback, connVars, netVars, callVars, histVars, LoopStates
<1> QED
  BY <1>1, <1>2, <1>3, <1>4, <1>5, <1>6, <1>7 DEF FunctorStep

(* A callback that returns, the calls of the application and of other threads,
   the base loop and the peer keep the types. *)
LEMMA OtherTyped ==
  ASSUME StreamInv,
         \/ AppReturns \/ CallStep \/ BaseRemoves \/ ServerDestroys
         \/ PeerSends \/ PeerCloses \/ PeerResets
  PROVE  Typed'
<1> USE DEF StreamInv
<1>0. /\ disable_all(channel_) \in ChannelStates /\ enable_reading(channel_) \in ChannelStates
      /\ disable_reading(channel_) \in ChannelStates /\ remove(channel_) \in ChannelStates
  BY MaskOps, RemoveType DEF Typed
<1>o. /\ "send" \in Ops /\ "shutdown" \in Ops /\ "force_close" \in Ops
      /\ "start_read" \in Ops /\ "stop_read" \in Ops
  BY DEF Ops
<1>f. \A f \in Functors \ {"send_in_loop_"} :
        pending' = Append(pending, Functor(f)) => pending' \in Seq(QueuedFunctors)
  BY FunctorType, AddsOne DEF Typed, Adds
<1>1. CASE AppReturns
  <2>1. CASE pc = "down" /\ single /\ removal = "none"
    BY <1>0, <1>1, <2>1
       DEF Typed, AppReturns, DestroyConnect, netVars, callVars, Statuses, LoopStates
  <2>2. CASE pc = "down" /\ ~single /\ removal = "none"
    BY <1>1, <2>2 DEF Typed, AppReturns, netVars, callVars, LoopStates
  <2>3. CASE pc = "gone"
    BY <1>0, <1>1, <2>3 DEF Typed, AppReturns, netVars, callVars, LoopStates
  <2>4. CASE pc # "gone" /\ ~(pc = "down" /\ removal = "none")
    BY <1>1, <2>4 DEF Typed, AppReturns, netVars, callVars, LoopStates
  <2> QED
    BY <2>1, <2>2, <2>3, <2>4 DEF Typed
<1>2. CASE Send
  <2>1. Called("send")
    BY <1>2 DEF Send, LoopCalls
  <2>2. CASE status_ = "CONNECTED"
    <3>1. SendInLoop(calls + 1, pending) /\ calls + 1 \in 1..MaxCalls
      BY <1>2, <1>o, <2>1, <2>2, CalledType DEF Send
    <3>2. /\ output_buffer_' \in Seq(Bytes) /\ wire' \in Seq(Bytes) /\ accepted' \in Seq(Bytes)
          /\ channel_' \in ChannelStates /\ pending' \in Seq(QueuedFunctors)
      BY <3>1, SendEffect DEF Adds, Typed
    <3> QED
      BY <1>2, <1>o, <2>1, <3>2, CalledType DEF Typed, Send, netVars
  <2>3. CASE status_ # "CONNECTED"
    BY <1>2, <1>o, <2>1, <2>3, CalledType DEF Typed, Send, netVars
  <2> QED
    BY <2>2, <2>3
<1>3. CASE ForeignSend
  <2>1. Called("send")
    BY <1>3 DEF ForeignSend, ForeignCalls
  <2>2. checked' \subseteq 0..MaxCalls
    <3>1. calls + 1 \in 0..MaxCalls
      BY <1>o, <2>1, CalledType
    <3> QED
      BY <1>3, <3>1 DEF ForeignSend, Typed
  <2> QED
    BY <1>3, <1>o, <2>1, <2>2, CalledType DEF Typed, ForeignSend, connVars, netVars, histVars
<1>15. CASE ForeignSendQueues
  <2>1. PICK m \in checked \ {0} :
          checked' = checked \ {m} /\ pending' = Append(pending, [f |-> "send_in_loop_", m |-> m])
    BY <1>15 DEF ForeignSendQueues
  <2>2. [f |-> "send_in_loop_", m |-> m] \in QueuedFunctors
    BY DEF QueuedFunctors, Functors, Typed
  <2>3. pending' \in Seq(QueuedFunctors) /\ checked' \subseteq 0..MaxCalls
    BY <2>1, <2>2, AddsOne DEF Adds, Typed
  <2> QED
    BY <1>15, <2>3 DEF Typed, ForeignSendQueues, connVars, netVars, callVars, histVars
<1>4. CASE Shutdown
  <2>1. Called("shutdown")
    BY <1>4 DEF Shutdown, LoopCalls
  <2>2. fin' \in BOOLEAN /\ status_' \in Statuses
    BY <1>4 DEF Typed, Shutdown, ShutdownInLoop, Statuses
  <2> QED
    BY <1>4, <1>o, <2>1, <2>2, CalledType DEF Typed, Shutdown, netVars, histVars
<1>5. CASE ReadSwitch
  <2>1. Called("start_read") \/ Called("stop_read")
    BY <1>5 DEF ReadSwitch, LoopCalls
  <2>2. channel_' \in ChannelStates /\ reading_' \in BOOLEAN
    BY <1>0, <1>5 DEF Typed, ReadSwitch, StartReadInLoop, StopReadInLoop
  <2> QED
    BY <1>5, <1>o, <2>1, <2>2, CalledType DEF Typed, ReadSwitch, netVars, histVars
<1>6. CASE ForeignQueues
  <2>1. PICK op \in {"shutdown", "start_read", "stop_read"} :
          /\ Called(op)
          /\ \E f \in {"shutdown_in_loop_", "start_read_in_loop_", "stop_read_in_loop_"} :
               pending' = Append(pending, Functor(f))
    BY <1>6 DEF ForeignQueues, ForeignCalls
  <2>2. pending' \in Seq(QueuedFunctors)
    BY <1>f, <2>1 DEF Functors
  <2> QED
    BY <1>6, <1>o, <2>1, <2>2, CalledType DEF Typed, ForeignQueues, connVars, netVars, histVars
<1>7. CASE ForceClose
  <2>1. Called("force_close")
    BY <1>7 DEF ForceClose, LoopCalls
  <2>2. pending' \in Seq(QueuedFunctors) /\ status_' \in Statuses
    BY <1>7, <1>f DEF Typed, ForceClose, Functors, Statuses
  <2> QED
    BY <1>7, <1>o, <2>1, <2>2, CalledType DEF Typed, ForceClose, netVars, histVars
<1>8. CASE ForeignForceClose
  <2>1. Called("force_close")
    BY <1>8 DEF ForeignForceClose, ForeignCalls
  <2>2. checked' \subseteq 0..MaxCalls
    BY <1>8, Bounds DEF ForeignForceClose, Typed
  <2> QED
    BY <1>8, <1>o, <2>1, <2>2, CalledType DEF Typed, ForeignForceClose, connVars, netVars, histVars
<1>9. CASE ForeignForceCloseSets
  <2>1. pending' \in Seq(QueuedFunctors)
    BY <1>9, <1>f DEF ForeignForceCloseSets, Functors
  <2>2. checked' \subseteq 0..MaxCalls
    BY <1>9 DEF ForeignForceCloseSets, Typed
  <2> QED
    BY <1>9, <2>1, <2>2 DEF Typed, ForeignForceCloseSets, Statuses, netVars, callVars, histVars
<1>10. CASE BaseRemoves
  <2>1. pending' \in Seq(QueuedFunctors)
    BY <1>10, <1>f DEF BaseRemoves, Functors
  <2> QED
    BY <1>10, <2>1 DEF Typed, BaseRemoves, connVars, netVars, callVars, histVars
<1>11. CASE ServerDestroys
  <2>1. pending' \in Seq(QueuedFunctors)
    BY <1>11, <1>f DEF ServerDestroys, Functors
  <2> QED
    BY <1>11, <2>1 DEF Typed, ServerDestroys, connVars, netVars, histVars
<1>12. CASE PeerSends
  BY <1>12, Bounds DEF Typed, PeerSends, connVars, callVars, histVars
<1>13. CASE PeerCloses
  BY <1>13 DEF Typed, PeerCloses, connVars, callVars, histVars
<1>14. CASE PeerResets
  <2>1. sockErr' \in BOOLEAN
    BY <1>14 DEF PeerResets
  <2> QED
    BY <1>14, <2>1 DEF Typed, PeerResets, connVars, callVars, histVars
<1> QED
  BY <1>1, <1>2, <1>3, <1>4, <1>5, <1>6, <1>7, <1>8, <1>9, <1>10, <1>11, <1>12, <1>13, <1>14,
     <1>15 DEF CallStep

-------------------------------------------------------------------------------
(* The stream.                                                               *)

(* The steps that only add functors to the queue or change the network. *)
OutsideStep ==
  \/ ForeignSend \/ ForeignSendQueues \/ ForeignQueues \/ ForeignForceClose
  \/ ForeignForceCloseSets
  \/ BaseRemoves \/ ServerDestroys \/ PeerSends \/ PeerCloses \/ PeerResets

(* A step that sends or writes. *)
StreamStep == WriteEvent \/ RunSend \/ (Send /\ status_ = "CONNECTED")

(* No other step touches the stream, arms the channel, or sends FIN with bytes
   to write; and one that disarms it ends the connection. *)
LEMMA QuietStep ==
  ASSUME Typed, Next, ~StreamStep
  PROVE  /\ UNCHANGED <<output_buffer_, wire, accepted>>
         /\ is_writing(channel_') => is_writing(channel_)
         /\ downs' = 0 /\ removal' # "done" => downs = 0 /\ removal # "done"
         /\ downs' = 0 /\ removal' # "done" /\ is_writing(channel_) => is_writing(channel_')
         /\ fin' => fin \/ (status_ = "CONNECTED" /\ ~is_writing(channel_))
         /\ peer' # "reset" => peer # "reset"
<1> DEFINE Goal ==
         /\ UNCHANGED <<output_buffer_, wire, accepted>>
         /\ is_writing(channel_') => is_writing(channel_)
         /\ downs' = 0 /\ removal' # "done" => downs = 0 /\ removal # "done"
         /\ downs' = 0 /\ removal' # "done" /\ is_writing(channel_) => is_writing(channel_')
         /\ fin' => fin \/ (status_ = "CONNECTED" /\ ~is_writing(channel_))
         /\ peer' # "reset" => peer # "reset"
<1>0. /\ ~is_writing(disable_all(channel_))
      /\ is_writing(enable_reading(channel_)) <=> is_writing(channel_)
      /\ is_writing(disable_reading(channel_)) <=> is_writing(channel_)
      /\ is_writing(remove(channel_)) <=> is_writing(channel_)
  BY MaskOps, RemoveType DEF is_writing, Typed
<1>1. CASE CloseEvent \/ ReadEof
  <2>1. \/ channel_' = disable_all(channel_) /\ downs' = downs + 1
        \/ channel_' = channel_ /\ downs' = downs
    BY <1>1 DEF CloseEvent, ReadEof, HandleClose
  <2>2. UNCHANGED <<output_buffer_, wire, accepted, removal, fin, peer>>
    BY <1>1 DEF CloseEvent, ReadEof, netVars
  <2> QED
    BY <1>0, <2>1, <2>2 DEF Typed
<1>2. CASE ErrorEvent \/ ReadMessage \/ ReadError \/ Poll
  BY <1>2 DEF ErrorEvent, ReadMessage, ReadError, Poll, connVars, netVars, histVars
<1>3. CASE RunBuildConnect
  <2>1. channel_' = enable_reading(channel_) \/ channel_' = channel_
    BY <1>3 DEF RunBuildConnect
  <2>2. UNCHANGED <<output_buffer_, wire, accepted, downs, removal, fin, peer>>
    BY <1>3 DEF RunBuildConnect, netVars
  <2> QED
    BY <1>0, <2>1, <2>2
<1>4. CASE RunDestroyConnect
  <2>1. \/ channel_' = disable_all(channel_) /\ downs' = downs + 1 /\ removal' = removal
        \/ channel_' = remove(channel_) /\ removal' = "done" /\ downs' = downs
    BY <1>4 DEF RunDestroyConnect, DestroyConnect
  <2>2. UNCHANGED <<output_buffer_, wire, accepted, fin, peer>>
    BY <1>4 DEF RunDestroyConnect, netVars
  <2> QED
    BY <1>0, <2>1, <2>2 DEF Typed
<1>5. CASE RunShutdown \/ Shutdown
  <2>1. fin' => fin \/ (status_ = "CONNECTED" /\ ~is_writing(channel_))
    BY <1>5 DEF RunShutdown, Shutdown, ShutdownInLoop, ShutsWrite
  <2>2. UNCHANGED <<output_buffer_, channel_, wire, accepted, downs, removal, peer>>
    BY <1>5 DEF RunShutdown, Shutdown, netVars, histVars
  <2> QED
    BY <2>1, <2>2
<1>6. CASE RunForceClose \/ RunCallback \/ ForceClose
  BY <1>6 DEF RunForceClose, RunCallback, ForceClose, connVars, netVars, histVars
<1>7. CASE RunReadSwitch \/ ReadSwitch
  <2>1. channel_' \in {channel_, enable_reading(channel_), disable_reading(channel_)}
    BY <1>7 DEF RunReadSwitch, ReadSwitch, StartReadInLoop, StopReadInLoop
  <2>2. UNCHANGED <<output_buffer_, wire, accepted, downs, removal, fin, peer>>
    BY <1>7 DEF RunReadSwitch, ReadSwitch, netVars, histVars
  <2> QED
    BY <1>0, <2>1, <2>2
<1>8. CASE AppReturns
  <2>1. \/ channel_' = disable_all(channel_) /\ downs' = downs + 1 /\ removal' = removal
        \/ channel_' = remove(channel_) /\ removal' = "done" /\ downs' = downs
        \/ channel_' = channel_ /\ removal' = "base" /\ downs' = downs /\ removal = "none"
        \/ UNCHANGED <<channel_, removal, downs>>
    BY <1>8 DEF AppReturns, DestroyConnect
  <2>2. UNCHANGED <<output_buffer_, wire, accepted, fin, peer>>
    BY <1>8 DEF AppReturns, netVars
  <2> QED
    BY <1>0, <2>1, <2>2 DEF Typed
<1>9. CASE Send /\ status_ # "CONNECTED"
  BY <1>9 DEF Send, netVars
<1>10. CASE OutsideStep
  <2>1. UNCHANGED <<output_buffer_, wire, accepted, channel_, fin, downs>>
    BY <1>10 DEF OutsideStep, ForeignSend, ForeignSendQueues, ForeignQueues, ForeignForceClose,
                 ForeignForceCloseSets, BaseRemoves, ServerDestroys, PeerSends,
                 PeerCloses, PeerResets, connVars, histVars
  <2>2. removal' # "done" => removal # "done"
    BY <1>10 DEF OutsideStep, ForeignSend, ForeignSendQueues, ForeignQueues, ForeignForceClose,
                 ForeignForceCloseSets, BaseRemoves, ServerDestroys, PeerSends,
                 PeerCloses, PeerResets
  <2>3. peer' # "reset" => peer # "reset"
    BY <1>10 DEF OutsideStep, ForeignSend, ForeignSendQueues, ForeignQueues, ForeignForceClose,
                 ForeignForceCloseSets, BaseRemoves, ServerDestroys, PeerSends,
                 PeerCloses, PeerResets, netVars
  <2> QED
    BY <2>1, <2>2, <2>3
<1>11. Goal
  BY <1>1, <1>2, <1>3, <1>4, <1>5, <1>6, <1>7, <1>8, <1>9, <1>10
     DEF Next, LoopStep, EventStep, FunctorStep, CallStep, OutsideStep, StreamStep
<1> QED
  BY <1>11

(* The stream stays whole, the channel armed for it, and FIN behind it. *)
LEMMA NextStream ==
  ASSUME StreamInv, Next
  PROVE  StreamIntegrity' /\ WritingHasData' /\ DataIsWritten' /\ FinAfterData'
<1> USE DEF StreamInv
<1>1. CASE ~StreamStep
  <2>1. /\ UNCHANGED <<output_buffer_, wire, accepted>>
        /\ is_writing(channel_') => is_writing(channel_)
        /\ downs' = 0 /\ removal' # "done" => downs = 0 /\ removal # "done"
        /\ downs' = 0 /\ removal' # "done" /\ is_writing(channel_) => is_writing(channel_')
        /\ fin' => fin \/ (status_ = "CONNECTED" /\ ~is_writing(channel_))
        /\ peer' # "reset" => peer # "reset"
    BY <1>1, QuietStep
  <2>2. StreamIntegrity'
    BY <2>1 DEF StreamIntegrity
  <2>3. WritingHasData' /\ DataIsWritten'
    BY <2>1 DEF WritingHasData, DataIsWritten, is_writing
  <2>4. status_ = "CONNECTED" /\ ~is_writing(channel_) => output_buffer_ = <<>>
    BY DEF Established, DataIsWritten
  <2>5. FinAfterData'
    BY <2>1, <2>4 DEF FinAfterData
  <2> QED
    BY <2>2, <2>3, <2>5
<1>2. CASE WriteEvent
  <2>1. UNCHANGED <<downs, removal, peer>>
    BY <1>2 DEF WriteEvent, netVars
  <2>2. /\ StreamIntegrity' /\ fin' = fin
        /\ \/ UNCHANGED <<output_buffer_, channel_>>
           \/ is_writing(channel_) /\ output_buffer_' # <<>> /\ channel_' = channel_
           \/ /\ is_writing(channel_) /\ output_buffer_' = <<>>
              /\ ~is_writing(channel_')
    BY <1>2, WriteEffect
  <2>3. WritingHasData' /\ DataIsWritten'
    BY <2>1, <2>2 DEF WritingHasData, DataIsWritten, is_writing
  <2>4. FinAfterData'
    BY <2>1, <2>2 DEF FinAfterData, WritingHasData
  <2> QED
    BY <2>2, <2>3, <2>4
<1>3. CASE RunSend \/ (Send /\ status_ = "CONNECTED")
  <2>1. UNCHANGED <<downs, removal, peer, fin>>
    BY <1>3 DEF RunSend, Send, netVars
  <2>2. \E m \in 1..MaxCalls : \E q \in Seq(QueuedFunctors) : SendInLoop(m, q)
    <3>1. CASE RunSend
      <4>1. Head(pending).m \in 1..MaxCalls /\ Tail(pending) \in Seq(QueuedFunctors)
        BY <3>1, TailQueue, Bounds DEF RunSend, Takes, QueuedFunctors
      <4> QED
        BY <3>1, <4>1 DEF RunSend
    <3>2. CASE Send /\ status_ = "CONNECTED"
      <4>1. calls + 1 \in 1..MaxCalls
        BY <3>2, CalledType DEF Send, LoopCalls, Ops
      <4> QED
        BY <3>2, <4>1 DEF Send, Typed
    <3> QED
      BY <1>3, <3>1, <3>2
  <2>3. /\ StreamIntegrity'
        /\ \/ UNCHANGED <<output_buffer_, channel_>>
           \/ /\ output_buffer_' # <<>> /\ is_writing(channel_')
              /\ SendsDirectly => ~fin \/ peer = "reset"
    BY <2>2, SendEffect
  <2>4. WritingHasData' /\ DataIsWritten'
    BY <2>1, <2>3 DEF WritingHasData, DataIsWritten, is_writing
  <2>5. FinAfterData'
    BY <2>1, <2>3 DEF FinAfterData, WritingHasData, SendsDirectly
  <2> QED
    BY <2>3, <2>4, <2>5
<1> QED
  BY <1>1, <1>2, <1>3 DEF StreamStep

-------------------------------------------------------------------------------
(* The life of the connection.                                               *)

(* The functors that are appended one by one, or as callbacks. *)
Later == Functors \ {"build_connect"}

(* Every step appends to the queue, or to what is left when the first functor
   has been taken; build_connect is never appended. *)
LEMMA PendingStep ==
  ASSUME StreamInv, Next
  PROVE  \/ Adds(pending, Later) /\ ~FunctorStep
         \/ pending # <<>> /\ FunctorStep /\ Adds(Tail(pending), Callbacks)
<1> USE DEF StreamInv
<1>p. pending \in Seq(QueuedFunctors)
  BY DEF Typed
<1>c. Callbacks \subseteq Later
  BY DEF Callbacks, Later, Functors
<1>w. \A q, F : Adds(q, F) /\ F \subseteq Later => Adds(q, Later)
  BY DEF Adds
<1>1. CASE FunctorStep
  <2>1. CASE RunSend
    <3>1. /\ pending # <<>> /\ Tail(pending) \in Seq(QueuedFunctors)
          /\ Head(pending).m \in 1..MaxCalls
      BY <2>1, TailQueue, Bounds DEF RunSend, Takes, QueuedFunctors
    <3> QED
      BY <1>1, <2>1, <3>1, SendEffect DEF RunSend
  <2>2. CASE ~RunSend
    <3>1. pending # <<>> /\ pending' = Tail(pending)
      BY <1>1, <2>2 DEF FunctorStep, RunBuildConnect, RunDestroyConnect, RunShutdown,
                        RunForceClose, RunReadSwitch, RunCallback, Takes
    <3> QED
      BY <1>1, <3>1, TailQueue, AddsNone
  <2> QED
    BY <2>1, <2>2
<1>2. CASE ~FunctorStep
  <2> SUFFICES Adds(pending, Later)
    BY <1>2
  <2>f. \A f \in Later \ {"send_in_loop_"} :
          pending' = Append(pending, Functor(f)) => Adds(pending, Later)
    <3> SUFFICES ASSUME NEW f \in Later \ {"send_in_loop_"},
                        pending' = Append(pending, Functor(f))
                 PROVE  Adds(pending, Later)
      OBVIOUS
    <3>1. Functor(f) \in QueuedFunctors /\ Functor(f).f = f /\ {f} \subseteq Later
      BY FunctorType DEF Later
    <3>2. Adds(pending, {f})
      BY <1>p, <3>1, AddsOne
    <3> QED
      BY <1>w, <3>1, <3>2
  <2>0. /\ "destroy_connect" \in Later \ {"send_in_loop_"}
        /\ "force_close_in_loop_" \in Later \ {"send_in_loop_"}
        /\ "shutdown_in_loop_" \in Later \ {"send_in_loop_"}
        /\ "start_read_in_loop_" \in Later \ {"send_in_loop_"}
        /\ "stop_read_in_loop_" \in Later \ {"send_in_loop_"}
    BY DEF Later, Functors
  <2>1. CASE pending' = pending
    BY <1>p, <2>1, AddsNone
  <2>2. CASE WriteEvent
    BY <1>c, <1>w, <2>2, WriteEffect
  <2>3. CASE Send /\ status_ = "CONNECTED"
    <3>1. calls + 1 \in 1..MaxCalls
      BY <2>3, CalledType DEF Send, LoopCalls, Ops
    <3> QED
      BY <1>p, <1>c, <1>w, <2>3, <3>1, SendEffect DEF Send
  <2>4. CASE ForeignSendQueues
    <3>1. PICK m \in checked \ {0} : pending' = Append(pending, [f |-> "send_in_loop_", m |-> m])
      BY <2>4 DEF ForeignSendQueues
    <3> DEFINE e == [f |-> "send_in_loop_", m |-> m]
    <3>2. e \in QueuedFunctors /\ e.f \in Later
      BY DEF Typed, QueuedFunctors, Functors, Later
    <3>3. pending' = Append(pending, e)
      BY <3>1
    <3> HIDE DEF e
    <3>4. Adds(pending, {e.f})
      BY <1>p, <3>2, <3>3, AddsOne
    <3> QED
      BY <1>w, <3>2, <3>4
  <2>5. CASE ForeignQueues
    BY <2>0, <2>5, <2>f DEF ForeignQueues
  <2>6. CASE ForceClose \/ ForeignForceCloseSets
    BY <2>0, <2>1, <2>6, <2>f DEF ForceClose, ForeignForceCloseSets
  <2>7. CASE BaseRemoves \/ ServerDestroys
    BY <2>0, <2>7, <2>f DEF BaseRemoves, ServerDestroys
  <2>8. CASE EventStep /\ ~WriteEvent
    BY <2>1, <2>8 DEF EventStep, CloseEvent, ErrorEvent, ReadMessage, ReadEof, ReadError
  <2>9. CASE \/ AppReturns \/ Poll \/ Shutdown \/ ReadSwitch \/ ForeignForceClose
             \/ PeerSends \/ PeerCloses \/ PeerResets
    BY <2>1, <2>9 DEF AppReturns, Poll, Shutdown, ReadSwitch, ForeignForceClose,
                      PeerSends, PeerCloses, PeerResets
  <2>10. CASE (Send /\ status_ # "CONNECTED") \/ ForeignSend
    BY <2>1, <2>10 DEF Send, ForeignSend
  <2> QED
    BY <1>2, <2>2, <2>3, <2>4, <2>5, <2>6, <2>7, <2>8, <2>9, <2>10
       DEF Next, LoopStep, CallStep
<1> QED
  BY <1>1, <1>2

(* ups changes in build_connect only, and a failed assertion stays failed. *)
LEMMA UpsStep ==
  ASSUME Typed, Next, ~RunBuildConnect
  PROVE  /\ ups' = ups
         /\ status_' \in {status_, "DISCONNECTING", "DISCONNECTED"}
  BY DEF Next, LoopStep, EventStep, FunctorStep, CallStep,
         CloseEvent, ErrorEvent, ReadMessage, ReadEof, ReadError, WriteEvent, HandleClose,
         RunDestroyConnect, DestroyConnect, RunSend, RunShutdown, ShutdownInLoop,
         RunForceClose, RunReadSwitch, RunCallback, AppReturns, Poll,
         Send, ForeignSend, ForeignSendQueues, Shutdown, ReadSwitch, ForeignQueues, ForceClose,
         ForeignForceClose, ForeignForceCloseSets, BaseRemoves, ServerDestroys,
         PeerSends, PeerCloses, PeerResets, connVars, histVars, Statuses

(* Before build_connect has run only it and the outside can step. *)
LEMMA UnbuiltStep ==
  ASSUME StreamInv, Next, ups = 0
  PROVE  RunBuildConnect \/ (OutsideStep /\ ~BaseRemoves)
<1>1. /\ pending # <<>> /\ pending[1].f = "build_connect" /\ pc = "loop" /\ todo = {}
      /\ channel_ = NewChannel /\ removal \in {"none", "queued"}
  BY DEF StreamInv, Unbuilt, Next, Healthy
<1>2. Head(pending).f = "build_connect"
  BY <1>1 DEF StreamInv, Typed
<1>3. ~channel_.registered
  BY <1>1 DEF NewChannel
<1>4. ~EventStep /\ ~AppReturns /\ ~Poll
  BY <1>1, <1>3 DEF EventStep, CloseEvent, ErrorEvent, ReadMessage, ReadEof, ReadError,
                    WriteEvent, Dispatch, AppReturns, Poll
<1>5. FunctorStep => RunBuildConnect
  BY <1>2 DEF FunctorStep, RunDestroyConnect, RunSend, RunShutdown, RunForceClose,
              RunReadSwitch, RunCallback, Takes
<1>6. ~Send /\ ~Shutdown /\ ~ReadSwitch /\ ~ForceClose
  BY <1>1 DEF Send, Shutdown, ReadSwitch, ForceClose, LoopCalls
<1>7. ~BaseRemoves
  BY <1>1 DEF BaseRemoves
<1> QED
  BY <1>4, <1>5, <1>6, <1>7 DEF Next, LoopStep, CallStep, OutsideStep

(* build_connect comes first, runs once, and nothing happens before it. *)
LEMMA NextBuilt ==
  ASSUME StreamInv, Next
  PROVE  BuiltOnce' /\ Unbuilt' /\ Established'
<1> USE DEF StreamInv
<1>p. /\ pending \in Seq(QueuedFunctors) /\ Len(pending) \in Nat
      /\ status_ \in Statuses /\ ups \in 0..1
  BY DEF Typed
<1>n. Typed' => pending' \in Seq(QueuedFunctors) /\ Len(pending') \in Nat
  BY DEF Typed
<1>a. \A i \in 1..Len(pending) : pending[i].f = "build_connect" => i = 1 /\ ups = 0
  BY DEF BuiltOnce
<1>1. BuiltOnce'
  <2>1. CASE Adds(pending, Later) /\ ~FunctorStep
    <3>1. ups' = ups
      BY <2>1, UpsStep DEF FunctorStep
    <3> QED
      BY <1>a, <1>p, <2>1, <3>1 DEF BuiltOnce, Adds, Later
  <2>2. CASE pending # <<>> /\ Adds(Tail(pending), Callbacks)
    <3>1. /\ Len(Tail(pending)) = Len(pending) - 1
          /\ \A i \in 1..(Len(pending) - 1) : Tail(pending)[i] = pending[i + 1]
      BY <2>2, TailQueue
    <3>2. ASSUME NEW i \in 1..Len(pending')
          PROVE  pending'[i].f # "build_connect"
      <4>1. CASE i <= Len(pending) - 1
        <5>1. pending'[i] = pending[i + 1] /\ i + 1 \in 1..Len(pending) /\ i + 1 # 1
          BY <1>p, <2>2, <3>1, <4>1 DEF Adds
        <5> QED
          BY <1>a, <5>1
      <4>2. CASE ~(i <= Len(pending) - 1)
        BY <2>2, <3>1, <4>2 DEF Adds, Callbacks
      <4> QED
        BY <4>1, <4>2
    <3> QED
      BY <3>2 DEF BuiltOnce
  <2> QED
    BY <2>1, <2>2, PendingStep
<1>2. Unbuilt'
  <2>1. CASE RunBuildConnect
    <3>1. ups' = ups + 1 \/ failed' = TRUE
      BY <2>1 DEF RunBuildConnect
    <3> QED
      BY <1>p, <3>1 DEF Unbuilt
  <2>2. CASE ~RunBuildConnect /\ ups = 0
    <3>1. OutsideStep /\ ~BaseRemoves
      BY <2>2, UnbuiltStep
    <3>2. /\ UNCHANGED <<pc, todo, channel_, output_buffer_, fin, downs, failed>>
      BY <3>1 DEF OutsideStep, ForeignSend, ForeignSendQueues, ForeignQueues, ForeignForceClose,
                  ForeignForceCloseSets, ServerDestroys, PeerSends, PeerCloses,
                  PeerResets, connVars, histVars
    <3>3. removal' \in {removal, "queued"}
      BY <3>1 DEF OutsideStep, ForeignSend, ForeignSendQueues, ForeignQueues, ForeignForceClose,
                  ForeignForceCloseSets, ServerDestroys, PeerSends, PeerCloses, PeerResets
    <3>4. /\ pending # <<>> /\ pending[1].f = "build_connect" /\ ~failed
          /\ pc = "loop" /\ todo = {} /\ channel_ = NewChannel /\ output_buffer_ = <<>>
          /\ ~fin /\ downs = 0 /\ removal \in {"none", "queued"}
      BY <2>2 DEF Unbuilt, Next, Healthy
    <3>5. Adds(pending, Later)
      <4>1. ~(pc = "loop" /\ FunctorStep)
        BY <2>2, <3>4, <1>p DEF FunctorStep, RunDestroyConnect, RunSend, RunShutdown,
             RunForceClose, RunReadSwitch, RunCallback, Takes
      <4> QED
        BY <3>4, <4>1, PendingStep
    <3>6. pending' # <<>> /\ pending'[1].f = "build_connect"
      <4>1. Len(pending) > 0
        BY <1>p, <3>4
      <4>2. pending' \in Seq(QueuedFunctors) /\ Len(pending') >= 1 /\ pending'[1] = pending[1]
        BY <1>p, <3>5, <4>1 DEF Adds
      <4> QED
        BY <3>4, <4>2
    <3> QED
      BY <3>2, <3>3, <3>4, <3>6 DEF Unbuilt
  <2>3. CASE ~RunBuildConnect /\ ups # 0
    BY <2>3, UpsStep DEF Unbuilt
  <2> QED
    BY <2>1, <2>2, <2>3
<1>3. Established'
  <2>1. CASE RunBuildConnect
    <3>1. ups = 0 /\ ~failed /\ downs = 0 /\ removal \in {"none", "queued"}
      <4>1. pending # <<>> /\ pending[1].f = "build_connect" /\ 1 \in 1..Len(pending)
        BY <1>p, <2>1 DEF RunBuildConnect, Takes
      <4>2. ups = 0
        BY <1>a, <4>1
      <4> QED
        BY <4>2 DEF Unbuilt, Next, Healthy
    <3>2. UNCHANGED <<downs, removal>>
      BY <2>1 DEF RunBuildConnect
    <3>3. CASE status_ = "CONNECTING"
      BY <2>1, <3>1, <3>2, <3>3 DEF RunBuildConnect, Established
    <3>4. CASE status_ # "CONNECTING"
      BY <2>1, <3>2, <3>4 DEF RunBuildConnect, Established
    <3> QED
      BY <3>3, <3>4
  <2>2. CASE ~RunBuildConnect /\ status_' = "CONNECTING"
    BY <2>2, UpsStep DEF Established
  <2>3. CASE ~RunBuildConnect /\ status_' = "CONNECTED"
    <3>1. status_ = "CONNECTED" /\ downs = 0 /\ removal # "done" /\ pc # "gone"
      BY <2>3, UpsStep DEF Established
    <3>2. downs' = 0 /\ removal' # "done" /\ pc' # "gone"
      BY <2>3, <3>1 DEF Next, LoopStep, EventStep, FunctorStep, CallStep,
         CloseEvent, ErrorEvent, ReadMessage, ReadEof, ReadError, WriteEvent, HandleClose,
         RunDestroyConnect, DestroyConnect, MustNotify, RunSend, RunShutdown, ShutdownInLoop,
         RunForceClose, RunReadSwitch, RunCallback, AppReturns, Poll,
         Send, ForeignSend, ForeignSendQueues, Shutdown, ReadSwitch, ForeignQueues, ForceClose,
         ForeignForceClose, ForeignForceCloseSets, BaseRemoves, ServerDestroys,
         PeerSends, PeerCloses, PeerResets, connVars, histVars
    <3> QED
      BY <2>3, <3>2 DEF Established
  <2>4. CASE status_' \notin {"CONNECTING", "CONNECTED"}
    BY <2>4 DEF Established
  <2> QED
    BY <2>1, <2>2, <2>3, <2>4
<1> QED
  BY <1>1, <1>2, <1>3

(* A connection that new_connection has just built satisfies StreamInv. *)
LEMMA InitStreamInv == Init => StreamInv
<1> SUFFICES ASSUME Init PROVE StreamInv
  OBVIOUS
<1>1. pending \in Seq(QueuedFunctors) /\ Len(pending) = 1 /\ pending[1].f = "build_connect"
  BY FunctorType DEF Init, Functors, QueuedFunctors
<1>2. channel_ \in ChannelStates /\ ~is_writing(channel_)
  BY DEF Init, NewChannel, ChannelStates, Events, is_writing
<1>3. /\ checked \subseteq 0..MaxCalls /\ fin \in BOOLEAN /\ sockErr \in BOOLEAN /\ failed \in BOOLEAN
      /\ reading_ \in BOOLEAN
  BY DEF Init
<1>4. Typed
  BY <1>1, <1>2, <1>3, Bounds DEF Init, Typed, Statuses, LoopStates
<1>5. BuiltOnce /\ Unbuilt /\ Established
  BY <1>1 DEF Init, BuiltOnce, Unbuilt, Established
<1>6. WritingHasData /\ DataIsWritten /\ FinAfterData
  BY <1>2 DEF Init, WritingHasData, DataIsWritten, FinAfterData
<1>7. StreamIntegrity
  BY DEF Init, StreamIntegrity
<1> QED
  BY <1>4, <1>5, <1>6, <1>7 DEF StreamInv

(* Every step, in whatever use, keeps StreamInv. *)
LEMMA NextStreamInv == StreamInv /\ [Next]_vars => StreamInv'
<1> SUFFICES ASSUME StreamInv, [Next]_vars PROVE StreamInv'
  OBVIOUS
<1>1. CASE UNCHANGED vars
  <2>1. Typed'
    BY <1>1, Zenon DEF vars, StreamInv, Typed
  <2>2. BuiltOnce' /\ Unbuilt' /\ Established'
    BY <1>1, Zenon DEF vars, StreamInv, BuiltOnce, Unbuilt, Established
  <2>3. WritingHasData' /\ DataIsWritten'
    BY <1>1, Zenon DEF vars, StreamInv, WritingHasData, DataIsWritten
  <2>4. StreamIntegrity' /\ FinAfterData'
    BY <1>1, Zenon DEF vars, StreamInv, StreamIntegrity, FinAfterData
  <2> QED
    BY <2>1, <2>2, <2>3, <2>4 DEF StreamInv
<1>2. CASE Next
  <2>1. Typed'
    BY <1>2, EventTyped, FunctorTyped, OtherTyped DEF Next, LoopStep
  <2> QED
    BY <1>2, <2>1, NextStream, NextBuilt DEF StreamInv
<1> QED
  BY <1>1, <1>2

-------------------------------------------------------------------------------
(* Basic use.                                                                *)

(* The life of a channel: reading is enabled once, writing comes and goes, all
   is disabled once and the channel removed, and no assertion fails. *)
LEMMA ChannelLife ==
  ASSUME NEW c \in ChannelStates, ~c.failed
  PROVE  /\ c = NewChannel =>
              /\ enable_reading(c).status = "ADD" /\ "read" \in enable_reading(c).events
              /\ ~enable_reading(c).failed
         /\ c.status = "ADD" /\ "read" \in c.events =>
              /\ enable_writing(c).status = "ADD" /\ "read" \in enable_writing(c).events
              /\ ~enable_writing(c).failed
              /\ disable_writing(c).status = "ADD" /\ "read" \in disable_writing(c).events
              /\ ~disable_writing(c).failed
              /\ disable_all(c).status = "DEL" /\ disable_all(c).events = {}
              /\ ~disable_all(c).registered /\ ~disable_all(c).failed
         /\ c.status = "DEL" /\ c.events = {} =>
              /\ remove(c).status = "NEW" /\ remove(c).events = {}
              /\ ~remove(c).registered /\ ~remove(c).added_to_loop_ /\ ~remove(c).failed
<1>1. ASSUME c = NewChannel
      PROVE  /\ enable_reading(c).status = "ADD" /\ "read" \in enable_reading(c).events
             /\ ~enable_reading(c).failed
  BY <1>1 DEF NewChannel, enable_reading, SetEvents, update_channel, CtlSet
<1>2. ASSUME c.status = "ADD", NEW es \in SUBSET Events, "read" \in es
      PROVE  SetEvents(c, es).status = "ADD" /\ ~SetEvents(c, es).failed
  BY <1>2 DEF ChannelStates, SetEvents, update_channel, is_none_event, CtlSet
<1>3. ASSUME c.status = "ADD"
      PROVE  /\ disable_all(c).status = "DEL" /\ ~disable_all(c).registered
             /\ ~disable_all(c).failed
  BY <1>3 DEF ChannelStates, disable_all, SetEvents, update_channel, is_none_event, CtlDel
<1>4. ASSUME c.status = "DEL", c.events = {}
      PROVE  /\ remove(c).status = "NEW" /\ remove(c).events = {}
             /\ ~remove(c).registered /\ ~remove(c).added_to_loop_ /\ ~remove(c).failed
  BY <1>4 DEF ChannelStates, remove, CtlDel, is_none_event
<1>5. ASSUME c.status = "ADD", "read" \in c.events
      PROVE  /\ enable_writing(c).status = "ADD" /\ ~enable_writing(c).failed
             /\ disable_writing(c).status = "ADD" /\ ~disable_writing(c).failed
  <2>1. c.events \cup {"write"} \in SUBSET Events /\ c.events \ {"write"} \in SUBSET Events
    BY DEF ChannelStates, Events
  <2> QED
    BY <1>2, <1>5, <2>1 DEF enable_writing, disable_writing
<1> QED
  BY <1>1, <1>3, <1>4, <1>5, MaskOps

(* The functors of basic use that send_in_loop_ and the callers append. *)
BasicFunctors == Callbacks \cup {"shutdown_in_loop_", "send_in_loop_"}

(* The queue of basic use, when the server does nothing. *)
LEMMA BasicPendingKept ==
  ASSUME Typed, BasicPending,
         \/ Adds(pending, BasicFunctors)
         \/ pending # <<>> /\ Adds(Tail(pending), BasicFunctors),
         \/ removal' = removal
         \/ removal # "queued"
         \/ pending # <<>> /\ Head(pending).f = "destroy_connect"
                           /\ Adds(Tail(pending), BasicFunctors)
  PROVE  BasicPending'
<1> DEFINE Bad == {"force_close_in_loop_", "start_read_in_loop_", "stop_read_in_loop_"}
<1>p. Len(pending) \in Nat /\ pending \in Seq(QueuedFunctors)
  BY DEF Typed
<1>f. \A g \in BasicFunctors : g \notin Bad /\ g # "destroy_connect"
  BY DEF BasicFunctors, Callbacks
<1>b. /\ \A i \in 1..Len(pending) : pending[i].f \notin Bad
      /\ \A i \in 1..Len(pending) : pending[i].f = "destroy_connect" => removal = "queued"
      /\ \A i, j \in 1..Len(pending) :
           pending[i].f = "destroy_connect" /\ pending[j].f = "destroy_connect" => i = j
  BY DEF BasicPending
<1>1. CASE Adds(pending, BasicFunctors) /\ (removal' = removal \/ removal # "queued")
  <2>1. \A i \in 1..Len(pending') :
          \/ i \in 1..Len(pending) /\ pending'[i] = pending[i]
          \/ pending'[i].f \in BasicFunctors
    BY <1>p, <1>1 DEF Adds
  <2> QED
    BY <1>1, <1>b, <1>f, <2>1 DEF BasicPending
<1>2. CASE pending # <<>> /\ Adds(Tail(pending), BasicFunctors)
  <2>0. /\ Len(Tail(pending)) = Len(pending) - 1 /\ Head(pending) = pending[1]
        /\ \A i \in 1..(Len(pending) - 1) : Tail(pending)[i] = pending[i + 1]
        /\ Len(pending) \in Nat \ {0}
    BY <1>2, TailQueue
  <2>1. \A i \in 1..Len(pending') :
          \/ i + 1 \in 2..Len(pending) /\ pending'[i] = pending[i + 1]
          \/ pending'[i].f \in BasicFunctors
    <3> SUFFICES ASSUME NEW i \in 1..Len(pending')
                 PROVE  \/ i + 1 \in 2..Len(pending) /\ pending'[i] = pending[i + 1]
                        \/ pending'[i].f \in BasicFunctors
      OBVIOUS
    <3>1. CASE i <= Len(pending) - 1
      BY <1>2, <2>0, <3>1 DEF Adds
    <3>2. CASE ~(i <= Len(pending) - 1)
      BY <1>2, <2>0, <3>2 DEF Adds
    <3> QED
      BY <3>1, <3>2
  <2>2. \A i \in 1..Len(pending') : pending'[i].f \notin Bad
    BY <1>b, <1>f, <2>1
  <2>3. \A i, j \in 1..Len(pending') :
          pending'[i].f = "destroy_connect" /\ pending'[j].f = "destroy_connect" => i = j
    <3> SUFFICES ASSUME NEW i \in 1..Len(pending'), NEW j \in 1..Len(pending'),
                        pending'[i].f = "destroy_connect", pending'[j].f = "destroy_connect"
                 PROVE  i = j
      OBVIOUS
    <3>1. /\ i + 1 \in 1..Len(pending) /\ pending[i + 1].f = "destroy_connect"
          /\ j + 1 \in 1..Len(pending) /\ pending[j + 1].f = "destroy_connect"
      BY <1>f, <2>1
    <3>2. i + 1 = j + 1
      BY <1>b, <3>1
    <3> QED
      BY <3>2
  <2>4. \A i \in 1..Len(pending') : pending'[i].f = "destroy_connect" => removal' = "queued"
    <3> SUFFICES ASSUME NEW i \in 1..Len(pending'), pending'[i].f = "destroy_connect"
                 PROVE  removal' = "queued"
      OBVIOUS
    <3>1. i + 1 \in 2..Len(pending) /\ pending[i + 1].f = "destroy_connect"
      BY <1>f, <2>1
    <3>2. removal = "queued"
      BY <1>b, <3>1
    <3>3. Head(pending).f # "destroy_connect"
      BY <1>b, <2>0, <3>1
    <3> QED
      BY <3>2, <3>3
  <2> QED
    BY <2>2, <2>3, <2>4 DEF BasicPending
<1>3. CASE removal = "queued" /\ removal' # removal
  BY <1>2, <1>3
<1> QED
  BY <1>1, <1>2, <1>3

(* A step in basic use: nobody forces a close, switches reading or destroys the
   server, and no such functor is waiting. *)
BasicStep ==
  \/ CloseEvent \/ ReadEof
  \/ ErrorEvent \/ ReadMessage \/ ReadError \/ WriteEvent \/ Poll
  \/ RunBuildConnect \/ RunDestroyConnect \/ RunSend \/ RunShutdown \/ RunCallback
  \/ AppReturns \/ Send \/ Shutdown \/ BaseRemoves
  \/ (OutsideStep /\ Adds(pending, BasicFunctors)
                  /\ UNCHANGED <<connVars, pc, todo, removal, ups, downs, failed>>
                  /\ 0 \notin checked')

(* In basic use only such steps are taken. *)
LEMMA BasicSteps ==
  ASSUME StreamInv, BasicPending, BasicLife, Next, BasicUse'
  PROVE  BasicStep /\ BasicUse
<1> USE DEF StreamInv
<1>p. pending \in Seq(QueuedFunctors)
  BY DEF Typed
<1>1. BasicUse
  BY DEF BasicUse, Next, LoopStep, EventStep, FunctorStep, CallStep, Called, LoopCalls,
         ForeignCalls, CloseEvent, ErrorEvent, ReadMessage, ReadEof, ReadError, WriteEvent,
         RunBuildConnect, RunDestroyConnect, RunSend, RunShutdown, RunForceClose,
         RunReadSwitch, RunCallback, AppReturns, Poll, Send, ForeignSend, ForeignSendQueues, Shutdown,
         ReadSwitch, ForeignQueues, ForceClose, ForeignForceClose, ForeignForceCloseSets,
         BaseRemoves, ServerDestroys, PeerSends, PeerCloses, PeerResets, callVars
<1>2. ~Called("force_close") /\ ~Called("start_read") /\ ~Called("stop_read")
  BY DEF Called, BasicUse
<1>3. ~ForceClose /\ ~ForeignForceClose /\ ~ReadSwitch /\ ~ServerDestroys
  BY <1>2 DEF ForceClose, ForeignForceClose, ReadSwitch, LoopCalls, ForeignCalls,
              ServerDestroys, BasicUse
<1>4. ~ForeignForceCloseSets
  BY DEF ForeignForceCloseSets, BasicLife
<1>5. ~RunForceClose /\ ~RunReadSwitch
  <2>1. pending # <<>> => Head(pending) = pending[1] /\ 1 \in 1..Len(pending)
    BY <1>p
  <2> QED
    BY <2>1 DEF RunForceClose, RunReadSwitch, Takes, BasicPending
<1>0. 0 \notin checked
  BY DEF BasicLife
<1>6. ASSUME ForeignSend
      PROVE  BasicStep
  <2>1. Adds(pending, BasicFunctors)
    BY <1>6, <1>p, AddsNone DEF ForeignSend
  <2>2. 0 \notin checked'
    <3>1. calls + 1 # 0
      BY DEF Typed
    <3> QED
      BY <1>0, <1>6, <3>1 DEF ForeignSend
  <2> QED
    BY <1>6, <2>1, <2>2 DEF BasicStep, OutsideStep, ForeignSend, histVars
<1>9. ASSUME ForeignSendQueues
      PROVE  BasicStep
  <2>1. PICK m \in checked \ {0} :
          checked' = checked \ {m} /\ pending' = Append(pending, [f |-> "send_in_loop_", m |-> m])
    BY <1>9 DEF ForeignSendQueues
  <2> DEFINE e == [f |-> "send_in_loop_", m |-> m]
  <2>2. e \in QueuedFunctors /\ {e.f} \subseteq BasicFunctors
    BY DEF Typed, QueuedFunctors, Functors, BasicFunctors
  <2>3. pending' = Append(pending, e)
    BY <2>1
  <2> HIDE DEF e
  <2>4. Adds(pending, {e.f})
    BY <1>p, <2>2, <2>3, AddsOne
  <2>5. Adds(pending, BasicFunctors)
    BY <2>2, <2>4 DEF Adds
  <2>6. 0 \notin checked'
    BY <1>0, <2>1
  <2> QED
    BY <1>9, <2>5, <2>6 DEF BasicStep, OutsideStep, ForeignSendQueues, histVars
<1>7. ASSUME ForeignQueues
      PROVE  BasicStep
  <2>1. pending' = Append(pending, Functor("shutdown_in_loop_"))
    BY <1>2, <1>7 DEF ForeignQueues, ForeignCalls
  <2>2. /\ Functor("shutdown_in_loop_") \in QueuedFunctors
        /\ {Functor("shutdown_in_loop_").f} \subseteq BasicFunctors
    BY FunctorType DEF Functors, BasicFunctors
  <2>3. Adds(pending, {Functor("shutdown_in_loop_").f})
    BY <1>p, <2>1, <2>2, AddsOne
  <2>4. Adds(pending, BasicFunctors)
    BY <2>2, <2>3 DEF Adds
  <2> QED
    BY <1>0, <1>7, <2>4 DEF BasicStep, OutsideStep, ForeignQueues, histVars
<1>8. ASSUME PeerSends \/ PeerCloses \/ PeerResets
      PROVE  BasicStep
  <2>1. pending' = pending
    BY <1>8 DEF PeerSends, PeerCloses, PeerResets
  <2>2. Adds(pending, BasicFunctors)
    BY <1>p, <2>1, AddsNone
  <2> QED
    BY <1>0, <1>8, <2>2 DEF BasicStep, OutsideStep, PeerSends, PeerCloses, PeerResets, histVars
<1> QED
  BY <1>1, <1>3, <1>4, <1>5, <1>6, <1>7, <1>8, <1>9
     DEF Next, LoopStep, EventStep, FunctorStep, CallStep, BasicStep

(* handle_close_ in basic use: the connection ends for the first time. *)
LEMMA BasicClose ==
  ASSUME StreamInv, BasicPending, BasicChannel, BasicLife, CloseEvent \/ ReadEof
  PROVE  BasicPending' /\ BasicChannel' /\ BasicLife'
<1> USE DEF StreamInv
<1>1. status_ \in {"CONNECTED", "DISCONNECTING"} /\ removal = "none" /\ downs = 0 /\ ups # 0
  BY DEF CloseEvent, ReadEof, Dispatch, BasicLife
<1>2. /\ status_' = "DISCONNECTED" /\ channel_' = disable_all(channel_)
      /\ pc' = "down" /\ downs' = 1 /\ failed' = failed
  BY <1>1 DEF CloseEvent, ReadEof, HandleClose
<1>3. UNCHANGED <<pending, removal, ups, checked>>
  BY DEF CloseEvent, ReadEof
<1>4. todo' \cap {"close", "read"} = {}
  BY DEF CloseEvent, ReadEof, Dispatch, BasicLife
<1>5. BasicLife'
  BY <1>1, <1>2, <1>3, <1>4 DEF BasicLife
<1>6. BasicChannel'
  <2>1. /\ channel_'.status = "DEL" /\ channel_'.events = {}
        /\ ~channel_'.registered /\ ~channel_'.failed
    BY <1>1, <1>2, ChannelLife DEF BasicChannel, Typed
  <2> QED
    BY <1>1, <1>2, <1>3, <2>1 DEF BasicChannel
<1>7. BasicPending'
  BY <1>3 DEF BasicPending
<1> QED
  BY <1>5, <1>6, <1>7

(* The steps of basic use that change neither status nor channel nor removal. *)
LEMMA BasicIdle ==
  ASSUME Typed, BasicPending, BasicChannel, BasicLife,
         UNCHANGED <<status_, channel_, removal, ups, downs, failed>>, 0 \notin checked',
         \/ Adds(pending, BasicFunctors)
         \/ pending # <<>> /\ Adds(Tail(pending), BasicFunctors),
         pc' \in {pc, "app", "loop"},
         \/ todo' \subseteq todo
         \/ /\ status_ \in {"CONNECTED", "DISCONNECTING"}
            /\ ~({"close", "read"} \subseteq todo')
  PROVE  BasicPending' /\ BasicChannel' /\ BasicLife'
<1>1. BasicPending'
  BY BasicPendingKept
<1>2. BasicChannel'
  BY DEF BasicChannel
<1>3. BasicLife'
  BY DEF BasicLife
<1> QED
  BY <1>1, <1>2, <1>3

(* send_in_loop_ and handle_write_ in basic use. *)
LEMMA BasicStream ==
  ASSUME StreamInv, BasicPending, BasicChannel, BasicLife, StreamStep
  PROVE  BasicPending' /\ BasicChannel' /\ BasicLife'
<1> USE DEF StreamInv
<1>w. \A q : Adds(q, Callbacks) => Adds(q, BasicFunctors)
  BY DEF Adds, BasicFunctors
<1>1. /\ UNCHANGED <<status_, removal, checked, ups, downs, failed, pc>>
      /\ todo' \subseteq todo
  BY DEF StreamStep, WriteEvent, RunSend, Send, Dispatch
<1>2. \/ Adds(pending, BasicFunctors)
      \/ pending # <<>> /\ Adds(Tail(pending), BasicFunctors)
  <2>1. CASE WriteEvent
    BY <1>w, <2>1, WriteEffect
  <2>2. CASE RunSend
    <3>1. /\ pending # <<>> /\ Tail(pending) \in Seq(QueuedFunctors)
          /\ Head(pending).m \in 1..MaxCalls
      BY <2>2, TailQueue, Bounds DEF RunSend, Takes, QueuedFunctors
    <3> QED
      BY <1>w, <2>2, <3>1, SendEffect DEF RunSend
  <2>3. CASE Send /\ status_ = "CONNECTED"
    <3>1. calls + 1 \in 1..MaxCalls /\ pending \in Seq(QueuedFunctors)
      BY <2>3, CalledType DEF Send, LoopCalls, Ops, Typed
    <3> QED
      BY <1>w, <2>3, <3>1, SendEffect DEF Send
  <2> QED
    BY <2>1, <2>2, <2>3 DEF StreamStep
<1>3. \/ channel_' = channel_
      \/ /\ status_ # "DISCONNECTED" /\ channel_' = ArmWriting(channel_)
      \/ /\ is_writing(channel_) /\ channel_' = disable_writing(channel_)
  <2>1. CASE WriteEvent
    BY <2>1, WriteEffect
  <2>2. CASE RunSend
    <3>1. /\ pending # <<>> /\ Tail(pending) \in Seq(QueuedFunctors)
          /\ Head(pending).m \in 1..MaxCalls
      BY <2>2, TailQueue, Bounds DEF RunSend, Takes, QueuedFunctors
    <3> QED
      BY <2>2, <3>1, SendEffect DEF RunSend
  <2>3. CASE Send /\ status_ = "CONNECTED"
    <3>1. calls + 1 \in 1..MaxCalls /\ pending \in Seq(QueuedFunctors)
      BY <2>3, CalledType DEF Send, LoopCalls, Ops, Typed
    <3> QED
      BY <2>3, <3>1, SendEffect DEF Send
  <2> QED
    BY <2>1, <2>2, <2>3 DEF StreamStep
<1>0. 0 \notin checked'
  BY <1>1 DEF BasicLife
<1>4. CASE channel_' = channel_
  BY <1>0, <1>1, <1>2, <1>4, BasicIdle
<1>5. CASE channel_' # channel_
  <2>1. status_ \in {"CONNECTED", "DISCONNECTING"}
    <3>1. status_ # "DISCONNECTED"
      <4>1. status_ = "DISCONNECTED" => channel_.events = {}
        BY DEF BasicChannel
      <4> QED
        BY <1>3, <1>5, <4>1 DEF is_writing
    <3>2. status_ # "CONNECTING"
      <4>1. ASSUME status_ = "CONNECTING" PROVE FALSE
        <5>1. /\ pending # <<>> /\ pending[1].f = "build_connect" /\ pc = "loop" /\ todo = {}
          BY <4>1 DEF BasicLife, Unbuilt
        <5>2. Head(pending).f = "build_connect"
          BY <5>1 DEF Typed
        <5> QED
          BY <5>1, <5>2 DEF StreamStep, WriteEvent, Dispatch, RunSend, Takes, Send, LoopCalls
      <4> QED
        BY <4>1
    <3> QED
      BY <3>1, <3>2 DEF Typed, Statuses
  <2>2. channel_'.status = "ADD" /\ "read" \in channel_'.events /\ ~channel_'.failed
    BY <1>3, <1>5, <2>1, ChannelLife DEF BasicChannel, Typed, ArmWriting
  <2>3. removal = "none"
    BY <2>1 DEF BasicLife
  <2>4. BasicChannel'
    BY <1>1, <2>1, <2>2, <2>3 DEF BasicChannel
  <2>5. BasicPending'
    BY <1>1, <1>2, BasicPendingKept
  <2>6. BasicLife'
    BY <1>1 DEF BasicLife
  <2> QED
    BY <2>4, <2>5, <2>6
<1> QED
  BY <1>4, <1>5

(* BasicInv is inductive, given StreamInv. *)
LEMMA NextBasicInv ==
  ASSUME StreamInv, BasicInv, Next
  PROVE  BasicInv'
<1> SUFFICES ASSUME BasicUse'
             PROVE  BasicPending' /\ BasicChannel' /\ BasicLife'
  BY DEF BasicInv
<1> USE DEF StreamInv
<1>u. BasicUse
  BY DEF BasicUse, Next, LoopStep, EventStep, FunctorStep, CallStep, Called, LoopCalls,
         ForeignCalls, CloseEvent, ErrorEvent, ReadMessage, ReadEof, ReadError, WriteEvent,
         RunBuildConnect, RunDestroyConnect, RunSend, RunShutdown, RunForceClose,
         RunReadSwitch, RunCallback, AppReturns, Poll, Send, ForeignSend, ForeignSendQueues, Shutdown,
         ReadSwitch, ForeignQueues, ForceClose, ForeignForceClose, ForeignForceCloseSets,
         BaseRemoves, ServerDestroys, PeerSends, PeerCloses, PeerResets, callVars
<1>b. BasicPending /\ BasicChannel /\ BasicLife
  BY <1>u DEF BasicInv
<1>s. BasicStep
  BY <1>b, BasicSteps
<1>p. pending \in Seq(QueuedFunctors)
  BY DEF Typed
<1>k. /\ Adds(pending, BasicFunctors) \/ pending' # pending
      /\ checked' = checked => 0 \notin checked'
  BY <1>b, <1>p, AddsNone DEF BasicLife
<1>t. pending # <<>> =>
        /\ Head(pending) = pending[1] /\ 1 \in 1..Len(pending)
        /\ pending' = Tail(pending) => Adds(Tail(pending), BasicFunctors)
  <2> SUFFICES ASSUME pending # <<>>
               PROVE  /\ Head(pending) = pending[1] /\ 1 \in 1..Len(pending)
                      /\ pending' = Tail(pending) => Adds(Tail(pending), BasicFunctors)
    OBVIOUS
  <2>1. /\ Tail(pending) \in Seq(QueuedFunctors) /\ Head(pending) = pending[1]
        /\ Len(pending) \in Nat \ {0}
    BY TailQueue
  <2>2. ASSUME pending' = Tail(pending)
        PROVE  Adds(Tail(pending), BasicFunctors)
    BY <2>1, <2>2, AddsNone
  <2> QED
    BY <2>1, <2>2
<1>1. CASE CloseEvent \/ ReadEof
  BY <1>1, <1>b, BasicClose
<1>2. CASE StreamStep
  BY <1>2, <1>b, BasicStream
<1>3. CASE ErrorEvent \/ ReadMessage \/ ReadError
  <2>1. /\ UNCHANGED <<status_, channel_, removal, checked, ups, downs, failed, pending>>
        /\ pc' \in {pc, "app", "loop"} /\ todo' \subseteq todo
    BY <1>3 DEF ErrorEvent, ReadMessage, ReadError, Dispatch, connVars, histVars
  <2> QED
    BY <1>b, <1>k, <2>1, BasicIdle
<1>4. CASE Poll
  <2>1. UNCHANGED <<status_, channel_, removal, checked, ups, downs, failed, pending, pc>>
    BY <1>4 DEF Poll, connVars, histVars
  <2>2. status_ \in {"CONNECTED", "DISCONNECTING"}
    BY <1>4, <1>b DEF Poll, BasicChannel, NewChannel, Typed, Statuses
  <2>3. ~({"close", "read"} \subseteq todo')
    BY <1>4 DEF Poll
  <2> QED
    BY <1>b, <1>k, <2>1, <2>2, <2>3, BasicIdle
<1>5. CASE RunBuildConnect
  <2>1. status_ = "CONNECTING" /\ ups = 0
    BY <1>5, <1>b, <1>t DEF RunBuildConnect, Takes, BuiltOnce, BasicLife
  <2>2. /\ status_' = "CONNECTED" /\ channel_' = enable_reading(channel_) /\ pc' = "up"
        /\ ups' = 1 /\ UNCHANGED <<failed, todo, checked, removal, downs>>
    BY <1>5, <2>1 DEF RunBuildConnect
  <2>3. removal = "none" /\ downs = 0 /\ todo = {}
    BY <1>5, <1>b, <2>1 DEF BasicLife, RunBuildConnect, Takes, Idle
  <2>4. channel_'.status = "ADD" /\ "read" \in channel_'.events /\ ~channel_'.failed
    BY <1>b, <2>1, <2>2, ChannelLife DEF BasicChannel, Typed
  <2>5. BasicChannel'
    BY <2>2, <2>3, <2>4 DEF BasicChannel
  <2>6. BasicLife'
    BY <1>b, <2>2, <2>3 DEF BasicLife
  <2>7. BasicPending'
    BY <1>5, <1>b, <1>t, <2>2, BasicPendingKept DEF RunBuildConnect, Takes
  <2> QED
    BY <2>5, <2>6, <2>7
<1>6. CASE RunDestroyConnect
  <2>1. removal = "queued" /\ status_ = "DISCONNECTED" /\ pending # <<>>
        /\ Head(pending).f = "destroy_connect" /\ pc = "loop"
    BY <1>6, <1>b, <1>t DEF RunDestroyConnect, Takes, Idle, BasicPending, BasicLife
  <2>2. /\ channel_' = remove(channel_) /\ removal' = "done" /\ pc' = "loop"
        /\ UNCHANGED <<status_, downs, todo, checked, ups, failed>>
    BY <1>6, <2>1 DEF RunDestroyConnect, DestroyConnect, MustNotify
  <2>3. /\ channel_'.status = "NEW" /\ channel_'.events = {} /\ ~channel_'.registered
        /\ ~channel_'.added_to_loop_ /\ ~channel_'.failed
    BY <1>b, <2>1, <2>2, ChannelLife DEF BasicChannel, Typed
  <2>4. BasicChannel'
    BY <2>1, <2>2, <2>3 DEF BasicChannel
  <2>5. BasicLife'
    BY <1>b, <2>1, <2>2 DEF BasicLife
  <2>6. BasicPending'
    BY <1>6, <1>b, <1>t, <2>1, BasicPendingKept DEF RunDestroyConnect
  <2> QED
    BY <2>4, <2>5, <2>6
<1>7. CASE RunShutdown \/ Shutdown
  <2>1. /\ UNCHANGED <<channel_, removal, checked, ups, downs, failed, pc, todo>>
        /\ \/ status_' = status_
           \/ status_ = "CONNECTED" /\ status_' = "DISCONNECTING"
    BY <1>7 DEF RunShutdown, Shutdown, ShutdownInLoop, histVars
  <2>2. \/ Adds(pending, BasicFunctors)
        \/ pending # <<>> /\ Adds(Tail(pending), BasicFunctors)
    BY <1>7, <1>k, <1>t DEF RunShutdown, Shutdown, Takes
  <2>3. BasicChannel'
    BY <1>b, <2>1 DEF BasicChannel
  <2>4. BasicLife'
    BY <1>b, <2>1 DEF BasicLife
  <2>5. BasicPending'
    BY <1>b, <2>1, <2>2, BasicPendingKept
  <2> QED
    BY <2>3, <2>4, <2>5
<1>8. CASE RunCallback
  <2>1. /\ UNCHANGED <<status_, channel_, removal, checked, ups, downs, failed, todo>>
        /\ pc' = "app" /\ pending # <<>> /\ pending' = Tail(pending)
    BY <1>8 DEF RunCallback, Takes, connVars, histVars
  <2> QED
    BY <1>b, <1>k, <1>t, <2>1, BasicIdle
<1>9. CASE AppReturns
  <2>0. pc # "gone" /\ UNCHANGED <<pending, todo, checked, ups, failed>>
    BY <1>9, <1>b DEF AppReturns, BasicLife
  <2>1. CASE pc = "down" /\ single
    <3>1. status_ = "DISCONNECTED" /\ removal = "none"
      BY <1>b, <2>1 DEF BasicLife
    <3>2. /\ channel_' = remove(channel_) /\ removal' = "done" /\ pc' = "loop"
          /\ UNCHANGED <<status_, downs>>
      BY <1>9, <2>1, <3>1 DEF AppReturns, DestroyConnect, MustNotify
    <3>3. /\ channel_'.status = "NEW" /\ channel_'.events = {} /\ ~channel_'.registered
          /\ ~channel_'.added_to_loop_ /\ ~channel_'.failed
      BY <1>b, <3>1, <3>2, ChannelLife DEF BasicChannel, Typed
    <3>4. BasicChannel'
      BY <3>1, <3>2, <3>3 DEF BasicChannel
    <3>5. BasicLife'
      BY <1>b, <2>0, <3>1, <3>2 DEF BasicLife
    <3>6. BasicPending'
      BY <1>b, <1>k, <2>0, <3>1, BasicPendingKept
    <3> QED
      BY <3>4, <3>5, <3>6
  <2>2. CASE pc = "down" /\ ~single
    <3>1. status_ = "DISCONNECTED" /\ removal = "none"
      BY <1>b, <2>2 DEF BasicLife
    <3>2. removal' = "base" /\ pc' = "loop" /\ UNCHANGED <<status_, channel_, downs>>
      BY <1>9, <2>2, <3>1 DEF AppReturns
    <3>3. BasicChannel'
      BY <1>b, <3>1, <3>2 DEF BasicChannel
    <3>4. BasicLife'
      BY <1>b, <2>0, <3>1, <3>2 DEF BasicLife
    <3>5. BasicPending'
      BY <1>b, <1>k, <2>0, <3>1, BasicPendingKept
    <3> QED
      BY <3>3, <3>4, <3>5
  <2>3. CASE pc # "down"
    <3>1. pc' = "loop" /\ UNCHANGED <<status_, channel_, removal, downs>>
      BY <1>9, <2>0, <2>3 DEF AppReturns
    <3> QED
      BY <1>b, <1>k, <2>0, <3>1, BasicIdle
  <2> QED
    BY <2>1, <2>2, <2>3 DEF Typed
<1>10. CASE Send /\ status_ # "CONNECTED"
  <2>1. UNCHANGED <<status_, channel_, removal, checked, ups, downs, failed, pending, pc, todo>>
    BY <1>10 DEF Send
  <2> QED
    BY <1>b, <1>k, <2>1, BasicIdle
<1>11. CASE BaseRemoves
  <2>1. /\ removal = "base" /\ removal' = "queued"
        /\ pending' = Append(pending, Functor("destroy_connect"))
        /\ UNCHANGED <<status_, channel_, pc, todo, checked, ups, downs, failed>>
    BY <1>11 DEF BaseRemoves, connVars, histVars
  <2>2. /\ Functor("destroy_connect") \in QueuedFunctors
        /\ Functor("destroy_connect").f = "destroy_connect"
    BY FunctorType DEF Functors
  <2>3. Adds(pending, {"destroy_connect"}) /\ Len(pending') = Len(pending) + 1
    BY <1>p, <2>1, <2>2, AddsOne
  <2>4. \A i \in 1..Len(pending') :
          \/ i \in 1..Len(pending) /\ pending'[i] = pending[i]
          \/ i = Len(pending) + 1 /\ pending'[i].f = "destroy_connect"
    BY <1>p, <2>3 DEF Adds
  <2>5. \A i \in 1..Len(pending) : pending[i].f # "destroy_connect"
    BY <1>b, <2>1 DEF BasicPending
  <2>6. BasicPending'
    BY <1>b, <2>1, <2>4, <2>5 DEF BasicPending
  <2>7. BasicChannel' /\ BasicLife'
    BY <1>b, <2>1 DEF BasicChannel, BasicLife
  <2> QED
    BY <2>6, <2>7
<1>12. CASE /\ Adds(pending, BasicFunctors)
            /\ UNCHANGED <<connVars, pc, todo, removal, ups, downs, failed>>
            /\ 0 \notin checked'
  <2>1. UNCHANGED <<status_, channel_>>
    BY <1>12 DEF connVars
  <2> QED
    BY <1>12, <1>b, <2>1, BasicIdle
<1> QED
  BY <1>s, <1>1, <1>2, <1>3, <1>4, <1>5, <1>6, <1>7, <1>8, <1>9, <1>10, <1>11, <1>12
     DEF BasicStep, StreamStep

(* StreamInv and BasicInv hold in every reachable state. *)
LEMMA ConnectionInvariant == Spec => [](StreamInv /\ BasicInv)
<1>1. Init => StreamInv /\ BasicInv
  <2> SUFFICES ASSUME Init PROVE StreamInv /\ BasicInv
    OBVIOUS
  <2>1. StreamInv
    BY InitStreamInv
  <2>2. pending \in Seq(QueuedFunctors) /\ Len(pending) = 1 /\ pending[1].f = "build_connect"
    BY FunctorType DEF Init, Functors, QueuedFunctors
  <2>3. BasicPending
    BY <2>2 DEF Init, BasicPending
  <2>4. BasicChannel
    BY DEF Init, BasicChannel, NewChannel
  <2>5. BasicLife
    BY DEF Init, BasicLife
  <2> QED
    BY <2>1, <2>3, <2>4, <2>5 DEF BasicInv
<1>2. StreamInv /\ BasicInv /\ [Next]_vars => StreamInv' /\ BasicInv'
  <2>1. ASSUME BasicInv, UNCHANGED vars PROVE BasicInv'
    BY <2>1 DEF vars, BasicInv, BasicUse, BasicPending, BasicChannel, BasicLife
  <2> QED
    BY <2>1, NextStreamInv, NextBasicInv
<1> QED
  BY <1>1, <1>2, PTL DEF Spec

-------------------------------------------------------------------------------
(* What is proved of the connection.                                         *)

(* Events, functors, calls and the server's steps keep the types. *)
THEOREM TypeCorrect == Spec => []TypeOK
<1>1. StreamInv => TypeOK
  BY TypedTypeOK DEF StreamInv
<1> QED
  BY <1>1, ConnectionInvariant, PTL

(* No byte given to send_in_loop_ is lost, doubled or overtaken, in whatever
   order send, handle_write_ and the partial writes of the kernel come. *)
THEOREM StreamWhole == Spec => []StreamIntegrity
  BY ConnectionInvariant, PTL DEF StreamInv

(* The channel is armed for writing exactly while bytes wait, until the
   connection ends (send_in_loop_, handle_write_). *)
THEOREM ArmedExactly == Spec => []ArmedIffBuffered
<1>1. StreamInv => ArmedIffBuffered
  BY DEF StreamInv, ArmedIffBuffered, WritingHasData, DataIsWritten
<1> QED
  BY <1>1, ConnectionInvariant, PTL

(* shutdown_write is called only when every accepted byte is with the kernel
   (shutdown_in_loop_), and later calls of send add none. *)
THEOREM FinBehindData == Spec => []FinAfterData
  BY ConnectionInvariant, PTL DEF StreamInv

(* No assertion of TcpConnection, Channel or Epoller fails in basic use. *)
THEOREM NoAssertionFails == Spec => []AssertionsHold
<1>1. BasicInv => AssertionsHold
  BY DEF BasicInv, BasicLife, BasicChannel, AssertionsHold, Healthy
<1> QED
  BY <1>1, ConnectionInvariant, PTL

(* connection_cb_ reports the end of a connection once, and after its beginning. *)
THEOREM EndReportedOnce == Spec => []UpThenDownOnce
<1>1. StreamInv /\ BasicInv => UpThenDownOnce
  BY DEF StreamInv, Typed, BasicInv, BasicLife, UpThenDownOnce
<1> QED
  BY <1>1, ConnectionInvariant, PTL

(* A connection taken down in basic use is in the state that ~Channel and
   ~TcpConnection assert. *)
THEOREM TakenDownClean == Spec => []DestroyedClean
<1>1. BasicInv => DestroyedClean
  BY DEF BasicInv, BasicLife, BasicChannel, DestroyedClean
<1> QED
  BY <1>1, ConnectionInvariant, PTL
===============================================================================
