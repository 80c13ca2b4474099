-------------------------------- MODULE Buffer ---------------------------------
(***************************************************************************)
(* Buffer (src/base/buffer.h, buffer.cc): a byte vector with a read and a  *)
(* write index and cheap_prepend spare bytes in front.  Connections read   *)
(* into one and write from another; the log and the HTTP context use it    *)
(* too.  A buffer is a record, the operations are operators on records, so *)
(* that what they do can be said once and for two buffers to be swapped.   *)
(***************************************************************************)
EXTENDS Naturals, Sequences

CONSTANTS Bufs,           \* the buffers
          Byte,           \* the values of a byte
          Nul,            \* the value resize fills with
          cheap_prepend, initial_size,
          ExtraBuf,       \* sizeof extrabuf in read_fd
          Strings,        \* what callers append and what arrives on a socket
          MaxBytes        \* bound on what a buffer is made to hold

ASSUME ByteAssumption == Nul \in Byte /\ Strings \subseteq Seq(Byte)
ASSUME SizeAssumption ==
  {cheap_prepend, initial_size, ExtraBuf, MaxBytes} \subseteq Nat

VARIABLES buf,  \* buf[k] is the k-th buffer
          op    \* the last call: its name, its buffers, the bytes it moved

vars == <<buf, op>>

Call(name, k, l, d) == [name |-> name, on |-> k, with |-> l, data |-> d]

-------------------------------------------------------------------------------
(* One buffer.  buffer_ is a sequence: the byte at index i of the vector is    *)
(* buffer_[i + 1].                                                             *)

Buffers == [buffer_ : Seq(Byte), reader_index_ : Nat, writer_index_ : Nat]

NewBuffer == [buffer_ |-> [i \in 1..(cheap_prepend + initial_size) |-> Nul],
              reader_index_ |-> cheap_prepend,
              writer_index_ |-> cheap_prepend]

read_able_bytes(b) == b.writer_index_ - b.reader_index_
write_able_bytes(b) == Len(b.buffer_) - b.writer_index_
prepend_able_bytes(b) == b.reader_index_

(* The bytes between the indexes: what peek() points at. *)
Content(b) == [i \in 1..read_able_bytes(b) |-> b.buffer_[b.reader_index_ + i]]

(* std::copy of d to index at of the vector s. *)
Copy(s, at, d) ==
  [i \in 1..Len(s) |-> IF at < i /\ i <= at + Len(d) THEN d[i - at] ELSE s[i]]

Resize(s, n) == [i \in 1..n |-> IF i <= Len(s) THEN s[i] ELSE Nul]

(* Fault: the reserved bytes in front are counted as room. *)
MustGrow_NoPrepend(b, len) == write_able_bytes(b) + prepend_able_bytes(b) < len

MustGrow(b, len) ==
  write_able_bytes(b) + prepend_able_bytes(b) < len + cheap_prepend

(* Fault: the bytes are taken from begin(), not from the read index. *)
Compact_FromBegin(b) ==
  [buffer_ |-> Copy(b.buffer_, cheap_prepend, SubSeq(b.buffer_, 1, read_able_bytes(b))),
   reader_index_ |-> cheap_prepend,
   writer_index_ |-> cheap_prepend + read_able_bytes(b)]

(* Move the bytes to the front of the store. *)
Compact(b) ==
  [buffer_ |-> Copy(b.buffer_, cheap_prepend, Content(b)),
   reader_index_ |-> cheap_prepend,
   writer_index_ |-> cheap_prepend + read_able_bytes(b)]

(* Fault: the store is made longer, never tidied. *)
makespace_Grows(b, len) ==
  [b EXCEPT !.buffer_ = Resize(b.buffer_, b.writer_index_ + len)]

makespace(b, len) ==
  IF MustGrow(b, len)
    THEN [b EXCEPT !.buffer_ = Resize(b.buffer_, b.writer_index_ + len)]
    ELSE Compact(b)

ensure(b, len) == IF write_able_bytes(b) < len THEN makespace(b, len) ELSE b

(* Copy d to begin_write(), then has_written(Len(d)). *)
Write(b, d) == [b EXCEPT !.buffer_ = Copy(b.buffer_, b.writer_index_, d),
                         !.writer_index_ = b.writer_index_ + Len(d)]

append(b, d) == Write(ensure(b, Len(d)), d)

prepend(b, d) ==
  [b EXCEPT !.buffer_ = Copy(b.buffer_, b.reader_index_ - Len(d), d),
            !.reader_index_ = b.reader_index_ - Len(d)]

retrieve_all(b) == [b EXCEPT !.reader_index_ = cheap_prepend,
                             !.writer_index_ = cheap_prepend]

retrieve(b, len) ==
  IF len < read_able_bytes(b)
    THEN [b EXCEPT !.reader_index_ = b.reader_index_ + len]
    ELSE retrieve_all(b)

(* read_fd, d being what readv delivers: into the room at the back, and what
   does not fit into extrabuf, from which it is appended. *)
read_fd(b, d) ==
  LET room == write_able_bytes(b)
  IN IF Len(d) <= room
       THEN Write(b, d)
       ELSE append(Write(b, SubSeq(d, 1, room)), SubSeq(d, room + 1, Len(d)))

(* write_fd, when write(2) takes n bytes. *)
write_fd(b, n) == [b EXCEPT !.reader_index_ = b.reader_index_ + n]

-------------------------------------------------------------------------------
(* The specification: calls on any of the buffers, one at a time.             *)

Init ==
  /\ buf = [k \in Bufs |-> NewBuffer]
  /\ \E k \in Bufs : op = Call("new", k, k, <<>>)

Fits(k, d) == read_able_bytes(buf[k]) + Len(d) <= MaxBytes

AppendData(k, d) ==
  /\ Fits(k, d)
  /\ buf' = [buf EXCEPT ![k] = append(buf[k], d)]
  /\ op' = Call("in", k, k, d)

(* The caller keeps to the assertion len <= prepend_able_bytes(). *)
Prepend(k, d) ==
  /\ Fits(k, d)
  /\ Len(d) <= prepend_able_bytes(buf[k])
  /\ buf' = [buf EXCEPT ![k] = prepend(buf[k], d)]
  /\ op' = Call("front", k, k, d)

(* retrieve, retrieve_unitil, retrieve_string, retrieve_all_string: the caller
   keeps to the assertion len <= read_able_bytes(). *)
Retrieve(k, n) ==
  /\ n <= read_able_bytes(buf[k])
  /\ buf' = [buf EXCEPT ![k] = retrieve(buf[k], n)]
  /\ op' = Call("out", k, k, SubSeq(Content(buf[k]), 1, n))

ReadFd(k, d) ==
  /\ Fits(k, d)
  /\ Len(d) <= write_able_bytes(buf[k]) + ExtraBuf
  /\ buf' = [buf EXCEPT ![k] = read_fd(buf[k], d)]
  /\ op' = Call("in", k, k, d)

WriteFd(k, n) ==
  /\ n <= read_able_bytes(buf[k])
  /\ buf' = [buf EXCEPT ![k] = write_fd(buf[k], n)]
  /\ op' = Call("out", k, k, SubSeq(Content(buf[k]), 1, n))

Swap(k, l) ==
  /\ buf' = [buf EXCEPT ![k] = buf[l], ![l] = buf[k]]
  /\ op' = Call("swap", k, l, <<>>)

Next ==
  \/ \E k \in Bufs, d \in Strings : AppendData(k, d) \/ Prepend(k, d) \/ ReadFd(k, d)
  \/ \E k \in Bufs, n \in 0..MaxBytes : Retrieve(k, n) \/ WriteFd(k, n)
  \/ \E k, l \in Bufs : Swap(k, l)

Spec == Init /\ [][Next]_vars

-------------------------------------------------------------------------------
(* Properties.                                                                *)

(* The indexes of a buffer, and those that retrieve_all sets, are in order and
   inside the vector. *)
Ordered(b) ==
  /\ b.reader_index_ <= b.writer_index_
  /\ b.writer_index_ <= Len(b.buffer_)
  /\ cheap_prepend <= Len(b.buffer_)

(* The indexes stay in order and inside the vector after any calls, so that no
   copy of append, prepend, makespace or read_fd leaves the vector. *)
TypeOK ==
  /\ buf \in [Bufs -> Buffers]
  /\ \A k \in Bufs : Ordered(buf[k])
  /\ op \in [name : {"new", "in", "front", "out", "swap"}, on : Bufs, with : Bufs,
             data : Seq(Byte)]

Queue == INSTANCE ByteQueue WITH bytes <- [k \in Bufs |-> Content(buf[k])]

(* Through all the moving and growing of makespace, and the detour over extrabuf
   in read_fd, no byte is lost, changed or taken out of order. *)
ImplementsByteQueue == Queue!Spec

(* The vector is made longer only when what it is to hold would not fit behind
   the cheap_prepend bytes: room given up by retrieve is used first (makespace). *)
GrowsOnlyWhenFull ==
  [][op'.name # "swap" =>
       \A k \in Bufs : Len(buf'[k].buffer_) > Len(buf[k].buffer_) =>
         cheap_prepend + read_able_bytes(buf'[k]) > Len(buf[k].buffer_)]_vars
===============================================================================
