------------------------------- MODULE ByteQueue -------------------------------
(***************************************************************************)
(* What Buffer (src/base/buffer.h) promises its users: each buffer is a    *)
(* queue of bytes that is filled at the back, emptied at the front, and    *)
(* may take a header in front of its bytes.  Where the bytes are kept, when *)
(* they are moved and when the store grows is not to be seen.              *)
(***************************************************************************)
EXTENDS Naturals, Sequences

CONSTANTS Bufs,  \* the buffers
          Byte   \* the values of a byte

VARIABLES bytes,  \* what each buffer holds
          op      \* the last call: its name, its buffers, the bytes it moved

queueVars == <<bytes, op>>

Call(name, k, l, d) == [name |-> name, on |-> k, with |-> l, data |-> d]
Calls == [name : {"new", "in", "front", "out", "swap"}, on : Bufs, with : Bufs,
          data : Seq(Byte)]

Init ==
  /\ bytes = [k \in Bufs |-> <<>>]
  /\ \E k \in Bufs : op = Call("new", k, k, <<>>)

(* The next call is op': each operator says what it does to the buffer k that
   it is made on. *)
Changes(k, b) == bytes' = [bytes EXCEPT ![k] = b]

(* append and read_fd put bytes in at the back. *)
PutBack(k) == op'.name = "in" /\ Changes(k, bytes[k] \o op'.data)

(* prepend puts bytes in at the front. *)
PutFront(k) == op'.name = "front" /\ Changes(k, op'.data \o bytes[k])

(* The retrieve functions and write_fd hand over the bytes at the front. *)
Take(k) ==
  /\ op'.name = "out"
  /\ Changes(k, bytes'[k])
  /\ bytes[k] = op'.data \o bytes'[k]

Swap(k) ==
  /\ op'.name = "swap"
  /\ bytes' = [bytes EXCEPT ![k] = bytes[op'.with], ![op'.with] = bytes[k]]

Next ==
  /\ op' \in Calls
  /\ PutBack(op'.on) \/ PutFront(op'.on) \/ Take(op'.on) \/ Swap(op'.on)

Spec == Init /\ [][Next]_queueVars
===============================================================================
