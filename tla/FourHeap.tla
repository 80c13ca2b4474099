------------------------------- MODULE FourHeap --------------------------------
(***************************************************************************)
(* FourHeap (base/four_heap.cc): the timers in a vector ordered as a heap  *)
(* and a map from a timer's id to its position.  A heap is the record      *)
(* [heap, index]; positions count from 0 as in the code.  A node is a      *)
(* record [id, when, repeat], its expiry relative to now.  The operators   *)
(* follow the code for vectors of at most five nodes, where the loop of    *)
(* shif_down_ ends after one round and that of get_k in its second round   *)
(* or never.                                                               *)
(***************************************************************************)
EXTENDS Integers, Sequences, SequencesExt, Functions

EmptyHeap == [heap |-> <<>>, index |-> <<>>]

Size(q) == Len(q.heap)
Positions(q) == 0..(Size(q) - 1)
At(q, p) == q.heap[p + 1]

find(q, id) == id \in DOMAIN q.index
front(q) == At(q, 0)

(* index_[id] = p, which makes the entry if there is none. *)
SetIndex(index, id, p) == [x \in DOMAIN index \cup {id} |-> IF x = id THEN p ELSE index[x]]

(* Fault: only the node that moves up is entered in the map. *)
swap_OneEntry(q, l, r) ==
  LET h == [q.heap EXCEPT ![l + 1] = At(q, r), ![r + 1] = At(q, l)]
  IN [heap |-> h, index |-> SetIndex(q.index, h[l + 1].id, l)]

swap_(q, l, r) ==
  LET h == [q.heap EXCEPT ![l + 1] = At(q, r), ![r + 1] = At(q, l)]
  IN [heap |-> h, index |-> SetIndex(SetIndex(q.index, h[l + 1].id, l), h[r + 1].id, r)]

(* The children are sought from pos << 2 + 1, which is 8 * pos: those of the root
   at 0..3, those of any other node beyond the vector. *)
shif_down_(q, pos) ==
  LET kids == {k \in 8 * pos .. 8 * pos + 3 : k < Size(q)}
      less == {k \in kids : At(q, k).when < At(q, pos).when}
      mini == CHOOSE k \in less : \A j \in less :
                \/ At(q, k).when < At(q, j).when
                \/ At(q, k).when = At(q, j).when /\ k <= j
  IN IF less = {} THEN q ELSE swap_(q, pos, mini)

(* One step towards the root: the parent of pos is computed again in every round,
   so the second round compares the parent with itself. *)
shif_up_(q, pos) ==
  IF pos > 0 /\ At(q, pos).when < At(q, (pos - 1) \div 4).when
  THEN swap_(q, pos, (pos - 1) \div 4)
  ELSE q

shif_down_or_up(q, pos) ==
  IF shif_down_(q, pos) = q THEN shif_up_(q, pos) ELSE shif_down_(q, pos)

(* Fault: the node that takes the place of the removed one is not sifted. *)
destory_NoSift(q, pos) ==
  LET s == IF pos < Size(q) - 1 THEN swap_(q, pos, Size(q) - 1) ELSE q
  IN [heap |-> Front(s.heap), index |-> Restrict(s.index, DOMAIN s.index \ {Last(s.heap).id})]

(* destory_ swaps the node with the last one, drops it and restores the order. *)
destory_(q, pos) ==
  LET s == IF pos < Size(q) - 1 THEN swap_(q, pos, Size(q) - 1) ELSE q
      r == [heap |-> Front(s.heap), index |-> Restrict(s.index, DOMAIN s.index \ {Last(s.heap).id})]
  IN IF pos < Size(r) THEN shif_down_or_up(r, pos) ELSE r

push(q, node) ==
  IF find(q, node.id)
  THEN LET pos == q.index[node.id]
       IN shif_down_or_up([q EXCEPT !.heap[pos + 1] = node], pos)
  ELSE shif_up_([heap |-> Append(q.heap, node), index |-> SetIndex(q.index, node.id, Size(q))],
                Size(q))

remove(q, id) == IF find(q, id) THEN destory_(q, q.index[id]) ELSE q

(* reset of a timer that is in the heap. *)
reset(q, id, when) ==
  shif_down_([q EXCEPT !.heap[q.index[id] + 1].when = when], q.index[id])

extend(q, by, id, repeat) ==
  LET pos == q.index[id]
  IN shif_down_([q EXCEPT !.heap[pos + 1].when = @ + by, !.heap[pos + 1].repeat = repeat], pos)

Due(node) == node.when <= 0

(* get_k looks at the root, then at the latest of the nodes 1..4: if that one is
   not due it stops with the root alone.  If it is due it is taken and the nodes
   1..4 are put back, itself among them: the loop never ends. *)
get_k(q) == IF Size(q) > 0 /\ Due(front(q)) THEN <<front(q)>> ELSE <<>>
get_k_hangs(q) == Size(q) > 1 /\ \A p \in Positions(q) : Due(At(q, p))
===============================================================================
