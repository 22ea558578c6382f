---------------------------- MODULE SafeQueueOps ----------------------------
(***************************************************************************)
(* The effect of one SafeQueue critical section on the deque it guards     *)
(* (BasicLibs/core/structure/SafeQueue.h).  Every queue of the program is  *)
(* an instance of this class, so the other modules use these operators.    *)
(***************************************************************************)
EXTENDS Naturals, Sequences

(***************************************************************************)
(* enqueue_copy / enqueue_move evict the oldest element when the capacity  *)
(* max_size_ is set (0 means unlimited) and has been reached.              *)
(***************************************************************************)
OffByOneIsFull(q, max) == max > 0 /\ Len(q) > max

IsFull(q, max) == max > 0 /\ Len(q) >= max

DropNewestKept(q, max) == IF IsFull(q, max) THEN SubSeq(q, 1, Len(q) - 1) ELSE q

Kept(q, max) == IF IsFull(q, max) THEN Tail(q) ELSE q

Enqueue(q, max, x) == Append(Kept(q, max), x)

(***************************************************************************)
(* The elements an enqueue evicts: none, or the head.                      *)
(***************************************************************************)
Evicted(q, max) == IF IsFull(q, max) THEN {Head(q)} ELSE {}

(***************************************************************************)
(* The elements of a queue, as a set.                                      *)
(***************************************************************************)
Elems(q) == {q[i] : i \in 1..Len(q)}
=============================================================================
