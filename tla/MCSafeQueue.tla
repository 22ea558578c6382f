---------------------------- MODULE MCSafeQueue ----------------------------
(***************************************************************************)
(* Three consumers over a bounded queue: the capacity is smaller than the  *)
(* number of items, so the queue is empty, full and evicting, and there    *)
(* are enough consumers for one to be woken while another is blocked and a *)
(* third arrives.  The cfg files give the values.                          *)
(***************************************************************************)
EXTENDS SafeQueue
=============================================================================
