------------------------------ MODULE LossyFifo ------------------------------
(***************************************************************************)
(* What SafeQueue promises its users: items, numbered in the order they    *)
(* are sent, are received in that order and at most once; the channel may  *)
(* lose items, only the ones that are waiting, and a Send that loses items *)
(* loses the oldest; a closed channel delivers nothing.                    *)
(***************************************************************************)
EXTENDS Naturals

VARIABLES sent,     \* the number of the last item sent
          pending,  \* the items waiting in the channel
          received, \* the number of the last item received, 0 for none
          closed

fvars == <<sent, pending, received, closed>>

Oldest(x) == x \in pending /\ \A y \in pending : x <= y

FInit == sent = 0 /\ pending = {} /\ received = 0 /\ closed = FALSE

Send == /\ sent' = sent + 1
        /\ \/ pending' = pending \cup {sent + 1}
           \/ \E x \in pending : Oldest(x) /\ pending' = (pending \ {x}) \cup {sent + 1}
        /\ UNCHANGED <<received, closed>>

Receive == /\ ~closed
           /\ \E x \in pending : /\ Oldest(x)
                                 /\ x > received
                                 /\ pending' = pending \ {x}
                                 /\ received' = x
           /\ UNCHANGED <<sent, closed>>

Discard == pending' = {} /\ UNCHANGED <<sent, received, closed>>

Close == closed' = TRUE /\ UNCHANGED <<sent, pending, received>>

FNext == Send \/ Receive \/ Discard \/ Close

FSpec == FInit /\ [][FNext]_fvars
=============================================================================
