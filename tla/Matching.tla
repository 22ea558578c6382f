------------------------------ MODULE Matching ------------------------------
(***************************************************************************)
(* The assignment problem that MgenHungarianAlgorithm solves, stated       *)
(* without an algorithm.  A cost matrix is a non-empty sequence of rows of *)
(* equal, positive length; an assignment gives each row its column or 0    *)
(* (-1 in the code).                                                       *)
(***************************************************************************)
EXTENDS Sequences, FiniteSetsExt

Rows(cost) == 1..Len(cost)
Cols(cost) == 1..Len(cost[1])

Assigned(a) == {r \in DOMAIN a : a[r] # 0}

(***************************************************************************)
(* As many rows as possible get a column each, and no column goes to two.  *)
(***************************************************************************)
IsComplete(cost, a) ==
    /\ \A r, s \in Assigned(a) : a[r] = a[s] => r = s
    /\ Cardinality(Assigned(a)) = Min({Len(cost), Len(cost[1])})

AssignmentCost(cost, a) == MapThenSumSet(LAMBDA r : cost[r][a[r]], Assigned(a))

LeastCost(cost) ==
    Min({AssignmentCost(cost, a) :
           a \in {b \in [Rows(cost) -> Cols(cost) \cup {0}] : IsComplete(cost, b)}})
=============================================================================
