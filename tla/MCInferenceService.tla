------------------------- MODULE MCInferenceService -------------------------
(***************************************************************************)
(* An instance of InferenceService.  With two units and an input limit of  *)
(* one, a queue is found full, both units pass the test of the size        *)
(* together, and a result queue of one evicts.  The first handler runs     *)
(* batches of one and the second batches of two; one unit makes two        *)
(* requests, so that its answers can be reordered, the other one request.  *)
(***************************************************************************)
EXTENDS InferenceService, TLC

CONSTANTS u1, u2

MCUnits == {u1, u2}

MCBatchSize == <<1, 2>>

MCMaxRequests == u1 :> 2 @@ u2 :> 1
=============================================================================
