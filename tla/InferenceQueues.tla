-------------------------- MODULE InferenceQueues --------------------------
(***************************************************************************)
(* What the load balancer and the engine handlers share: one input queue   *)
(* per handler (created by EngineHandlerBase::Link and passed to the load  *)
(* balancer's Linker) and one response queue (infer_respond_receiver_).    *)
(* Both are SafeQueues without a capacity.                                 *)
(***************************************************************************)
EXTENDS SafeQueueOps, FiniteSets

CONSTANTS Units,       \* camera units, the clients of the load balancer
          NumHandlers, \* engine handlers, one per NPU core
          BatchSize,   \* InferenceBatchSize of each handler's engine profile
          MaxInput,    \* MAX_ENGINE_INFER_INPUT_QUEUE_SIZE
          ResultCap,   \* capacity of a unit's result queue
          MaxRequests  \* bound: requests made by a unit

ASSUME UnitsAssumption    == IsFiniteSet(Units) /\ Units # {}
ASSUME HandlersAssumption == NumHandlers \in Nat \ {0}
ASSUME MaxInputAssumption == MaxInput \in Nat \ {0}
ASSUME ResultAssumption   == ResultCap \in Nat \ {0}
ASSUME RequestsAssumption == MaxRequests \in [Units -> Nat]

Handlers == 1..NumHandlers

ASSUME BatchAssumption == BatchSize \in [Handlers -> Nat \ {0}]

(***************************************************************************)
(* A request and its answer are told apart by what an answer copies from   *)
(* meta_data: the requester and its correlation id.  The handler that was  *)
(* chosen is recorded with them.  An answer built by                       *)
(* BuildInferenceFailureRespond differs only in its empty list of objects. *)
(***************************************************************************)
Request == [unit : Units, id : Nat, handler : Handlers]

VARIABLES requestQ,      \* request_q_ of each handler
          requestClosed, \* its b_terminate
          respondQ,      \* infer_respond_receiver_
          respondClosed  \* its b_terminate

queueVars == <<requestQ, requestClosed, respondQ, respondClosed>>

QueuesInit == /\ requestQ = [h \in Handlers |-> <<>>]
              /\ requestClosed = [h \in Handlers |-> FALSE]
              /\ respondQ = <<>>
              /\ respondClosed = FALSE

QueuesTypeOK == /\ requestQ \in [Handlers -> Seq(Request)]
                /\ requestClosed \in [Handlers -> BOOLEAN]
                /\ respondQ \in Seq(Request)
                /\ respondClosed \in BOOLEAN
=============================================================================
