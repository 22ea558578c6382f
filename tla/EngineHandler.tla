--------------------------- MODULE EngineHandler ---------------------------
(***************************************************************************)
(* EngineHandlerBase: the inference thread of each handler and the steps   *)
(* of TerminateEngine, which the main thread takes.                        *)
(*                                                                         *)
(* An inference thread is "down" (not started), at the head of its "loop", *)
(* in "dequeue", in "preprocess" with an input, in "infer" with a complete *)
(* batch, in "push" with the answers of a batch, or "exited".              *)
(***************************************************************************)
EXTENDS InferenceQueues

VARIABLES is_running,          \* running flag of inference_thread_
          is_activate_handler, \* is_activate_handler_
          hpc,                 \* where each inference thread is
          input,               \* input_data, as a sequence of at most one
          batch,               \* current_batch_inputs_
          outputs,             \* answers of a batch not yet pushed
          flushed              \* inputs swapped out by the closer, not yet answered

handlerVars == <<is_running, is_activate_handler, hpc, input, batch, outputs, flushed>>

HandlerPCs == {"down", "loop", "dequeue", "preprocess", "infer", "push", "exited"}

HandlerInit == /\ is_running = [h \in Handlers |-> FALSE]
               /\ is_activate_handler = [h \in Handlers |-> FALSE]
               /\ hpc = [h \in Handlers |-> "down"]
               /\ input = [h \in Handlers |-> <<>>]
               /\ batch = [h \in Handlers |-> <<>>]
               /\ outputs = [h \in Handlers |-> <<>>]
               /\ flushed = [h \in Handlers |-> <<>>]

HandlerTypeOK == /\ is_running \in [Handlers -> BOOLEAN]
                 /\ is_activate_handler \in [Handlers -> BOOLEAN]
                 /\ hpc \in [Handlers -> HandlerPCs]
                 /\ input \in [Handlers -> Seq(Request)]
                 /\ batch \in [Handlers -> Seq(Request)]
                 /\ outputs \in [Handlers -> Seq(Request)]
                 /\ flushed \in [Handlers -> Seq(Request)]

Goto(h, place) == hpc' = [hpc EXCEPT ![h] = place]

(***************************************************************************)
(* ActivateEngine after Link and InitializeDeviceAndModel have succeeded.  *)
(***************************************************************************)
StartInferenceThread(h) ==
    /\ is_running' = [is_running EXCEPT ![h] = TRUE]
    /\ is_activate_handler' = [is_activate_handler EXCEPT ![h] = TRUE]
    /\ Goto(h, "loop")
    /\ UNCHANGED <<input, batch, outputs, flushed>>

(***************************************************************************)
(* InferenceThreadRunner.  InitializeDevice of the only engine class       *)
(* always succeeds.                                                        *)
(***************************************************************************)
LoopHead(h) == /\ hpc[h] = "loop"
               /\ Goto(h, IF is_running[h] THEN "dequeue" ELSE "exited")
               /\ UNCHANGED <<queueVars, is_running, is_activate_handler, input, batch,
                              outputs, flushed>>

DequeueInput(h) ==
    /\ hpc[h] = "dequeue"
    /\ ~requestClosed[h] /\ requestQ[h] # <<>>
    /\ input' = [input EXCEPT ![h] = <<Head(requestQ[h])>>]
    /\ requestQ' = [requestQ EXCEPT ![h] = Tail(@)]
    /\ Goto(h, "preprocess")
    /\ UNCHANGED <<requestClosed, respondQ, respondClosed, is_running, is_activate_handler,
                   batch, outputs, flushed>>

DequeueNothing(h) ==
    /\ hpc[h] = "dequeue"
    /\ requestClosed[h] \/ requestQ[h] = <<>>
    /\ Goto(h, "loop")
    /\ UNCHANGED <<queueVars, is_running, is_activate_handler, input, batch, outputs, flushed>>

(***************************************************************************)
(* Preprocess throws before it stored the input: a failure answer is sent. *)
(***************************************************************************)
SilentPreprocessThrows(h) ==
    /\ hpc[h] = "preprocess"
    /\ input' = [input EXCEPT ![h] = <<>>]
    /\ Goto(h, "loop")
    /\ UNCHANGED <<queueVars, is_running, is_activate_handler, batch, outputs, flushed>>

PreprocessThrows(h) ==
    /\ hpc[h] = "preprocess"
    /\ respondQ' = respondQ \o input[h]
    /\ input' = [input EXCEPT ![h] = <<>>]
    /\ Goto(h, "loop")
    /\ UNCHANGED <<requestQ, requestClosed, respondClosed, is_running, is_activate_handler,
                   batch, outputs, flushed>>

(***************************************************************************)
(* Preprocess adds the input to the batch, which is ready when full.       *)
(***************************************************************************)
Preprocess(h) ==
    /\ hpc[h] = "preprocess"
    /\ batch' = [batch EXCEPT ![h] = @ \o input[h]]
    /\ input' = [input EXCEPT ![h] = <<>>]
    /\ Goto(h, IF Len(batch[h] \o input[h]) >= BatchSize[h] THEN "infer" ELSE "loop")
    /\ UNCHANGED <<queueVars, is_running, is_activate_handler, outputs, flushed>>

(***************************************************************************)
(* DoInference and Postprocess: when both succeed there is one result per  *)
(* input of the batch, and when either fails one failure answer per input. *)
(***************************************************************************)
Infer(h) == /\ hpc[h] = "infer"
            /\ outputs' = [outputs EXCEPT ![h] = batch[h]]
            /\ batch' = [batch EXCEPT ![h] = <<>>]
            /\ Goto(h, "push")
            /\ UNCHANGED <<queueVars, is_running, is_activate_handler, input, flushed>>

PushOutput(h) == /\ hpc[h] = "push"
                 /\ respondQ' = Append(respondQ, Head(outputs[h]))
                 /\ outputs' = [outputs EXCEPT ![h] = Tail(@)]
                 /\ Goto(h, IF Len(outputs[h]) = 1 THEN "loop" ELSE "push")
                 /\ UNCHANGED <<requestQ, requestClosed, respondClosed, is_running,
                                is_activate_handler, input, batch, flushed>>

InferenceThread(h) == \/ LoopHead(h)
                      \/ DequeueInput(h)
                      \/ DequeueNothing(h)
                      \/ PreprocessThrows(h)
                      \/ Preprocess(h)
                      \/ Infer(h)
                      \/ PushOutput(h)

-----------------------------------------------------------------------------
(***************************************************************************)
(* TerminateEngine: clear the flags, then InferenceThreadCloser closes the *)
(* input queue, swaps its content out and answers it, then join.           *)
(***************************************************************************)
NoFlagStopInferenceThread(h) ==
    /\ is_activate_handler[h]
    /\ is_activate_handler' = [is_activate_handler EXCEPT ![h] = FALSE]
    /\ UNCHANGED <<queueVars, is_running, hpc, input, batch, outputs, flushed>>

StopInferenceThread(h) ==
    /\ is_activate_handler[h]
    /\ is_activate_handler' = [is_activate_handler EXCEPT ![h] = FALSE]
    /\ is_running' = [is_running EXCEPT ![h] = FALSE]
    /\ UNCHANGED <<queueVars, hpc, input, batch, outputs, flushed>>

CloseRequestQ(h) ==
    /\ requestClosed' = [requestClosed EXCEPT ![h] = TRUE]
    /\ UNCHANGED <<requestQ, respondQ, respondClosed, handlerVars>>

FlushRequestQ(h) ==
    /\ flushed' = [flushed EXCEPT ![h] = requestQ[h]]
    /\ requestQ' = [requestQ EXCEPT ![h] = <<>>]
    /\ UNCHANGED <<requestClosed, respondQ, respondClosed, is_running, is_activate_handler,
                   hpc, input, batch, outputs>>

AnswerFlushed(h) ==
    /\ flushed[h] # <<>>
    /\ respondQ' = Append(respondQ, Head(flushed[h]))
    /\ flushed' = [flushed EXCEPT ![h] = Tail(@)]
    /\ UNCHANGED <<requestQ, requestClosed, respondClosed, is_running, is_activate_handler,
                   hpc, input, batch, outputs>>

JoinInferenceThread(h) ==
    /\ flushed[h] = <<>>
    /\ hpc[h] = "exited"
    /\ UNCHANGED <<queueVars, handlerVars>>
=============================================================================
