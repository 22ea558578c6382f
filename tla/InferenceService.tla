-------------------------- MODULE InferenceService --------------------------
(***************************************************************************)
(* The load balancer, the engine handlers and the units that use them,     *)
(* with the main thread that activates the engines, starts the units and,  *)
(* in Service_DETECTOR::Quit, terminates the engines one after the other,  *)
(* then the load balancer, then the units.                                 *)
(***************************************************************************)
EXTENDS EngineHandler, EngineLoadBalancer

VARIABLES mpc,        \* where the main thread is
          mh,         \* the handler it activates or terminates
          mu,         \* the unit it is stopping: {} or a singleton
          unitRunning \* running flag of each unit's inference thread

mainVars == <<mpc, mh, mu, unitRunning>>
vars == <<queueVars, handlerVars, lbVars, mainVars>>

MainPCs == {"activate", "start", "run", "terminate", "closeRequestQ", "flush", "answer",
            "lbTerminate", "closeRespondQ", "joinDispatcher", "stop", "erase", "unmap",
            "joinUnit", "end"}

TypeOK == /\ QueuesTypeOK
          /\ HandlerTypeOK
          /\ BalancerTypeOK
          /\ mpc \in MainPCs
          /\ mh \in Handlers
          /\ mu \subseteq Units
          /\ unitRunning \in [Units -> BOOLEAN]

Init == /\ QueuesInit
        /\ HandlerInit
        /\ BalancerInit
        /\ mpc = "activate"
        /\ mh = 1
        /\ mu = {}
        /\ unitRunning = [u \in Units |-> FALSE]

(***************************************************************************)
(* The main thread goes on with the next handler, or to the place after    *)
(* the last one.                                                           *)
(***************************************************************************)
NextHandler(here, after) == IF mh < NumHandlers
                            THEN mpc' = here /\ mh' = mh + 1
                            ELSE mpc' = after /\ mh' = 1

(***************************************************************************)
(* Initialize: ActivateEngine for every engine.  When it fails after Link, *)
(* the handler stays linked and the program quits.                         *)
(***************************************************************************)
ActivateEngine == /\ mpc = "activate"
                  /\ Linker(mh)
                  /\ StartInferenceThread(mh)
                  /\ NextHandler("activate", "start")
                  /\ UNCHANGED <<queueVars, mu, unitRunning>>

ActivateFails == /\ mpc = "activate"
                 /\ Linker(mh)
                 /\ mpc' = "terminate" /\ mh' = 1
                 /\ UNCHANGED <<queueVars, handlerVars, mu, unitRunning>>

(***************************************************************************)
(* Run: Start of every unit.                                               *)
(***************************************************************************)
StartUnit(u) == /\ mpc = "start"
                /\ At(u, "down")
                /\ MoveTo(u, "start")
                /\ unitRunning' = [unitRunning EXCEPT ![u] = TRUE]
                /\ mpc' = IF \A v \in Units \ {u} : ~At(v, "down") THEN "run" ELSE "start"
                /\ UNCHANGED <<queueVars, handlerVars, target, lastId, balancerVars, mh, mu>>

Quit == /\ mpc = "run"
        /\ mpc' = "terminate"
        /\ UNCHANGED <<queueVars, handlerVars, lbVars, mh, mu, unitRunning>>

-----------------------------------------------------------------------------
(***************************************************************************)
(* Quit #01: TerminateEngine for every engine, which returns at once when  *)
(* the engine is not active.                                               *)
(***************************************************************************)
SkipEngine == /\ mpc = "terminate"
              /\ ~is_activate_handler[mh]
              /\ NextHandler("terminate", "lbTerminate")
              /\ UNCHANGED <<queueVars, handlerVars, lbVars, mu, unitRunning>>

StopEngine == /\ mpc = "terminate"
              /\ StopInferenceThread(mh)
              /\ mpc' = "closeRequestQ"
              /\ UNCHANGED <<lbVars, mh, mu, unitRunning>>

CloseEngineQ == /\ mpc = "closeRequestQ"
                /\ CloseRequestQ(mh)
                /\ mpc' = "flush"
                /\ UNCHANGED <<lbVars, mh, mu, unitRunning>>

FlushEngineQ == /\ mpc = "flush"
                /\ FlushRequestQ(mh)
                /\ mpc' = "answer"
                /\ UNCHANGED <<lbVars, mh, mu, unitRunning>>

AnswerEngineQ == /\ mpc = "answer"
                 /\ AnswerFlushed(mh)
                 /\ UNCHANGED <<lbVars, mainVars>>

JoinEngine == /\ mpc = "answer"
              /\ JoinInferenceThread(mh)
              /\ NextHandler("terminate", "lbTerminate")
              /\ UNCHANGED <<lbVars, mu, unitRunning>>

(***************************************************************************)
(* Quit #02: EngineLoadBalancer::Terminate.                                *)
(***************************************************************************)
TerminateBalancer == /\ mpc = "lbTerminate"
                     /\ TerminateFlags
                     /\ mpc' = "closeRespondQ"
                     /\ UNCHANGED <<handlerVars, mh, mu, unitRunning>>

CloseBalancerQ == /\ mpc = "closeRespondQ"
                  /\ CloseRespondQ
                  /\ mpc' = "joinDispatcher"
                  /\ UNCHANGED <<handlerVars, mh, mu, unitRunning>>

JoinBalancer == /\ mpc = "joinDispatcher"
                /\ JoinDispatcher
                /\ mpc' = "stop"
                /\ UNCHANGED <<handlerVars, mh, mu, unitRunning>>

(***************************************************************************)
(* Quit #03: Stop of every unit, whose InferenceThreadCloser unsubscribes  *)
(* it while its inference thread may still be in a call.                   *)
(***************************************************************************)
StopUnit(u) == /\ mpc = "stop"
               /\ unitRunning[u]
               /\ unitRunning' = [unitRunning EXCEPT ![u] = FALSE]
               /\ mu' = {u}
               /\ mpc' = "erase"
               /\ UNCHANGED <<queueVars, handlerVars, lbVars, mh>>

EraseUnit == /\ mpc = "erase"
             /\ \E u \in mu : UnsubscribeErase(u)
             /\ mpc' = "unmap"
             /\ UNCHANGED <<handlerVars, mh, mu, unitRunning>>

UnmapUnit == /\ mpc = "unmap"
             /\ \E u \in mu : UnsubscribeQueue(u)
             /\ mpc' = "joinUnit"
             /\ UNCHANGED <<handlerVars, mh, mu, unitRunning>>

JoinUnit == /\ mpc = "joinUnit"
            /\ \A u \in mu : At(u, "exited")
            /\ mu' = {}
            /\ mpc' = "stop"
            /\ UNCHANGED <<queueVars, handlerVars, lbVars, mh, unitRunning>>

AllStopped == /\ mpc = "stop"
              /\ \A u \in Units : ~unitRunning[u]
              /\ mpc' = "end"
              /\ UNCHANGED <<queueVars, handlerVars, lbVars, mh, mu, unitRunning>>

MainThread == \/ ActivateEngine \/ ActivateFails
              \/ \E u \in Units : StartUnit(u)
              \/ Quit
              \/ SkipEngine \/ StopEngine \/ CloseEngineQ \/ FlushEngineQ
              \/ AnswerEngineQ \/ JoinEngine
              \/ TerminateBalancer \/ CloseBalancerQ \/ JoinBalancer
              \/ \E u \in Units : StopUnit(u)
              \/ EraseUnit \/ UnmapUnit \/ JoinUnit \/ AllStopped

-----------------------------------------------------------------------------
(***************************************************************************)
(* The inference thread of a unit: Subscribe, then RequestAsync in a loop  *)
(* while its running flag is set.                                          *)
(***************************************************************************)
UnitExit(u) == /\ At(u, "idle")
               /\ ~unitRunning[u]
               /\ MoveTo(u, "exited")
               /\ UNCHANGED <<queueVars, target, lastId, balancerVars>>

UnitThread(u) == /\ \/ SubscribeEnter(u) \/ SubscribeInsert(u) \/ SubscribeMakeQ(u)
                    \/ unitRunning[u] /\ (RequestRefused(u) \/ RequestRoute(u))
                    \/ RequestCheck(u)
                    \/ RequestEnqueue(u)
                    \/ UnitExit(u)
                 /\ UNCHANGED <<handlerVars, mainVars>>

ResponseThread(u) == RespondAsync(u) /\ UNCHANGED <<handlerVars, mainVars>>

HandlerThread(h) == InferenceThread(h) /\ UNCHANGED <<lbVars, mainVars>>

DispatcherThread == Dispatcher /\ UNCHANGED <<handlerVars, mainVars>>

Ended == mpc = "end" /\ UNCHANGED vars

Next == \/ MainThread
        \/ \E u \in Units : UnitThread(u) \/ ResponseThread(u)
        \/ \E h \in Handlers : HandlerThread(h)
        \/ DispatcherThread
        \/ Ended

Spec == Init /\ [][Next]_vars

(***************************************************************************)
(* Every thread of the process is scheduled.  Whether units make requests  *)
(* or take answers, and whether the program is told to quit, is not        *)
(* assumed; a call that has begun is finished.                             *)
(***************************************************************************)
UnitProgress(u) == UnitThread(u) /\ ~(At(u, "idle") /\ unitRunning[u])

Fairness == /\ WF_vars(MainThread /\ ~Quit)
            /\ \A u \in Units : WF_vars(UnitProgress(u))
            /\ \A h \in Handlers : WF_vars(HandlerThread(h))
            /\ WF_vars(DispatcherThread)

FairSpec == Spec /\ Fairness

-----------------------------------------------------------------------------
(***************************************************************************)
(* The places where a request or its answer can be.  The queue of another  *)
(* unit than the one that asked is not one of them.                        *)
(***************************************************************************)
In(tag, s, r) == {<<tag, i>> : i \in {j \in 1..Len(s) : s[j] = r}}

Places(r) ==
    (UNION {In(<<"request", h>>, requestQ[h], r) \cup In(<<"input", h>>, input[h], r)
              \cup In(<<"batch", h>>, batch[h], r) \cup In(<<"outputs", h>>, outputs[h], r)
              \cup In(<<"flushed", h>>, flushed[h], r) : h \in Handlers})
    \cup In(<<"respond", 0>>, respondQ, r)
    \cup In(<<"reply", 0>>, reply, r)
    \cup In(<<"result", r.unit>>, resultQ[r.unit], r)
    \cup In(<<"delivered", r.unit>>, delivered[r.unit], r)
    \cup (IF r \in lost THEN {<<"lost", 0>>} ELSE {})

(***************************************************************************)
(* No request that RequestAsync accepted is ever lost on the way, answered *)
(* twice or answered to another unit, whatever fails and whenever the      *)
(* engines are terminated: it is in exactly one place, and only the load   *)
(* balancer's own drops (full result queue, unit without a queue) remove   *)
(* it.                                                                     *)
(***************************************************************************)
ExactlyOnce == \A r \in accepted : Cardinality(Places(r)) = 1

(***************************************************************************)
(* RequestAsync tests the size of the queue before it enqueues, and other  *)
(* units may enqueue in between: the queue can exceed                      *)
(* MAX_ENGINE_INFER_INPUT_QUEUE_SIZE, but by less than one per unit, and   *)
(* never by requests of one unit alone.                                    *)
(***************************************************************************)
InputQBound ==
    \A h \in Handlers :
      /\ Len(requestQ[h]) <= MaxInput + Cardinality(Units) - 1
      /\ \A u \in Units :
           Cardinality({i \in 1..Len(requestQ[h]) : requestQ[h][i].unit = u}) <= MaxInput

Quitting == mpc \notin {"activate", "start", "run"}

(***************************************************************************)
(* With batches of one, and until the program quits, a unit receives the   *)
(* answers that went through the same handler in the order of its          *)
(* requests, the failure answers of Preprocess included.                   *)
(***************************************************************************)
HandlerKeepsOrder ==
    ~Quitting =>
      \A u \in Units : \A i, j \in 1..Len(delivered[u]) :
        (/\ i < j /\ delivered[u][i].handler = delivered[u][j].handler
         /\ BatchSize[delivered[u][i].handler] = 1)
          => delivered[u][i].id < delivered[u][j].id

(***************************************************************************)
(* When Quit reaches the units, nothing moves any more: the engines and    *)
(* the dispatcher are gone, and no answer is in the hands of a thread.     *)
(***************************************************************************)
QuietWhenUnitsStop ==
    mpc \in {"stop", "erase", "unmap", "joinUnit", "end"} =>
      /\ dpc = "exited" /\ reply = <<>>
      /\ \A h \in Handlers : /\ hpc[h] \in {"down", "exited"}
                             /\ input[h] = <<>> /\ outputs[h] = <<>> /\ flushed[h] = <<>>

Answered(r) == \/ r \in lost
               \/ \E i \in 1..Len(delivered[r.unit]) : delivered[r.unit][i] = r
               \/ \E i \in 1..Len(resultQ[r.unit]) : resultQ[r.unit][i] = r

InIncompleteBatch(r) ==
    LET b == batch[r.handler]
    IN  Len(b) < BatchSize[r.handler] /\ \E i \in 1..Len(b) : b[i] = r

Accepted(u, i) == {r \in accepted : r.unit = u /\ r.id = i}

Settled(r) == Answered(r) \/ InIncompleteBatch(r)

(***************************************************************************)
(* An accepted request is answered or dropped by the load balancer, or it  *)
(* waits for more inputs in an incomplete batch, or the program quits:     *)
(* nobody else waits for the engine for ever.                              *)
(***************************************************************************)
EveryRequestAnswered ==
    \A u \in Units : \A i \in 1..MaxRequests[u] :
      Accepted(u, i) # {} ~> (Quitting \/ \E r \in Accepted(u, i) : Settled(r))

(***************************************************************************)
(* Quit ends: no join waits for ever, whatever was in progress.            *)
(***************************************************************************)
QuitEnds == mpc = "terminate" ~> mpc = "end"
=============================================================================
