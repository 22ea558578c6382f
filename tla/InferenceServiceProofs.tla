----------------------- MODULE InferenceServiceProofs -----------------------
(***************************************************************************)
(* Proofs about InferenceService, for any number of units, handlers and    *)
(* requests, any batch sizes and any capacities of the queues.             *)
(***************************************************************************)
EXTENDS InferenceService, FiniteSetTheorems, TLAPS

(***************************************************************************)
(* What a thread holds follows from where it is.  A batch is complete only *)
(* when its thread is about to run it.                                     *)
(***************************************************************************)
HandlerHolds(h) ==
    /\ Len(input[h]) <= 1
    /\ hpc[h] = "preprocess" <=> input[h] # <<>>
    /\ hpc[h] = "push" <=> outputs[h] # <<>>
    /\ hpc[h] = "infer" => batch[h] # <<>>
    /\ hpc[h] # "infer" => Len(batch[h]) < BatchSize[h]

WorkInHand ==
    /\ \A h \in Handlers : HandlerHolds(h)
    /\ Len(reply) <= 1
    /\ dpc \in {"lookup", "push"} <=> reply # <<>>
    /\ \A u \in Units : upc[u] \in {"routed", "admitted"} => target[u] \in Handlers
    /\ mpc = "activate" => \A h \in Handlers : h >= mh => hpc[h] = "down"

ServiceTyped == TypeOK /\ WorkInHand

(***************************************************************************)
(* The order in which Quit takes the service down: an engine that is not   *)
(* active has no thread, but for the one that is being terminated; the     *)
(* engines before it are not active; the closer alone holds flushed        *)
(* requests.                                                               *)
(***************************************************************************)
Gone(h) == hpc[h] \in {"down", "exited"}

InTermination(h) == mpc \in {"closeRequestQ", "flush", "answer"} /\ mh = h

AfterEngines == mpc \in {"lbTerminate", "closeRespondQ", "joinDispatcher", "stop", "erase",
                         "unmap", "joinUnit", "end"}

UnitsStopping == mpc \in {"stop", "erase", "unmap", "joinUnit", "end"}

QuitStages ==
    /\ \A h \in Handlers :
         /\ ~is_activate_handler[h] => Gone(h) \/ InTermination(h)
         /\ InTermination(h) => ~is_activate_handler[h]
         /\ Quitting /\ (h < mh \/ AfterEngines) => ~is_activate_handler[h]
         /\ flushed[h] # <<>> => mpc = "answer" /\ mh = h
    /\ mpc \in {"start", "run"} => mh = 1
    /\ UnitsStopping => dpc = "exited"

(***************************************************************************)
(* The requests that wait in a queue, with those that are admitted to it   *)
(* and not yet in it, are fewer than the limit and one per unit; those of  *)
(* one unit do not exceed the limit.                                       *)
(***************************************************************************)
AdmittedTo(h) == {u \in Units : upc[u] = "admitted" /\ target[u] = h}

OfUnit(q, u) == {i \in 1..Len(q) : q[i].unit = u}

InputAdmission ==
    \A h \in Handlers :
      /\ Len(requestQ[h]) + Cardinality(AdmittedTo(h)) <= MaxInput + Cardinality(Units) - 1
      /\ \A u \in Units :
           /\ Cardinality(OfUnit(requestQ[h], u)) <= MaxInput
           /\ u \in AdmittedTo(h) => Cardinality(OfUnit(requestQ[h], u)) < MaxInput

(***************************************************************************)
(* Every place where requests are kept in a sequence, and what it holds.   *)
(***************************************************************************)
HandlerPlaces == {"request", "input", "batch", "outputs", "flushed"}

UnitPlaces == {"result", "delivered"}

Locations == (HandlerPlaces \X Handlers) \cup ({"respond", "reply"} \X {0})
               \cup (UnitPlaces \X Units)

Held == [l \in Locations |->
           CASE l[1] = "request"   -> requestQ[l[2]]
             [] l[1] = "input"     -> input[l[2]]
             [] l[1] = "batch"     -> batch[l[2]]
             [] l[1] = "outputs"   -> outputs[l[2]]
             [] l[1] = "flushed"   -> flushed[l[2]]
             [] l[1] = "respond"   -> respondQ
             [] l[1] = "reply"     -> reply
             [] l[1] = "result"    -> resultQ[l[2]]
             [] l[1] = "delivered" -> delivered[l[2]]]

(***************************************************************************)
(* Of an assignment H of sequences to places: no element is at two         *)
(* positions; an element is at some position.                              *)
(***************************************************************************)
NoneTwice(H) == \A a, b \in DOMAIN H : \A i \in 1..Len(H[a]), j \in 1..Len(H[b]) :
                  H[a][i] = H[b][j] => a = b /\ i = j

HeldIn(H, r) == \E a \in DOMAIN H : \E i \in 1..Len(H[a]) : H[a][i] = r

(***************************************************************************)
(* What a handler has came to it, what a unit's queue has is the unit's.   *)
(***************************************************************************)
Fits(l, r) == /\ l[1] \in HandlerPlaces => r.handler = l[2]
              /\ l[1] \in UnitPlaces => r.unit = l[2]

AtHome(H) == \A l \in DOMAIN H : \A i \in 1..Len(H[l]) : Fits(l, H[l][i])

(***************************************************************************)
(* Correlation ids are never used twice: the one of a request that is not  *)
(* accepted yet is greater than all before.                                *)
(***************************************************************************)
FreshIds == \A r \in accepted :
              /\ r.id <= lastId[r.unit]
              /\ upc[r.unit] \in {"routed", "admitted"} => r.id < lastId[r.unit]

(***************************************************************************)
(* What the places hold was accepted, and what was accepted is held unless *)
(* it is lost.                                                             *)
(***************************************************************************)
Balanced(H, acc, gone) ==
    /\ \A l \in DOMAIN H : \A i \in 1..Len(H[l]) : H[l][i] \in acc
    /\ \A r \in acc : HeldIn(H, r) <=> r \notin gone
    /\ gone \subseteq acc

Conservation ==
    /\ NoneTwice(Held)
    /\ AtHome(Held)
    /\ Balanced(Held, accepted, lost)
    /\ FreshIds

(***************************************************************************)
(* How far a request at a place has come, and that requests of one unit    *)
(* through one handler that runs batches of one have come as far as their  *)
(* order tells.                                                            *)
(***************************************************************************)
Rank == [l \in Locations |->
           CASE l[1] = "flushed" -> 0 [] l[1] = "request" -> 1 [] l[1] = "input" -> 2
             [] l[1] = "batch" -> 3 [] l[1] = "outputs" -> 4 [] l[1] = "respond" -> 5
             [] l[1] = "reply" -> 6 [] l[1] = "result" -> 7 [] l[1] = "delivered" -> 8]

Related(p, q) == /\ p.unit = q.unit /\ p.handler = q.handler
                 /\ BatchSize[p.handler] = 1

InOrder(H) == \A a, b \in DOMAIN H : \A i \in 1..Len(H[a]), j \in 1..Len(H[b]) :
                /\ Rank[a] > Rank[b] \/ (a = b /\ i < j)
                /\ Related(H[a][i], H[b][j])
                => H[a][i].id < H[b][j].id

OrderUntilQuit == ~Quitting => InOrder(Held)

-----------------------------------------------------------------------------
(***************************************************************************)
(* The parts of the type invariant: the control, the flags, the sequences  *)
(* and the bookkeeping of the load balancer.                               *)
(***************************************************************************)
ControlOK == /\ hpc \in [Handlers -> HandlerPCs]
             /\ upc \in [Units -> UnitPCs]
             /\ dpc \in {"loop", "dequeue", "lookup", "push", "exited"}
             /\ mpc \in MainPCs
             /\ mh \in Handlers
             /\ mu \subseteq Units

FlagsOK == /\ requestClosed \in [Handlers -> BOOLEAN] /\ respondClosed \in BOOLEAN
           /\ is_running \in [Handlers -> BOOLEAN]
           /\ is_activate_handler \in [Handlers -> BOOLEAN]
           /\ is_terminate_instance \in BOOLEAN /\ dispatching \in BOOLEAN
           /\ resultClosed \in [Units -> BOOLEAN]
           /\ unitRunning \in [Units -> BOOLEAN]

RoutesOK == /\ engine_handles \in Seq(Handlers)
            /\ round_robin_idx \in 0..(NumHandlers - 1)
            /\ subscribers \subseteq Units
            /\ cam_result_qs \subseteq Units
            /\ target \in [Units -> Handlers \cup {NoHandler}]
            /\ lastId \in [Units -> Nat]

HandlerSeqsOK == /\ requestQ \in [Handlers -> Seq(Request)]
                 /\ input \in [Handlers -> Seq(Request)]
                 /\ batch \in [Handlers -> Seq(Request)]
                 /\ outputs \in [Handlers -> Seq(Request)]
                 /\ flushed \in [Handlers -> Seq(Request)]

ReplySeqsOK == /\ respondQ \in Seq(Request)
               /\ reply \in Seq(Request)
               /\ resultQ \in [Units -> Seq(Request)]
               /\ delivered \in [Units -> Seq(Request)]
               /\ accepted \subseteq Request
               /\ lost \subseteq Request

TypeParts == ControlOK /\ FlagsOK /\ RoutesOK /\ HandlerSeqsOK /\ ReplySeqsOK

LEMMA TypeIsParts == TypeOK <=> TypeParts
  BY Zenon DEF TypeOK, TypeParts, ControlOK, FlagsOK, RoutesOK, HandlerSeqsOK, ReplySeqsOK,
     QueuesTypeOK, HandlerTypeOK, BalancerTypeOK

LEMMA TypeIsPartsNext == TypeOK' <=> TypeParts'
  BY Zenon DEF TypeOK, TypeParts, ControlOK, FlagsOK, RoutesOK, HandlerSeqsOK, ReplySeqsOK,
     QueuesTypeOK, HandlerTypeOK, BalancerTypeOK

(***************************************************************************)
(* The steps of the main thread by stage, and the others.                  *)
(***************************************************************************)
Starting == ActivateEngine \/ ActivateFails \/ (\E u \in Units : StartUnit(u)) \/ Quit

EngineStop == SkipEngine \/ StopEngine \/ CloseEngineQ \/ FlushEngineQ \/ AnswerEngineQ
                \/ JoinEngine

BalancerStop == TerminateBalancer \/ CloseBalancerQ \/ JoinBalancer

UnitStop == (\E u \in Units : StopUnit(u)) \/ EraseUnit \/ UnmapUnit \/ JoinUnit \/ AllStopped

LEMMA NextCases ==
  [Next]_vars => \/ Starting \/ EngineStop \/ BalancerStop \/ UnitStop
                 \/ \E u \in Units : UnitThread(u)
                 \/ \E u \in Units : ResponseThread(u)
                 \/ \E h \in Handlers : HandlerThread(h)
                 \/ DispatcherThread
                 \/ UNCHANGED vars
  BY DEF Next, MainThread, Ended, Starting, EngineStop, BalancerStop, UnitStop

(***************************************************************************)
(* Facts about sequences that the type invariant rests on.                 *)
(***************************************************************************)
LEMMA SeqFacts ==
  ASSUME NEW S
  PROVE  /\ <<>> \in Seq(S)
         /\ \A x \in S : <<x>> \in Seq(S)
         /\ \A q \in Seq(S) : q # <<>> => Head(q) \in S /\ Tail(q) \in Seq(S)
         /\ \A q \in Seq(S), x \in S : Append(q, x) \in Seq(S)
         /\ \A p, q \in Seq(S) : p \o q \in Seq(S)
  OBVIOUS

LEMMA EnqueueType ==
  ASSUME NEW S, NEW q \in Seq(S), NEW max \in Nat, NEW x \in S
  PROVE  Enqueue(q, max, x) \in Seq(S)
  BY DEF Enqueue, Kept, IsFull

LEMMA EvictedType ==
  ASSUME NEW S, NEW q \in Seq(S), NEW max \in Nat
  PROVE  Evicted(q, max) \subseteq S
  BY DEF Evicted, IsFull

LEMMA LastElement ==
  ASSUME NEW S, NEW q \in Seq(S), q # <<>>
  PROVE  Len(q) = 1 <=> Tail(q) = <<>>
<1>1. Tail(q) \in Seq(S) /\ Len(Tail(q)) = Len(q) - 1
  OBVIOUS
<1>2. \A p \in Seq(S) : p = <<>> <=> Len(p) = 0
  OBVIOUS
<1>3. Tail(q) = <<>> <=> Len(Tail(q)) = 0
  BY <1>1, <1>2
<1>4. QED
  BY <1>1, <1>3

LEMMA OneElement ==
  ASSUME NEW S, NEW q \in Seq(S), q # <<>>
  PROVE  q[1] \in S /\ Len(q) >= 1
  OBVIOUS

LEMMA ControlStep ==
  ASSUME ControlOK, [Next]_vars
  PROVE  ControlOK'
<1> USE DEF ControlOK, HandlerPCs, UnitPCs, MainPCs, Handlers, queueVars, handlerVars, lbVars, unitVars, routeVars, resultVars, dispatchVars, historyVars,
        balancerVars, restOfDispatch, mainVars, At, MoveTo, Goto, DispatchTo
<1>1. CASE Starting
  BY <1>1, HandlersAssumption DEF Starting, ActivateEngine, ActivateFails, StartUnit, Quit, Linker, StartInferenceThread,
     NextHandler
<1>2. CASE EngineStop
  BY <1>2, HandlersAssumption DEF EngineStop, SkipEngine, StopEngine, CloseEngineQ, FlushEngineQ, AnswerEngineQ, JoinEngine,
     StopInferenceThread, CloseRequestQ, FlushRequestQ, AnswerFlushed, JoinInferenceThread,
     NextHandler
<1>3. CASE BalancerStop
  BY <1>3, HandlersAssumption DEF BalancerStop, TerminateBalancer, CloseBalancerQ, JoinBalancer, TerminateFlags, CloseRespondQ,
     JoinDispatcher
<1>4. CASE UnitStop
  BY <1>4, HandlersAssumption DEF UnitStop, StopUnit, EraseUnit, UnmapUnit, JoinUnit, AllStopped, UnsubscribeErase,
     UnsubscribeQueue
<1>5. ASSUME NEW u \in Units, UnitThread(u) PROVE ControlOK'
  BY <1>5, HandlersAssumption DEF UnitThread, SubscribeEnter, SubscribeInsert, SubscribeMakeQ, RequestRefused, RequestRoute,
     RequestCheck, RequestEnqueue, UnitExit
<1>6. ASSUME NEW u \in Units, ResponseThread(u) PROVE ControlOK'
  BY <1>6, HandlersAssumption DEF ResponseThread, RespondAsync
<1>7. ASSUME NEW h \in Handlers, HandlerThread(h) PROVE ControlOK'
  BY <1>7, HandlersAssumption DEF HandlerThread, InferenceThread, LoopHead, DequeueInput, DequeueNothing, PreprocessThrows,
     Preprocess, Infer, PushOutput
<1>8. CASE DispatcherThread
  BY <1>8, HandlersAssumption DEF DispatcherThread, Dispatcher, DispatchLoop, DispatchDequeue, DispatchNothing, DispatchLookup,
     DispatchPush
<1>9. CASE UNCHANGED vars
  BY <1>9 DEF vars
<1>10. QED
  BY <1>1, <1>2, <1>3, <1>4, <1>5, <1>6, <1>7, <1>8, <1>9, NextCases

LEMMA FlagsStep ==
  ASSUME ControlOK, FlagsOK, [Next]_vars
  PROVE  FlagsOK'
<1> USE DEF FlagsOK, queueVars, handlerVars, lbVars, unitVars, routeVars, resultVars, dispatchVars, historyVars,
        balancerVars, restOfDispatch, mainVars, At, MoveTo, Goto, DispatchTo
<1>1. CASE Starting
  BY <1>1 DEF Starting, ActivateEngine, ActivateFails, StartUnit, Quit, Linker, StartInferenceThread,
     NextHandler
<1>2. CASE EngineStop
  BY <1>2 DEF EngineStop, SkipEngine, StopEngine, CloseEngineQ, FlushEngineQ, AnswerEngineQ, JoinEngine,
     StopInferenceThread, CloseRequestQ, FlushRequestQ, AnswerFlushed, JoinInferenceThread,
     NextHandler
<1>3. CASE BalancerStop
  BY <1>3 DEF BalancerStop, TerminateBalancer, CloseBalancerQ, JoinBalancer, TerminateFlags, CloseRespondQ,
     JoinDispatcher
<1>4. CASE UnitStop
  BY <1>4 DEF UnitStop, StopUnit, EraseUnit, UnmapUnit, JoinUnit, AllStopped, UnsubscribeErase,
     UnsubscribeQueue
<1>5. ASSUME NEW u \in Units, UnitThread(u) PROVE FlagsOK'
  BY <1>5 DEF UnitThread, SubscribeEnter, SubscribeInsert, SubscribeMakeQ, RequestRefused, RequestRoute,
     RequestCheck, RequestEnqueue, UnitExit
<1>6. ASSUME NEW u \in Units, ResponseThread(u) PROVE FlagsOK'
  BY <1>6 DEF ResponseThread, RespondAsync
<1>7. ASSUME NEW h \in Handlers, HandlerThread(h) PROVE FlagsOK'
  BY <1>7 DEF HandlerThread, InferenceThread, LoopHead, DequeueInput, DequeueNothing, PreprocessThrows,
     Preprocess, Infer, PushOutput
<1>8. CASE DispatcherThread
  BY <1>8 DEF DispatcherThread, Dispatcher, DispatchLoop, DispatchDequeue, DispatchNothing, DispatchLookup,
     DispatchPush
<1>9. CASE UNCHANGED vars
  BY <1>9 DEF vars
<1>10. QED
  BY <1>1, <1>2, <1>3, <1>4, <1>5, <1>6, <1>7, <1>8, <1>9, NextCases

LEMMA RoutesStep ==
  ASSUME ControlOK, RoutesOK, [Next]_vars
  PROVE  RoutesOK'
<1> USE DEF RoutesOK, NoHandler, queueVars, handlerVars, lbVars, unitVars, routeVars, resultVars, dispatchVars, historyVars,
        balancerVars, restOfDispatch, mainVars, At, MoveTo, Goto, DispatchTo
<1>1. CASE Starting
  <2>1. Append(engine_handles, mh) \in Seq(Handlers)
    BY SeqFacts DEF ControlOK
  <2>2. QED
    BY <1>1, <2>1 DEF Starting, ActivateEngine, ActivateFails, StartUnit, Quit, Linker, StartInferenceThread,
     NextHandler
<1>2. CASE EngineStop
  BY <1>2 DEF EngineStop, SkipEngine, StopEngine, CloseEngineQ, FlushEngineQ, AnswerEngineQ, JoinEngine,
     StopInferenceThread, CloseRequestQ, FlushRequestQ, AnswerFlushed, JoinInferenceThread,
     NextHandler
<1>3. CASE BalancerStop
  <2>1. <<>> \in Seq(Handlers)
    BY SeqFacts
  <2>2. QED
    BY <1>3, <2>1 DEF BalancerStop, TerminateBalancer, CloseBalancerQ, JoinBalancer, TerminateFlags, CloseRespondQ,
     JoinDispatcher
<1>4. CASE UnitStop
  BY <1>4 DEF UnitStop, StopUnit, EraseUnit, UnmapUnit, JoinUnit, AllStopped, UnsubscribeErase,
     UnsubscribeQueue
<1>5. ASSUME NEW u \in Units, UnitThread(u) PROVE RoutesOK'
  <2>1. CASE RequestRoute(u)
    <3>1. (round_robin_idx + 1) % NumHandlers \in 0..(NumHandlers - 1)
      BY HandlersAssumption
    <3>2. (round_robin_idx % Len(engine_handles)) + 1 \in 1..Len(engine_handles)
      <4>1. Len(engine_handles) \in Nat \ {0} /\ round_robin_idx \in Nat
        BY <2>1, HandlersAssumption DEF RequestRoute
      <4>2. QED
        BY <4>1
    <3>3. engine_handles[(round_robin_idx % Len(engine_handles)) + 1] \in Handlers
      BY <3>2
    <3>4. QED
      BY <1>5, <2>1, <3>1, <3>3 DEF RequestRoute
  <2>2. CASE ~RequestRoute(u)
    BY <1>5, <2>2 DEF UnitThread, SubscribeEnter, SubscribeInsert, SubscribeMakeQ, RequestRefused, RequestRoute,
     RequestCheck, RequestEnqueue, UnitExit
  <2>3. QED
    BY <2>1, <2>2
<1>6. ASSUME NEW u \in Units, ResponseThread(u) PROVE RoutesOK'
  BY <1>6 DEF ResponseThread, RespondAsync
<1>7. ASSUME NEW h \in Handlers, HandlerThread(h) PROVE RoutesOK'
  BY <1>7 DEF HandlerThread, InferenceThread, LoopHead, DequeueInput, DequeueNothing, PreprocessThrows,
     Preprocess, Infer, PushOutput
<1>8. CASE DispatcherThread
  BY <1>8 DEF DispatcherThread, Dispatcher, DispatchLoop, DispatchDequeue, DispatchNothing, DispatchLookup,
     DispatchPush
<1>9. CASE UNCHANGED vars
  BY <1>9 DEF vars
<1>10. QED
  BY <1>1, <1>2, <1>3, <1>4, <1>5, <1>6, <1>7, <1>8, <1>9, NextCases

LEMMA HandlerSeqsStep ==
  ASSUME ControlOK, RoutesOK, HandlerSeqsOK, WorkInHand, [Next]_vars
  PROVE  HandlerSeqsOK'
<1> USE DEF HandlerSeqsOK, queueVars, handlerVars, lbVars, unitVars, routeVars, resultVars, dispatchVars, historyVars,
        balancerVars, restOfDispatch, mainVars, At, MoveTo, Goto, DispatchTo
<1>1. CASE Starting
  BY <1>1 DEF Starting, ActivateEngine, ActivateFails, StartUnit, Quit, Linker, StartInferenceThread,
     NextHandler
<1>2. CASE EngineStop
  <2>1. \A h \in Handlers : /\ <<>> \in Seq(Request)
                            /\ flushed[h] # <<>> => Tail(flushed[h]) \in Seq(Request)
    BY SeqFacts
  <2>2. QED
    BY <1>2, <2>1 DEF ControlOK, EngineStop, SkipEngine, StopEngine, CloseEngineQ, FlushEngineQ, AnswerEngineQ, JoinEngine,
     StopInferenceThread, CloseRequestQ, FlushRequestQ, AnswerFlushed, JoinInferenceThread,
     NextHandler
<1>3. CASE BalancerStop
  BY <1>3 DEF BalancerStop, TerminateBalancer, CloseBalancerQ, JoinBalancer, TerminateFlags, CloseRespondQ,
     JoinDispatcher
<1>4. CASE UnitStop
  BY <1>4 DEF UnitStop, StopUnit, EraseUnit, UnmapUnit, JoinUnit, AllStopped, UnsubscribeErase,
     UnsubscribeQueue
<1>5. ASSUME NEW u \in Units, UnitThread(u) PROVE HandlerSeqsOK'
  <2>1. CASE RequestEnqueue(u)
    <3>1. target[u] \in Handlers /\ lastId[u] \in Nat
      BY <2>1 DEF RequestEnqueue, RoutesOK, WorkInHand
    <3>2. [unit |-> u, id |-> lastId[u], handler |-> target[u]] \in Request
      BY <3>1 DEF Request
    <3>3. Append(requestQ[target[u]], [unit |-> u, id |-> lastId[u], handler |-> target[u]])
            \in Seq(Request)
      BY <3>1, <3>2, SeqFacts
    <3>4. QED
      BY <1>5, <2>1, <3>1, <3>3 DEF UnitThread, RequestEnqueue
  <2>2. CASE ~RequestEnqueue(u)
    BY <1>5, <2>2 DEF UnitThread, SubscribeEnter, SubscribeInsert, SubscribeMakeQ, RequestRefused, RequestRoute,
     RequestCheck, RequestEnqueue, UnitExit
  <2>3. QED
    BY <2>1, <2>2
<1>6. ASSUME NEW u \in Units, ResponseThread(u) PROVE HandlerSeqsOK'
  BY <1>6 DEF ResponseThread, RespondAsync
<1>7. ASSUME NEW h \in Handlers, HandlerThread(h) PROVE HandlerSeqsOK'
  <2>1. /\ <<>> \in Seq(Request)
        /\ requestQ[h] # <<>> => /\ <<Head(requestQ[h])>> \in Seq(Request)
                                 /\ Tail(requestQ[h]) \in Seq(Request)
        /\ batch[h] \o input[h] \in Seq(Request)
        /\ batch[h] \in Seq(Request)
        /\ outputs[h] # <<>> => Tail(outputs[h]) \in Seq(Request)
    BY SeqFacts
  <2>2. hpc[h] = "push" => outputs[h] # <<>>
    BY DEF WorkInHand, HandlerHolds
  <2>3. CASE LoopHead(h) \/ DequeueNothing(h)
    BY <1>7, <2>3 DEF HandlerThread, LoopHead, DequeueNothing
  <2>4. CASE DequeueInput(h)
    BY <2>1, <2>4 DEF DequeueInput
  <2>5. CASE PreprocessThrows(h) \/ Preprocess(h)
    BY <2>1, <2>5 DEF PreprocessThrows, Preprocess
  <2>6. CASE Infer(h)
    BY <2>1, <2>6 DEF Infer
  <2>7. CASE PushOutput(h)
    BY <2>1, <2>2, <2>7 DEF PushOutput
  <2>8. QED
    BY <1>7, <2>3, <2>4, <2>5, <2>6, <2>7 DEF HandlerThread, InferenceThread
<1>8. CASE DispatcherThread
  BY <1>8 DEF DispatcherThread, Dispatcher, DispatchLoop, DispatchDequeue, DispatchNothing, DispatchLookup,
     DispatchPush
<1>9. CASE UNCHANGED vars
  BY <1>9 DEF vars
<1>10. QED
  BY <1>1, <1>2, <1>3, <1>4, <1>5, <1>6, <1>7, <1>8, <1>9, NextCases

LEMMA ReplySeqsStep ==
  ASSUME ControlOK, RoutesOK, HandlerSeqsOK, ReplySeqsOK, WorkInHand, [Next]_vars
  PROVE  ReplySeqsOK'
<1> USE DEF ReplySeqsOK, queueVars, handlerVars, lbVars, unitVars, routeVars, resultVars, dispatchVars, historyVars,
        balancerVars, restOfDispatch, mainVars, At, MoveTo, Goto, DispatchTo
<1>1. CASE Starting
  BY <1>1 DEF Starting, ActivateEngine, ActivateFails, StartUnit, Quit, Linker, StartInferenceThread,
     NextHandler
<1>2. CASE EngineStop
  <2>1. \A h \in Handlers : flushed[h] # <<>> => Append(respondQ, Head(flushed[h])) \in Seq(Request)
    BY SeqFacts DEF HandlerSeqsOK
  <2>2. QED
    BY <1>2, <2>1 DEF ControlOK, EngineStop, SkipEngine, StopEngine, CloseEngineQ, FlushEngineQ, AnswerEngineQ, JoinEngine,
     StopInferenceThread, CloseRequestQ, FlushRequestQ, AnswerFlushed, JoinInferenceThread,
     NextHandler
<1>3. CASE BalancerStop
  BY <1>3 DEF BalancerStop, TerminateBalancer, CloseBalancerQ, JoinBalancer, TerminateFlags, CloseRespondQ,
     JoinDispatcher
<1>4. CASE UnitStop
  BY <1>4 DEF UnitStop, StopUnit, EraseUnit, UnmapUnit, JoinUnit, AllStopped, UnsubscribeErase,
     UnsubscribeQueue
<1>5. ASSUME NEW u \in Units, UnitThread(u) PROVE ReplySeqsOK'
  <2>1. CASE RequestEnqueue(u)
    <3>1. target[u] \in Handlers /\ lastId[u] \in Nat
      BY <2>1 DEF RequestEnqueue, RoutesOK, WorkInHand
    <3>2. [unit |-> u, id |-> lastId[u], handler |-> target[u]] \in Request
      BY <3>1 DEF Request
    <3>4. QED
      BY <1>5, <2>1, <3>2 DEF RequestEnqueue
  <2>2. CASE ~RequestEnqueue(u)
    BY <1>5, <2>2 DEF UnitThread, SubscribeEnter, SubscribeInsert, SubscribeMakeQ, RequestRefused, RequestRoute,
     RequestCheck, RequestEnqueue, UnitExit
  <2>3. QED
    BY <2>1, <2>2
<1>6. ASSUME NEW u \in Units, ResponseThread(u) PROVE ReplySeqsOK'
  <2>1. resultQ[u] # <<>> => /\ Append(delivered[u], Head(resultQ[u])) \in Seq(Request)
                             /\ Tail(resultQ[u]) \in Seq(Request)
    BY SeqFacts
  <2>2. QED
    BY <1>6, <2>1 DEF ResponseThread, RespondAsync
<1>7. ASSUME NEW h \in Handlers, HandlerThread(h) PROVE ReplySeqsOK'
  <2>1. /\ respondQ \o input[h] \in Seq(Request)
        /\ outputs[h] # <<>> => Append(respondQ, Head(outputs[h])) \in Seq(Request)
    BY SeqFacts DEF HandlerSeqsOK
  <2>2. hpc[h] = "push" => outputs[h] # <<>>
    BY DEF WorkInHand, HandlerHolds
  <2>3. QED
    BY <1>7, <2>1, <2>2 DEF HandlerThread, InferenceThread, LoopHead, DequeueInput, DequeueNothing, PreprocessThrows,
     Preprocess, Infer, PushOutput
<1>8. CASE DispatcherThread
  <2>1. CASE DispatchLookup \/ DispatchPush
    <3>1. reply[1] \in Request
      BY <2>1, OneElement DEF WorkInHand, DispatchLookup, DispatchPush
    <3>2. reply[1].unit \in Units
      BY <3>1 DEF Request
    <3>3. /\ Enqueue(resultQ[reply[1].unit], ResultCap, reply[1]) \in Seq(Request)
          /\ Evicted(resultQ[reply[1].unit], ResultCap) \subseteq Request
      <4>1. resultQ[reply[1].unit] \in Seq(Request) /\ ResultCap \in Nat
        BY <3>2, ResultAssumption
      <4>2. QED
        BY <3>1, <4>1, EnqueueType, EvictedType
    <3>4. <<>> \in Seq(Request)
      BY SeqFacts
    <3>5. QED
      BY <1>8, <2>1, <3>1, <3>2, <3>3, <3>4 DEF DispatchLookup, DispatchPush
  <2>2. CASE ~(DispatchLookup \/ DispatchPush)
    <3>1. respondQ # <<>> => <<Head(respondQ)>> \in Seq(Request) /\ Tail(respondQ) \in Seq(Request)
      BY SeqFacts
    <3>2. QED
      BY <1>8, <2>2, <3>1 DEF DispatcherThread, Dispatcher, DispatchLoop, DispatchDequeue, DispatchNothing, DispatchLookup,
     DispatchPush
  <2>3. QED
    BY <2>1, <2>2
<1>9. CASE UNCHANGED vars
  BY <1>9 DEF vars
<1>10. QED
  BY <1>1, <1>2, <1>3, <1>4, <1>5, <1>6, <1>7, <1>8, <1>9, NextCases

LEMMA WorkStep ==
  ASSUME ControlOK, RoutesOK, HandlerSeqsOK, ReplySeqsOK, WorkInHand, [Next]_vars
  PROVE  WorkInHand'
<1> USE DEF queueVars, handlerVars, lbVars, unitVars, routeVars, resultVars, dispatchVars, historyVars,
        balancerVars, restOfDispatch, mainVars, At, MoveTo, Goto, DispatchTo
<1>1. CASE Starting
  <2>1. /\ \A h \in Handlers : hpc'[h] = hpc[h] \/ (hpc[h] = "down" /\ hpc'[h] = "loop")
        /\ \A v \in Units : upc'[v] = upc[v] \/ upc'[v] = "start"
        /\ UNCHANGED <<input, batch, outputs, reply, dpc, target>>
        /\ mpc' = "activate" => \A h \in Handlers : h >= mh' => hpc'[h] = "down"
    <3>1. CASE ActivateEngine
      <4>1. hpc[mh] = "down" /\ hpc' = [hpc EXCEPT ![mh] = "loop"] /\ mh \in Int
        BY <3>1 DEF ControlOK, WorkInHand, Handlers, ActivateEngine, StartInferenceThread
      <4>2. mpc' = "activate" => mh' = mh + 1
        BY <3>1 DEF ActivateEngine, NextHandler
      <4>3. \A h \in Handlers : h >= mh + 1 => h >= mh /\ h # mh
        BY <4>1 DEF Handlers
      <4>4. \A h \in Handlers : hpc'[h] = IF h = mh THEN "loop" ELSE hpc[h]
        BY <4>1 DEF ControlOK
      <4>5. mpc = "activate"
        BY <3>1 DEF ActivateEngine
      <4>6. mpc' = "activate" => \A h \in Handlers : h >= mh' => hpc'[h] = "down"
        BY <4>2, <4>3, <4>4, <4>5 DEF WorkInHand
      <4>7. QED
        BY <3>1, <4>1, <4>4, <4>6 DEF ActivateEngine, Linker, StartInferenceThread
    <3>2. CASE ~ActivateEngine
      BY <1>1, <3>2 DEF ControlOK, WorkInHand, Starting, ActivateEngine, ActivateFails, StartUnit, Quit, Linker, StartInferenceThread,
     NextHandler
    <3>3. QED
      BY <3>1, <3>2
  <2>2. \A h \in Handlers : HandlerHolds(h)'
    BY <2>1 DEF WorkInHand, HandlerHolds
  <2>3. QED
    BY <2>1, <2>2 DEF WorkInHand
<1>2. CASE EngineStop
  <2>1. UNCHANGED <<hpc, upc, input, batch, outputs, reply, dpc, target>> /\ mpc' # "activate"
    BY <1>2 DEF EngineStop, SkipEngine, StopEngine, CloseEngineQ, FlushEngineQ, AnswerEngineQ, JoinEngine,
     StopInferenceThread, CloseRequestQ, FlushRequestQ, AnswerFlushed, JoinInferenceThread,
     NextHandler
  <2>2. QED
    BY <2>1 DEF WorkInHand, HandlerHolds
<1>3. CASE BalancerStop
  <2>1. UNCHANGED <<hpc, upc, input, batch, outputs, reply, dpc, target>> /\ mpc' # "activate"
    BY <1>3 DEF BalancerStop, TerminateBalancer, CloseBalancerQ, JoinBalancer, TerminateFlags, CloseRespondQ,
     JoinDispatcher
  <2>2. QED
    BY <2>1 DEF WorkInHand, HandlerHolds
<1>4. CASE UnitStop
  <2>1. UNCHANGED <<hpc, upc, input, batch, outputs, reply, dpc, target>> /\ mpc' # "activate"
    BY <1>4 DEF UnitStop, StopUnit, EraseUnit, UnmapUnit, JoinUnit, AllStopped, UnsubscribeErase,
     UnsubscribeQueue
  <2>2. QED
    BY <2>1 DEF WorkInHand, HandlerHolds
<1>5. ASSUME NEW u \in Units, UnitThread(u) PROVE WorkInHand'
  <2>1. UNCHANGED <<hpc, input, batch, outputs, reply, dpc, mpc, mh>>
    BY <1>5 DEF UnitThread, SubscribeEnter, SubscribeInsert, SubscribeMakeQ, RequestRefused, RequestRoute,
     RequestCheck, RequestEnqueue, UnitExit
  <2>2. \A v \in Units : upc'[v] \in {"routed", "admitted"} => target'[v] \in Handlers
    <3>1. CASE RequestRoute(u)
      <4>1. target'[u] \in Handlers
        <5>1. (round_robin_idx % Len(engine_handles)) + 1 \in 1..Len(engine_handles)
          <6>1. Len(engine_handles) \in Nat \ {0} /\ round_robin_idx \in Nat
            BY <3>1, HandlersAssumption DEF RequestRoute, RoutesOK
          <6>2. QED
            BY <6>1
        <5>2. QED
          BY <3>1, <5>1 DEF RequestRoute, RoutesOK
      <4>2. QED
        BY <3>1, <4>1 DEF RequestRoute, RoutesOK, ControlOK, WorkInHand
    <3>2. CASE ~RequestRoute(u)
      BY <1>5, <3>2 DEF ControlOK, WorkInHand, UnitThread, SubscribeEnter, SubscribeInsert, SubscribeMakeQ, RequestRefused, RequestRoute,
     RequestCheck, RequestEnqueue, UnitExit
    <3>3. QED
      BY <3>1, <3>2
  <2>3. QED
    BY <2>1, <2>2 DEF WorkInHand, HandlerHolds
<1>6. ASSUME NEW u \in Units, ResponseThread(u) PROVE WorkInHand'
  BY <1>6 DEF WorkInHand, HandlerHolds, ResponseThread, RespondAsync
<1>7. ASSUME NEW h \in Handlers, HandlerThread(h) PROVE WorkInHand'
  <2>1. UNCHANGED <<upc, target, reply, dpc, mpc, mh>>
    BY <1>7 DEF HandlerThread, InferenceThread, LoopHead, DequeueInput, DequeueNothing, PreprocessThrows,
     Preprocess, Infer, PushOutput
  <2>2. \A k \in Handlers \ {h} : HandlerHolds(k)'
    <3>1. \A k \in Handlers \ {h} : UNCHANGED <<hpc[k], input[k], batch[k], outputs[k]>>
      <4> USE DEF ControlOK, HandlerSeqsOK
      <4>1. CASE LoopHead(h) \/ DequeueNothing(h)
        BY <4>1 DEF LoopHead, DequeueNothing
      <4>2. CASE DequeueInput(h)
        BY <4>2 DEF DequeueInput
      <4>3. CASE PreprocessThrows(h) \/ Preprocess(h)
        BY <4>3 DEF PreprocessThrows, Preprocess
      <4>4. CASE Infer(h) \/ PushOutput(h)
        BY <4>4 DEF Infer, PushOutput
      <4>5. QED
        BY <1>7, <4>1, <4>2, <4>3, <4>4 DEF HandlerThread, InferenceThread
    <3>2. QED
      BY <3>1 DEF WorkInHand, HandlerHolds
  <2>3. HandlerHolds(h)'
    <3> USE BatchAssumption DEF ControlOK, HandlerPCs, HandlerSeqsOK, WorkInHand, HandlerHolds
    <3>1. CASE LoopHead(h) \/ DequeueNothing(h)
      BY <3>1 DEF LoopHead, DequeueNothing
    <3>2. CASE DequeueInput(h)
      BY <3>2 DEF DequeueInput
    <3>3. CASE PreprocessThrows(h)
      BY <3>3 DEF PreprocessThrows
    <3>4. CASE Preprocess(h)
      BY <3>4 DEF Preprocess
    <3>5. CASE Infer(h)
      BY <3>5 DEF Infer
    <3>6. CASE PushOutput(h)
      <4>1. outputs[h] \in Seq(Request) /\ outputs[h] # <<>>
        BY <3>6 DEF PushOutput
      <4>2. Len(outputs[h]) = 1 <=> Tail(outputs[h]) = <<>>
        BY <4>1, LastElement
      <4>3. QED
        BY <3>6, <4>1, <4>2 DEF PushOutput
    <3>7. QED
      BY <1>7, <3>1, <3>2, <3>3, <3>4, <3>5, <3>6 DEF HandlerThread, InferenceThread
  <2>4. mpc = "activate" => \A k \in Handlers : k >= mh => hpc'[k] = "down"
    BY <1>7 DEF WorkInHand, ControlOK, HandlerThread, InferenceThread, LoopHead, DequeueInput, DequeueNothing, PreprocessThrows,
     Preprocess, Infer, PushOutput
  <2>5. QED
    BY <2>1, <2>2, <2>3, <2>4 DEF WorkInHand
<1>8. CASE DispatcherThread
  <2>1. UNCHANGED <<hpc, input, batch, outputs, upc, target, mpc, mh>>
    BY <1>8 DEF DispatcherThread, Dispatcher, DispatchLoop, DispatchDequeue, DispatchNothing, DispatchLookup,
     DispatchPush
  <2>2. Len(reply') <= 1 /\ (dpc' \in {"lookup", "push"} <=> reply' # <<>>)
    <3>1. CASE DispatchDequeue
      BY <3>1 DEF DispatchDequeue
    <3>2. CASE DispatchLookup
      BY <3>2 DEF DispatchLookup, WorkInHand
    <3>3. CASE DispatchLoop \/ DispatchNothing \/ DispatchPush
      BY <3>3 DEF DispatchLoop, DispatchNothing, DispatchPush, WorkInHand
    <3>4. QED
      BY <1>8, <3>1, <3>2, <3>3 DEF DispatcherThread, Dispatcher
  <2>3. QED
    BY <2>1, <2>2 DEF WorkInHand, HandlerHolds
<1>9. CASE UNCHANGED vars
  BY <1>9 DEF vars, WorkInHand, HandlerHolds
<1>10. QED
  BY <1>1, <1>2, <1>3, <1>4, <1>5, <1>6, <1>7, <1>8, <1>9, NextCases

LEMMA TypedInit == Init => ServiceTyped
<1> SUFFICES ASSUME Init PROVE ServiceTyped
  OBVIOUS
<1> USE DEF Init, QueuesInit, HandlerInit, BalancerInit
<1>1. ControlOK /\ RoutesOK
  BY HandlersAssumption, SeqFacts DEF ControlOK, RoutesOK, HandlerPCs, UnitPCs, MainPCs, Handlers,
     NoHandler
<1>2. FlagsOK
  BY DEF FlagsOK
<1>3. HandlerSeqsOK /\ ReplySeqsOK
  BY SeqFacts DEF HandlerSeqsOK, ReplySeqsOK
<1>4. WorkInHand
  BY BatchAssumption DEF WorkInHand, HandlerHolds
<1>5. QED
  BY <1>1, <1>2, <1>3, <1>4, TypeIsParts DEF ServiceTyped, TypeParts

LEMMA TypedStep == ServiceTyped /\ [Next]_vars => ServiceTyped'
<1> SUFFICES ASSUME ServiceTyped, [Next]_vars PROVE ServiceTyped'
  OBVIOUS
<1>1. ControlOK /\ FlagsOK /\ RoutesOK /\ HandlerSeqsOK /\ ReplySeqsOK /\ WorkInHand
  BY TypeIsParts DEF ServiceTyped, TypeParts
<1>2. ControlOK' /\ FlagsOK' /\ RoutesOK' /\ HandlerSeqsOK' /\ ReplySeqsOK' /\ WorkInHand'
  BY <1>1, ControlStep, FlagsStep, RoutesStep, HandlerSeqsStep, ReplySeqsStep, WorkStep
<1>3. QED
  BY <1>2, TypeIsPartsNext DEF ServiceTyped, TypeParts

(***************************************************************************)
(* The service is well typed: a handler is chosen before a request is      *)
(* queued, and no thread takes an answer, an input or a reply that it does *)
(* not hold.                                                               *)
(***************************************************************************)
THEOREM TypeCorrect == Spec => [](TypeOK /\ WorkInHand)
<1>1. Init => ServiceTyped
  BY TypedInit
<1>2. ServiceTyped /\ [Next]_vars => ServiceTyped'
  BY TypedStep
<1>3. QED
  BY <1>1, <1>2, PTL DEF Spec, ServiceTyped

-----------------------------------------------------------------------------
(***************************************************************************)
(* Quit takes the service down in order.                                   *)
(***************************************************************************)
LEMMA QuitStep ==
  ASSUME ControlOK, FlagsOK, HandlerSeqsOK, WorkInHand, QuitStages, [Next]_vars
  PROVE  QuitStages'
<1> USE DEF QuitStages, Gone, InTermination, AfterEngines, UnitsStopping, Quitting, queueVars, handlerVars, lbVars, unitVars, routeVars, resultVars, dispatchVars, historyVars,
        balancerVars, restOfDispatch, mainVars, At, MoveTo, Goto, DispatchTo
<1>1. CASE Starting
  <2>1. CASE ActivateEngine
    <3>1. /\ hpc' = [hpc EXCEPT ![mh] = "loop"]
          /\ is_activate_handler' = [is_activate_handler EXCEPT ![mh] = TRUE]
          /\ mpc' = "activate" \/ (mpc' = "start" /\ mh' = 1)
          /\ mpc = "activate"
          /\ UNCHANGED <<flushed, dpc>>
      BY <2>1 DEF ActivateEngine, Linker, StartInferenceThread, NextHandler
    <3>2. QED
      BY <3>1 DEF ControlOK, FlagsOK
  <2>2. CASE ActivateFails
    <3>1. /\ UNCHANGED <<hpc, is_activate_handler, flushed, dpc>>
          /\ mpc = "activate" /\ mpc' = "terminate" /\ mh' = 1
      BY <2>2 DEF ActivateFails, Linker
    <3>2. \A k \in Handlers : ~(k < 1)
      BY DEF Handlers
    <3>3. QED
      BY <3>1, <3>2
  <2>3. CASE \E u \in Units : StartUnit(u)
    BY <2>3 DEF StartUnit
  <2>4. CASE Quit
    <3>1. /\ UNCHANGED <<hpc, is_activate_handler, flushed, dpc, mh>>
          /\ mpc = "run" /\ mpc' = "terminate" /\ mh = 1
      BY <2>4 DEF Quit
    <3>2. \A k \in Handlers : ~(k < 1)
      BY DEF Handlers
    <3>3. QED
      BY <3>1, <3>2
  <2>5. QED
    BY <1>1, <2>1, <2>2, <2>3, <2>4 DEF Starting
<1>2. CASE EngineStop
  <2>1. \A k \in Handlers : /\ k < mh + 1 => k < mh \/ k = mh
                            /\ mh >= NumHandlers => k < mh \/ k = mh
    BY HandlersAssumption DEF ControlOK, Handlers
  <2>2. mh < NumHandlers \/ mh >= NumHandlers
    BY HandlersAssumption DEF ControlOK, Handlers
  <2>3. CASE SkipEngine
    <3>1. /\ UNCHANGED <<hpc, is_activate_handler, flushed, dpc>>
          /\ mpc = "terminate" /\ ~is_activate_handler[mh]
          /\ \/ mh < NumHandlers /\ mpc' = "terminate" /\ mh' = mh + 1
             \/ mh >= NumHandlers /\ mpc' = "lbTerminate" /\ mh' = 1
      BY <2>2, <2>3 DEF SkipEngine, NextHandler
    <3>2. QED
      BY <2>1, <3>1 DEF ControlOK
  <2>4. CASE StopEngine
    BY <2>4 DEF StopEngine, StopInferenceThread, ControlOK, FlagsOK
  <2>5. CASE CloseEngineQ \/ AnswerEngineQ
    BY <2>5 DEF CloseEngineQ, AnswerEngineQ, CloseRequestQ, AnswerFlushed, ControlOK, HandlerSeqsOK
  <2>6. CASE FlushEngineQ
    BY <2>6 DEF FlushEngineQ, FlushRequestQ, ControlOK, HandlerSeqsOK
  <2>7. CASE JoinEngine
    <3>1. /\ UNCHANGED <<hpc, is_activate_handler, flushed, dpc>>
          /\ mpc = "answer" /\ hpc[mh] = "exited" /\ flushed[mh] = <<>>
          /\ \/ mh < NumHandlers /\ mpc' = "terminate" /\ mh' = mh + 1
             \/ mh >= NumHandlers /\ mpc' = "lbTerminate" /\ mh' = 1
      BY <2>2, <2>7 DEF JoinEngine, JoinInferenceThread, NextHandler
    <3>2. QED
      BY <2>1, <3>1 DEF ControlOK
  <2>8. QED
    BY <1>2, <2>3, <2>4, <2>5, <2>6, <2>7 DEF EngineStop
<1>3. CASE BalancerStop
  BY <1>3 DEF BalancerStop, TerminateBalancer, CloseBalancerQ, JoinBalancer, TerminateFlags, CloseRespondQ,
     JoinDispatcher
<1>4. CASE UnitStop
  BY <1>4 DEF UnitStop, StopUnit, EraseUnit, UnmapUnit, JoinUnit, AllStopped, UnsubscribeErase,
     UnsubscribeQueue
<1>5. ASSUME NEW u \in Units, UnitThread(u) PROVE QuitStages'
  <2>1. UNCHANGED <<hpc, is_activate_handler, flushed, dpc, mpc, mh>>
    BY <1>5 DEF UnitThread, SubscribeEnter, SubscribeInsert, SubscribeMakeQ, RequestRefused, RequestRoute,
     RequestCheck, RequestEnqueue, UnitExit
  <2>2. QED
    BY <2>1
<1>6. ASSUME NEW u \in Units, ResponseThread(u) PROVE QuitStages'
  <2>1. UNCHANGED <<hpc, is_activate_handler, flushed, dpc, mpc, mh>>
    BY <1>6 DEF ResponseThread, RespondAsync
  <2>2. QED
    BY <2>1
<1>7. ASSUME NEW h \in Handlers, HandlerThread(h) PROVE QuitStages'
  <2>1. UNCHANGED <<is_activate_handler, flushed, dpc, mpc, mh>>
    BY <1>7 DEF HandlerThread, InferenceThread, LoopHead, DequeueInput, DequeueNothing, PreprocessThrows,
     Preprocess, Infer, PushOutput
  <2>2. ~Gone(h) /\ \A k \in Handlers \ {h} : hpc'[k] = hpc[k]
    BY <1>7 DEF ControlOK, HandlerThread, InferenceThread, LoopHead, DequeueInput, DequeueNothing, PreprocessThrows,
     Preprocess, Infer, PushOutput
  <2>3. QED
    BY <2>1, <2>2
<1>8. CASE DispatcherThread
  <2>1. UNCHANGED <<hpc, is_activate_handler, flushed, mpc, mh>> /\ dpc # "exited"
    BY <1>8 DEF DispatcherThread, Dispatcher, DispatchLoop, DispatchDequeue, DispatchNothing, DispatchLookup,
     DispatchPush
  <2>2. QED
    BY <2>1
<1>9. CASE UNCHANGED vars
  BY <1>9 DEF vars
<1>10. QED
  BY <1>1, <1>2, <1>3, <1>4, <1>5, <1>6, <1>7, <1>8, <1>9, NextCases

-----------------------------------------------------------------------------
(***************************************************************************)
(* How many requests of one unit a queue has: at most its length, one more *)
(* at most after an append, and not more after a dequeue.                  *)
(***************************************************************************)
LEMMA OfUnitFinite ==
  ASSUME NEW q \in Seq(Request), NEW u
  PROVE  /\ IsFiniteSet(OfUnit(q, u))
         /\ Cardinality(OfUnit(q, u)) \in Nat
         /\ Cardinality(OfUnit(q, u)) <= Len(q)
<1>1. Len(q) \in Nat
  OBVIOUS
<1>2. IsFiniteSet(1..Len(q)) /\ Cardinality(1..Len(q)) = Len(q)
  <2>1. PICK n \in Nat : n = Len(q)
    BY <1>1
  <2>2. /\ IsFiniteSet(1..n)
        /\ Cardinality(1..n) = IF 1 > n THEN 0 ELSE n - 1 + 1
    BY FS_Interval
  <2>3. QED
    BY <2>1, <2>2
<1>3. OfUnit(q, u) \in SUBSET (1..Len(q))
  BY DEF OfUnit
<1>4. QED
  BY <1>2, <1>3, FS_Subset, FS_CardinalityType

LEMMA OfUnitAppend ==
  ASSUME NEW q \in Seq(Request), NEW x \in Request, NEW u
  PROVE  Cardinality(OfUnit(Append(q, x), u)) =
           IF x.unit = u THEN Cardinality(OfUnit(q, u)) + 1 ELSE Cardinality(OfUnit(q, u))
<1> DEFINE n == Len(q) + 1
<1>1. /\ Len(q) \in Nat
      /\ Len(Append(q, x)) = n
      /\ Append(q, x)[n] = x
      /\ \A i \in 1..Len(q) : Append(q, x)[i] = q[i]
  OBVIOUS
<1>2. 1..n = (1..Len(q)) \cup {n} /\ n \notin 1..Len(q)
  BY <1>1
<1>3. n \notin OfUnit(q, u)
  BY <1>2 DEF OfUnit
<1>4. CASE x.unit = u
  <2>1. OfUnit(Append(q, x), u) = OfUnit(q, u) \cup {n}
    <3> HIDE DEF n
    <3>1. QED
      BY <1>1, <1>2, <1>4 DEF OfUnit
  <2>2. IsFiniteSet(OfUnit(q, u))
    BY OfUnitFinite
  <2>3. PICK S : S = OfUnit(q, u)
    OBVIOUS
  <2>4. Cardinality(S \cup {n}) = Cardinality(S) + 1
    BY <1>3, <2>2, <2>3, FS_AddElement
  <2>5. QED
    BY <1>4, <2>1, <2>3, <2>4
<1>5. CASE x.unit # u
  <2>1. OfUnit(Append(q, x), u) = OfUnit(q, u)
    <3> HIDE DEF n
    <3>1. QED
      BY <1>1, <1>2, <1>5 DEF OfUnit
  <2>2. QED
    BY <1>5, <2>1
<1>6. QED
  BY <1>4, <1>5

LEMMA OfUnitTail ==
  ASSUME NEW q \in Seq(Request), q # <<>>, NEW u
  PROVE  Cardinality(OfUnit(Tail(q), u)) <= Cardinality(OfUnit(q, u))
<1> DEFINE f == [i \in OfUnit(Tail(q), u) |-> i + 1]
<1>1. /\ Len(q) \in Nat
      /\ Len(Tail(q)) = Len(q) - 1
      /\ \A i \in 1..Len(Tail(q)) : Tail(q)[i] = q[i + 1]
  OBVIOUS
<1>2. \A i \in OfUnit(Tail(q), u) : i \in Int /\ i + 1 \in OfUnit(q, u)
  BY <1>1 DEF OfUnit
<1>3. f \in Injection(OfUnit(Tail(q), u), OfUnit(q, u))
  BY <1>2 DEF Injection, IsInjective
<1>4. QED
  BY <1>3, OfUnitFinite, FS_Injection

LEMMA AdmittedFinite ==
  ASSUME NEW h
  PROVE  /\ IsFiniteSet(AdmittedTo(h)) /\ IsFiniteSet(Units)
         /\ Cardinality(AdmittedTo(h)) \in Nat /\ Cardinality(Units) \in Nat
         /\ Cardinality(AdmittedTo(h)) <= Cardinality(Units)
<1>1. AdmittedTo(h) \in SUBSET Units
  BY DEF AdmittedTo
<1>2. QED
  BY <1>1, UnitsAssumption, FS_Subset, FS_CardinalityType

(***************************************************************************)
(* The admission to the input queues keeps their bounds.                   *)
(***************************************************************************)
LEMMA AdmissionStep ==
  ASSUME ControlOK, RoutesOK, HandlerSeqsOK, WorkInHand, InputAdmission, [Next]_vars
  PROVE  InputAdmission'
<1> USE DEF queueVars, handlerVars, lbVars, unitVars, routeVars, resultVars, dispatchVars, historyVars,
        balancerVars, restOfDispatch, mainVars, At, MoveTo, Goto, DispatchTo
<1>1. CASE Starting
  <2>1. requestQ' = requestQ /\ \A h \in Handlers : AdmittedTo(h)' = AdmittedTo(h)
    BY <1>1 DEF ControlOK, RoutesOK, AdmittedTo, Starting, ActivateEngine, ActivateFails, StartUnit, Quit, Linker, StartInferenceThread,
     NextHandler
  <2>2. QED
    BY <2>1 DEF InputAdmission
<1>2. CASE EngineStop
  <2>1. \A h \in Handlers : AdmittedTo(h)' = AdmittedTo(h)
    BY <1>2 DEF AdmittedTo, EngineStop, SkipEngine, StopEngine, CloseEngineQ, FlushEngineQ, AnswerEngineQ, JoinEngine,
     StopInferenceThread, CloseRequestQ, FlushRequestQ, AnswerFlushed, JoinInferenceThread,
     NextHandler
  <2>2. CASE FlushEngineQ
    <3>1. \A h \in Handlers : requestQ'[h] = requestQ[h] \/ requestQ'[h] = <<>>
      BY <2>2 DEF FlushEngineQ, FlushRequestQ, ControlOK, HandlerSeqsOK
    <3>2. <<>> \in Seq(Request) /\ Len(<<>>) = 0
      BY SeqFacts
    <3>3. \A u \in Units : OfUnit(<<>>, u) = {}
      BY DEF OfUnit
    <3>4. \A u \in Units : Cardinality(OfUnit(<<>>, u)) = 0
      BY <3>3, FS_EmptySet
    <3>5. ASSUME NEW h \in Handlers, requestQ'[h] = <<>>
          PROVE  /\ Len(requestQ'[h]) + Cardinality(AdmittedTo(h)') <= MaxInput + Cardinality(Units) - 1
                 /\ \A u \in Units : Cardinality(OfUnit(requestQ'[h], u)) < MaxInput
      <4>1. Len(requestQ[h]) \in Nat /\ Cardinality(AdmittedTo(h)) \in Nat /\ Cardinality(Units) \in Nat
        BY AdmittedFinite DEF HandlerSeqsOK
      <4>2. Len(requestQ'[h]) = 0 /\ \A u \in Units : Cardinality(OfUnit(requestQ'[h], u)) = 0
        BY <3>2, <3>4, <3>5
      <4>3. Cardinality(AdmittedTo(h)') = Cardinality(AdmittedTo(h))
        BY <2>1
      <4>4. QED
        BY <4>1, <4>2, <4>3, MaxInputAssumption DEF InputAdmission
    <3>6. \A h \in Handlers, u \in Units : Cardinality(OfUnit(requestQ'[h], u)) < MaxInput
                                             => Cardinality(OfUnit(requestQ'[h], u)) <= MaxInput
      <4>1. requestQ' \in [Handlers -> Seq(Request)]
        BY <1>2, HandlerSeqsStep DEF HandlerSeqsOK
      <4>2. \A h \in Handlers, u \in Units : Cardinality(OfUnit(requestQ'[h], u)) \in Nat
        BY <4>1, OfUnitFinite
      <4>3. QED
        BY <4>2, MaxInputAssumption
    <3>7. QED
      BY <2>1, <3>1, <3>5, <3>6 DEF InputAdmission
  <2>3. CASE ~FlushEngineQ
    <3>1. requestQ' = requestQ
      BY <1>2, <2>3 DEF EngineStop, SkipEngine, StopEngine, CloseEngineQ, FlushEngineQ, AnswerEngineQ, JoinEngine,
     StopInferenceThread, CloseRequestQ, FlushRequestQ, AnswerFlushed, JoinInferenceThread,
     NextHandler
    <3>2. QED
      BY <2>1, <3>1 DEF InputAdmission
  <2>4. QED
    BY <2>2, <2>3
<1>3. CASE BalancerStop
  <2>1. requestQ' = requestQ /\ \A h \in Handlers : AdmittedTo(h)' = AdmittedTo(h)
    BY <1>3 DEF ControlOK, RoutesOK, AdmittedTo, BalancerStop, TerminateBalancer, CloseBalancerQ, JoinBalancer, TerminateFlags, CloseRespondQ,
     JoinDispatcher
  <2>2. QED
    BY <2>1 DEF InputAdmission
<1>4. CASE UnitStop
  <2>1. requestQ' = requestQ /\ \A h \in Handlers : AdmittedTo(h)' = AdmittedTo(h)
    BY <1>4 DEF ControlOK, RoutesOK, AdmittedTo, UnitStop, StopUnit, EraseUnit, UnmapUnit, JoinUnit, AllStopped, UnsubscribeErase,
     UnsubscribeQueue
  <2>2. QED
    BY <2>1 DEF InputAdmission
<1>5. ASSUME NEW u \in Units, UnitThread(u) PROVE InputAdmission'
  <2>1. CASE RequestCheck(u)
    <3> DEFINE g == target[u]
    <3>1. g \in Handlers /\ requestQ' = requestQ /\ target' = target
      BY <2>1 DEF RequestCheck, WorkInHand
    <3>2. \A h \in Handlers \ {g} : AdmittedTo(h)' = AdmittedTo(h)
      BY <2>1 DEF RequestCheck, AdmittedTo, ControlOK
    <3>3. \/ Len(requestQ[g]) < MaxInput /\ AdmittedTo(g)' \subseteq AdmittedTo(g) \cup {u}
          \/ AdmittedTo(g)' = AdmittedTo(g)
      <4>1. Len(requestQ[g]) \in Nat
        BY <3>1 DEF HandlerSeqsOK
      <4>2. CASE Len(requestQ[g]) >= MaxInput
        BY <2>1, <4>2 DEF RequestCheck, AdmittedTo, ControlOK
      <4>3. CASE Len(requestQ[g]) < MaxInput
        BY <2>1, <4>3 DEF RequestCheck, AdmittedTo, ControlOK
      <4>4. QED
        BY <4>1, <4>2, <4>3, MaxInputAssumption
    <3>4. CASE AdmittedTo(g)' = AdmittedTo(g)
      BY <3>1, <3>2, <3>4 DEF InputAdmission
    <3>5. CASE Len(requestQ[g]) < MaxInput /\ AdmittedTo(g)' \subseteq AdmittedTo(g) \cup {u}
      <4>1. /\ Len(requestQ[g]) \in Nat
            /\ \A v \in Units : /\ Cardinality(OfUnit(requestQ[g], v)) \in Nat
                                /\ Cardinality(OfUnit(requestQ[g], v)) <= Len(requestQ[g])
        BY <3>1, OfUnitFinite DEF HandlerSeqsOK
      <4>2. /\ Cardinality(AdmittedTo(g)') \in Nat /\ Cardinality(Units) \in Nat
            /\ Cardinality(AdmittedTo(g)') <= Cardinality(Units)
        <5>1. AdmittedTo(g)' \in SUBSET Units
          BY <3>5 DEF AdmittedTo
        <5>2. QED
          BY <5>1, UnitsAssumption, FS_Subset, FS_CardinalityType
      <4>3. /\ Len(requestQ[g]) + Cardinality(AdmittedTo(g)') <= MaxInput + Cardinality(Units) - 1
            /\ \A v \in Units : /\ Cardinality(OfUnit(requestQ[g], v)) < MaxInput
                                /\ Cardinality(OfUnit(requestQ[g], v)) <= MaxInput
        BY <3>5, <4>1, <4>2, MaxInputAssumption
      <4>4. ASSUME NEW h \in Handlers, h # g
            PROVE  AdmittedTo(h)' = AdmittedTo(h)
        BY <3>2, <4>4
      <4>5. QED
        BY <3>1, <4>3, <4>4 DEF InputAdmission
    <3>6. QED
      BY <3>3, <3>4, <3>5
  <2>2. CASE RequestEnqueue(u)
    <3>1. PICK g \in Handlers : g = target[u] /\ lastId[u] \in Nat
      BY <2>2 DEF RequestEnqueue, WorkInHand, RoutesOK
    <3> DEFINE r == [unit |-> u, id |-> lastId[u], handler |-> g]
    <3>2. r \in Request /\ r.unit = u
      BY <3>1 DEF Request
    <3>3. requestQ' = [requestQ EXCEPT ![g] = Append(@, r)]
      BY <2>2, <3>1 DEF RequestEnqueue
    <3>4. /\ \A h \in Handlers \ {g} : AdmittedTo(h)' = AdmittedTo(h)
          /\ AdmittedTo(g)' = AdmittedTo(g) \ {u}
          /\ u \in AdmittedTo(g)
      BY <2>2, <3>1 DEF RequestEnqueue, AdmittedTo, ControlOK
    <3> HIDE DEF r
    <3>5. /\ requestQ'[g] = Append(requestQ[g], r)
          /\ \A h \in Handlers \ {g} : requestQ'[h] = requestQ[h]
      BY <3>1, <3>3 DEF HandlerSeqsOK
    <3>6. /\ requestQ[g] \in Seq(Request) /\ Len(requestQ[g]) \in Nat
          /\ Len(requestQ'[g]) = Len(requestQ[g]) + 1
      BY <3>1, <3>2, <3>5 DEF HandlerSeqsOK
    <3>7. /\ Cardinality(AdmittedTo(g)') = Cardinality(AdmittedTo(g)) - 1
          /\ Cardinality(AdmittedTo(g)) \in Nat /\ Cardinality(Units) \in Nat
      BY <3>4, AdmittedFinite, FS_RemoveElement
    <3>8. Len(requestQ'[g]) + Cardinality(AdmittedTo(g)') <= MaxInput + Cardinality(Units) - 1
      BY <3>1, <3>6, <3>7, MaxInputAssumption DEF InputAdmission
    <3>9. \A v \in Units : /\ Cardinality(OfUnit(requestQ'[g], v)) <= MaxInput
                           /\ v \in AdmittedTo(g)' => Cardinality(OfUnit(requestQ'[g], v)) < MaxInput
      <4> TAKE v \in Units
      <4>1. Cardinality(OfUnit(requestQ[g], v)) \in Nat
        BY <3>6, OfUnitFinite
      <4>2. Cardinality(OfUnit(requestQ'[g], v)) =
              IF u = v THEN Cardinality(OfUnit(requestQ[g], v)) + 1
              ELSE Cardinality(OfUnit(requestQ[g], v))
        BY <3>2, <3>5, <3>6, OfUnitAppend
      <4>3. CASE u = v
        <5>1. Cardinality(OfUnit(requestQ[g], v)) < MaxInput /\ v \notin AdmittedTo(g)'
          BY <3>1, <3>4, <4>3 DEF InputAdmission
        <5>2. QED
          BY <4>1, <4>2, <4>3, <5>1, MaxInputAssumption
      <4>4. CASE u # v
        BY <3>1, <3>4, <4>2, <4>4 DEF InputAdmission
      <4>5. QED
        BY <4>3, <4>4
    <3>10. ASSUME NEW h \in Handlers, h # g
           PROVE  AdmittedTo(h)' = AdmittedTo(h) /\ requestQ'[h] = requestQ[h]
      BY <3>4, <3>5, <3>10
    <3>11. ASSUME NEW h \in Handlers
           PROVE  /\ Len(requestQ'[h]) + Cardinality(AdmittedTo(h)') <= MaxInput + Cardinality(Units) - 1
                  /\ \A v \in Units :
                       /\ Cardinality(OfUnit(requestQ'[h], v)) <= MaxInput
                       /\ v \in AdmittedTo(h)' => Cardinality(OfUnit(requestQ'[h], v)) < MaxInput
      <4>1. CASE h = g
        BY <3>8, <3>9, <4>1
      <4>2. CASE h # g
        BY <3>10, <4>2 DEF InputAdmission
      <4>3. QED
        BY <4>1, <4>2
    <3>12. QED
      BY <3>11 DEF InputAdmission
  <2>3. CASE ~RequestCheck(u) /\ ~RequestEnqueue(u)
    <3>1. requestQ' = requestQ /\ \A h \in Handlers : AdmittedTo(h)' = AdmittedTo(h)
      BY <1>5, <2>3 DEF ControlOK, RoutesOK, AdmittedTo, UnitThread, SubscribeEnter, SubscribeInsert, SubscribeMakeQ, RequestRefused, RequestRoute,
     RequestCheck, RequestEnqueue, UnitExit
    <3>2. QED
      BY <3>1 DEF InputAdmission
  <2>4. QED
    BY <2>1, <2>2, <2>3
<1>6. ASSUME NEW u \in Units, ResponseThread(u) PROVE InputAdmission'
  <2>1. requestQ' = requestQ /\ \A h \in Handlers : AdmittedTo(h)' = AdmittedTo(h)
    BY <1>6 DEF ControlOK, RoutesOK, AdmittedTo, ResponseThread, RespondAsync
  <2>2. QED
    BY <2>1 DEF InputAdmission
<1>7. ASSUME NEW h \in Handlers, HandlerThread(h) PROVE InputAdmission'
  <2>1. \A k \in Handlers : AdmittedTo(k)' = AdmittedTo(k)
    BY <1>7 DEF AdmittedTo, HandlerThread, InferenceThread, LoopHead, DequeueInput, DequeueNothing, PreprocessThrows,
     Preprocess, Infer, PushOutput
  <2>2. CASE DequeueInput(h)
    <3>1. /\ requestQ'[h] = Tail(requestQ[h])
          /\ \A k \in Handlers \ {h} : requestQ'[k] = requestQ[k]
          /\ requestQ[h] \in Seq(Request) /\ requestQ[h] # <<>>
      BY <2>2 DEF DequeueInput, HandlerSeqsOK
    <3>2. /\ Tail(requestQ[h]) \in Seq(Request)
          /\ Len(requestQ[h]) \in Nat /\ Len(Tail(requestQ[h])) = Len(requestQ[h]) - 1
      BY <3>1
    <3>3. \A u \in Units :
            /\ Cardinality(OfUnit(requestQ[h], u)) \in Nat
            /\ Cardinality(OfUnit(requestQ'[h], u)) \in Nat
            /\ Cardinality(OfUnit(requestQ'[h], u)) <= Cardinality(OfUnit(requestQ[h], u))
      BY <3>1, <3>2, OfUnitFinite, OfUnitTail
    <3>4. Cardinality(AdmittedTo(h)) \in Nat /\ Cardinality(Units) \in Nat
      BY AdmittedFinite
    <3>5. /\ Len(requestQ'[h]) + Cardinality(AdmittedTo(h)) <= MaxInput + Cardinality(Units) - 1
          /\ \A u \in Units :
               /\ Cardinality(OfUnit(requestQ'[h], u)) <= MaxInput
               /\ u \in AdmittedTo(h) => Cardinality(OfUnit(requestQ'[h], u)) < MaxInput
      BY <3>1, <3>2, <3>3, <3>4, MaxInputAssumption DEF InputAdmission
    <3>6. QED
      BY <2>1, <3>1, <3>5 DEF InputAdmission
  <2>3. CASE ~DequeueInput(h)
    <3>1. requestQ' = requestQ
      BY <1>7, <2>3 DEF HandlerThread, InferenceThread, LoopHead, DequeueInput, DequeueNothing, PreprocessThrows,
     Preprocess, Infer, PushOutput
    <3>2. QED
      BY <2>1, <3>1 DEF InputAdmission
  <2>4. QED
    BY <2>2, <2>3
<1>8. CASE DispatcherThread
  <2>1. requestQ' = requestQ /\ \A h \in Handlers : AdmittedTo(h)' = AdmittedTo(h)
    BY <1>8 DEF ControlOK, RoutesOK, AdmittedTo, DispatcherThread, Dispatcher, DispatchLoop, DispatchDequeue, DispatchNothing, DispatchLookup,
     DispatchPush
  <2>2. QED
    BY <2>1 DEF InputAdmission
<1>9. CASE UNCHANGED vars
  BY <1>9 DEF vars, InputAdmission, AdmittedTo
<1>10. QED
  BY <1>1, <1>2, <1>3, <1>4, <1>5, <1>6, <1>7, <1>8, <1>9, NextCases

(***************************************************************************)
(* The invariants of the control together.                                 *)
(***************************************************************************)
ServiceInvariant == ServiceTyped /\ QuitStages /\ InputAdmission

LEMMA ServiceInit == Init => ServiceInvariant
<1> SUFFICES ASSUME Init PROVE ServiceInvariant
  OBVIOUS
<1>1. QuitStages
  BY DEF Init, QueuesInit, HandlerInit, BalancerInit, QuitStages, Gone, InTermination,
     AfterEngines, UnitsStopping, Quitting
<1>2. InputAdmission
  <2>1. /\ \A h \in Handlers : requestQ[h] = <<>> /\ AdmittedTo(h) = {}
        /\ \A u \in Units : OfUnit(<<>>, u) = {}
        /\ Len(<<>>) = 0
    BY DEF Init, QueuesInit, BalancerInit, AdmittedTo, OfUnit
  <2>2. Cardinality({}) = 0
    BY FS_EmptySet
  <2>3. Cardinality(Units) \in Nat \ {0}
    BY UnitsAssumption, FS_CardinalityType, FS_EmptySet
  <2>4. 0 <= MaxInput + Cardinality(Units) - 1 /\ 0 <= MaxInput /\ 0 + 0 = 0
    BY <2>3, MaxInputAssumption
  <2>5. QED
    BY <2>1, <2>2, <2>4 DEF InputAdmission
<1>3. QED
  BY <1>1, <1>2, TypedInit DEF ServiceInvariant

LEMMA ServiceStep == ServiceInvariant /\ [Next]_vars => ServiceInvariant'
<1> SUFFICES ASSUME ServiceInvariant, [Next]_vars PROVE ServiceInvariant'
  OBVIOUS
<1>1. ControlOK /\ FlagsOK /\ RoutesOK /\ HandlerSeqsOK /\ ReplySeqsOK /\ WorkInHand
  BY TypeIsParts DEF ServiceInvariant, ServiceTyped, TypeParts
<1>2. QuitStages'
  BY <1>1, QuitStep DEF ServiceInvariant
<1>3. InputAdmission'
  BY <1>1, AdmissionStep DEF ServiceInvariant
<1>4. QED
  BY <1>2, <1>3, TypedStep DEF ServiceInvariant

LEMMA ServiceInvariance == Spec => []ServiceInvariant
  BY ServiceInit, ServiceStep, PTL DEF Spec

(***************************************************************************)
(* When Quit comes to the units the engines and the dispatcher have ended  *)
(* and hold nothing (Service_DETECTOR::Quit, TerminateEngine, Terminate).  *)
(***************************************************************************)
THEOREM QuitIsQuiet == Spec => []QuietWhenUnitsStop
<1>1. ServiceInvariant => QuietWhenUnitsStop
  <2> SUFFICES ASSUME ServiceInvariant, UnitsStopping
               PROVE  /\ dpc = "exited" /\ reply = <<>>
                      /\ \A h \in Handlers : /\ hpc[h] \in {"down", "exited"}
                                             /\ input[h] = <<>> /\ outputs[h] = <<>>
                                             /\ flushed[h] = <<>>
    BY DEF QuietWhenUnitsStop, UnitsStopping
  <2>1. dpc = "exited" /\ reply = <<>>
    BY DEF ServiceInvariant, ServiceTyped, QuitStages, WorkInHand
  <2>2. ASSUME NEW h \in Handlers
        PROVE  Gone(h) /\ input[h] = <<>> /\ outputs[h] = <<>> /\ flushed[h] = <<>>
    <3>1. ~is_activate_handler[h] /\ ~InTermination(h) /\ flushed[h] = <<>>
      BY DEF ServiceInvariant, QuitStages, UnitsStopping, AfterEngines, Quitting, InTermination
    <3>2. Gone(h)
      BY <3>1 DEF ServiceInvariant, QuitStages
    <3>3. QED
      BY <3>1, <3>2 DEF ServiceInvariant, ServiceTyped, WorkInHand, HandlerHolds, Gone
  <2>3. QED
    BY <2>1, <2>2 DEF Gone
<1>2. QED
  BY <1>1, ServiceInvariance, PTL

(***************************************************************************)
(* The unlocked test of RequestAsync lets an input queue grow past its     *)
(* limit by less than one request per unit, and never by requests of one   *)
(* unit alone.                                                             *)
(***************************************************************************)
THEOREM InputsBounded == Spec => []InputQBound
<1>1. ServiceInvariant => InputQBound
  <2> SUFFICES ASSUME ServiceInvariant, NEW h \in Handlers
               PROVE  /\ Len(requestQ[h]) <= MaxInput + Cardinality(Units) - 1
                      /\ \A u \in Units : Cardinality(OfUnit(requestQ[h], u)) <= MaxInput
    BY DEF InputQBound, OfUnit
  <2>1. requestQ[h] \in Seq(Request)
    BY TypeIsParts DEF ServiceInvariant, ServiceTyped, TypeParts, HandlerSeqsOK
  <2>2. Len(requestQ[h]) \in Nat
    BY <2>1
  <2>3. Cardinality(AdmittedTo(h)) \in Nat /\ Cardinality(Units) \in Nat
    BY AdmittedFinite
  <2>4. QED
    BY <2>2, <2>3, MaxInputAssumption DEF ServiceInvariant, InputAdmission
<1>2. QED
  BY <1>1, ServiceInvariance, PTL

-----------------------------------------------------------------------------
(***************************************************************************)
(* The places one by one, and what they hold.                              *)
(***************************************************************************)
HeldAtEach ==
    /\ \A h \in Handlers : /\ Held[<<"request", h>>] = requestQ[h]
                           /\ Held[<<"input", h>>] = input[h]
                           /\ Held[<<"batch", h>>] = batch[h]
                           /\ Held[<<"outputs", h>>] = outputs[h]
                           /\ Held[<<"flushed", h>>] = flushed[h]
    /\ Held[<<"respond", 0>>] = respondQ
    /\ Held[<<"reply", 0>>] = reply
    /\ \A u \in Units : /\ Held[<<"result", u>>] = resultQ[u]
                        /\ Held[<<"delivered", u>>] = delivered[u]
    /\ DOMAIN Held = Locations

LEMMA EachLocation ==
  /\ \A h \in Handlers : /\ <<"request", h>> \in Locations /\ <<"input", h>> \in Locations
                         /\ <<"batch", h>> \in Locations /\ <<"outputs", h>> \in Locations
                         /\ <<"flushed", h>> \in Locations
  /\ <<"respond", 0>> \in Locations /\ <<"reply", 0>> \in Locations
  /\ \A u \in Units : <<"result", u>> \in Locations /\ <<"delivered", u>> \in Locations
  BY DEF Locations, HandlerPlaces, UnitPlaces

LEMMA LocationCases ==
  ASSUME NEW l \in Locations
  PROVE  \/ \E h \in Handlers : \/ l = <<"request", h>> \/ l = <<"input", h>>
                                \/ l = <<"batch", h>> \/ l = <<"outputs", h>>
                                \/ l = <<"flushed", h>>
         \/ l = <<"respond", 0>> \/ l = <<"reply", 0>>
         \/ \E u \in Units : l = <<"result", u>> \/ l = <<"delivered", u>>
<1>1. CASE l \in HandlerPlaces \X Handlers
  BY <1>1 DEF HandlerPlaces
<1>2. CASE l \in {"respond", "reply"} \X {0}
  BY <1>2
<1>3. CASE l \in UnitPlaces \X Units
  BY <1>3 DEF UnitPlaces
<1>4. QED
  BY <1>1, <1>2, <1>3 DEF Locations

LEMMA HeldAt == HeldAtEach
<1>1. \A h \in Handlers : /\ Held[<<"request", h>>] = requestQ[h]
                          /\ Held[<<"input", h>>] = input[h]
                          /\ Held[<<"batch", h>>] = batch[h]
  BY EachLocation DEF Held
<1>2. \A h \in Handlers : /\ Held[<<"outputs", h>>] = outputs[h]
                          /\ Held[<<"flushed", h>>] = flushed[h]
  BY EachLocation DEF Held
<1>3. Held[<<"respond", 0>>] = respondQ /\ Held[<<"reply", 0>>] = reply
  BY EachLocation DEF Held
<1>4. \A u \in Units : /\ Held[<<"result", u>>] = resultQ[u]
                       /\ Held[<<"delivered", u>>] = delivered[u]
  BY EachLocation DEF Held
<1>5. DOMAIN Held = Locations
  BY DEF Held
<1>6. QED
  BY <1>1, <1>2, <1>3, <1>4, <1>5 DEF HeldAtEach

LEMMA HeldAtNext == HeldAtEach'
  BY HeldAt, PTL

HeldTyped == Held \in [Locations -> Seq(Request)]

LEMMA HeldType == HandlerSeqsOK /\ ReplySeqsOK => HeldTyped
<1> SUFFICES ASSUME HandlerSeqsOK, ReplySeqsOK PROVE HeldTyped
  OBVIOUS
<1>1. ASSUME NEW l \in Locations PROVE Held[l] \in Seq(Request)
  <2>1. CASE \E h \in Handlers : \/ l = <<"request", h>> \/ l = <<"input", h>>
                                 \/ l = <<"batch", h>> \/ l = <<"outputs", h>>
                                 \/ l = <<"flushed", h>>
    <3>1. PICK h \in Handlers : \/ l = <<"request", h>> \/ l = <<"input", h>>
                                \/ l = <<"batch", h>> \/ l = <<"outputs", h>>
                                \/ l = <<"flushed", h>>
      BY <2>1
    <3>2. /\ requestQ[h] \in Seq(Request) /\ input[h] \in Seq(Request) /\ batch[h] \in Seq(Request)
          /\ outputs[h] \in Seq(Request) /\ flushed[h] \in Seq(Request)
      BY DEF HandlerSeqsOK
    <3>3. QED
      BY <3>1, <3>2, HeldAt, Zenon DEF HeldAtEach
  <2>2. CASE l = <<"respond", 0>> \/ l = <<"reply", 0>>
    BY <2>2, HeldAt DEF HeldAtEach, ReplySeqsOK
  <2>3. CASE \E u \in Units : l = <<"result", u>> \/ l = <<"delivered", u>>
    <3>1. PICK u \in Units : l = <<"result", u>> \/ l = <<"delivered", u>>
      BY <2>3
    <3>2. resultQ[u] \in Seq(Request) /\ delivered[u] \in Seq(Request)
      BY DEF ReplySeqsOK
    <3>3. QED
      BY <3>1, <3>2, HeldAt, Zenon DEF HeldAtEach
  <2>4. QED
    BY <2>1, <2>2, <2>3, LocationCases
<1>2. QED
  BY <1>1 DEF Held, HeldTyped

LEMMA HeldTypeNext == HandlerSeqsOK' /\ ReplySeqsOK' => HeldTyped'
  BY HeldType, PTL

(***************************************************************************)
(* The four ways in which the service changes what the places hold: the    *)
(* head of a goes to the end of b; all of a goes to the empty b; a new     *)
(* request is put at the end of a; the head of a is dropped.               *)
(***************************************************************************)
Contents == [Locations -> Seq(Request)]

Others(H, G, A) == \A l \in Locations : l \in A \/ G[l] = H[l]

Moves(H, G, a, b) == /\ a # b /\ H[a] # <<>>
                     /\ G[a] = Tail(H[a]) /\ G[b] = Append(H[b], Head(H[a]))
                     /\ Others(H, G, {a, b})

Pours(H, G, a, b) == /\ a # b /\ H[b] = <<>>
                     /\ G[a] = <<>> /\ G[b] = H[a]
                     /\ Others(H, G, {a, b})

Puts(H, G, a, r) == G[a] = Append(H[a], r) /\ Others(H, G, {a})

Drops(H, G, a) == H[a] # <<>> /\ G[a] = Tail(H[a]) /\ Others(H, G, {a})

(***************************************************************************)
(* Where the element at position i of place c came from: position k of d.  *)
(***************************************************************************)
MovedFrom(H, a, b, c, i, d, k) ==
    \/ c = a /\ d = a /\ k = i + 1
    \/ c = b /\ i = Len(H[b]) + 1 /\ d = a /\ k = 1
    \/ c # a /\ (c = b => i <= Len(H[b])) /\ d = c /\ k = i

LEMMA MoveOrigin ==
  ASSUME NEW H \in Contents, NEW G \in Contents, NEW a \in Locations, NEW b \in Locations,
         Moves(H, G, a, b), NEW c \in Locations, NEW i \in 1..Len(G[c])
  PROVE  \E d \in Locations : \E k \in 1..Len(H[d]) :
           G[c][i] = H[d][k] /\ MovedFrom(H, a, b, c, i, d, k)
<1>1. H[a] \in Seq(Request) /\ H[b] \in Seq(Request) /\ H[c] \in Seq(Request)
  BY DEF Contents
<1>2. CASE c = a
  <2>1. G[a] = Tail(H[a]) /\ H[a] # <<>> /\ i \in 1..Len(Tail(H[a]))
    BY <1>2 DEF Moves
  <2>2. i + 1 \in 1..Len(H[a]) /\ Tail(H[a])[i] = H[a][i + 1]
    BY <1>1, <2>1
  <2>3. QED
    BY <1>2, <2>1, <2>2 DEF MovedFrom
<1>3. CASE c = b
  <2>1. CASE i = Len(H[b]) + 1
    <3>1. 1 \in 1..Len(H[a]) /\ G[b][i] = H[a][1]
      BY <1>1, <1>3, <2>1 DEF Moves
    <3>2. QED
      BY <1>3, <2>1, <3>1 DEF MovedFrom
  <2>2. CASE i # Len(H[b]) + 1
    <3>1. i \in 1..Len(H[b]) /\ G[b][i] = H[b][i] /\ i <= Len(H[b])
      BY <1>1, <1>3, <2>2 DEF Moves
    <3>2. QED
      BY <1>3, <3>1 DEF MovedFrom, Moves
  <2>3. QED
    BY <2>1, <2>2
<1>4. CASE c # a /\ c # b
  <2>1. G[c] = H[c]
    BY <1>4 DEF Moves, Others
  <2>2. QED
    BY <1>4, <2>1 DEF MovedFrom
<1>5. QED
  BY <1>2, <1>3, <1>4

LEMMA MoveTarget ==
  ASSUME NEW H \in Contents, NEW G \in Contents, NEW a \in Locations, NEW b \in Locations,
         Moves(H, G, a, b), NEW d \in Locations, NEW k \in 1..Len(H[d])
  PROVE  \E c \in Locations : \E i \in 1..Len(G[c]) : G[c][i] = H[d][k]
<1>1. H[a] \in Seq(Request) /\ H[b] \in Seq(Request) /\ H[d] \in Seq(Request)
  BY DEF Contents
<1>2. CASE d = a /\ k = 1
  <2>1. Len(H[b]) + 1 \in 1..Len(G[b]) /\ G[b][Len(H[b]) + 1] = H[a][1]
    BY <1>1 DEF Moves
  <2>2. QED
    BY <1>2, <2>1
<1>3. CASE d = a /\ k # 1
  <2>1. k - 1 \in 1..Len(G[a]) /\ G[a][k - 1] = H[a][k]
    BY <1>1, <1>3 DEF Moves
  <2>2. QED
    BY <1>3, <2>1
<1>4. CASE d = b
  <2>1. k \in 1..Len(G[b]) /\ G[b][k] = H[b][k]
    BY <1>1, <1>4 DEF Moves
  <2>2. QED
    BY <1>4, <2>1
<1>5. CASE d # a /\ d # b
  BY <1>5 DEF Moves, Others
<1>6. QED
  BY <1>2, <1>3, <1>4, <1>5

LEMMA MoveKeeps ==
  ASSUME NEW H \in Contents, NEW G \in Contents, NEW a \in Locations, NEW b \in Locations,
         Moves(H, G, a, b), NoneTwice(H), AtHome(H), Fits(b, H[a][1])
  PROVE  NoneTwice(G) /\ AtHome(G) /\ \A r : HeldIn(G, r) <=> HeldIn(H, r)
<1> DEFINE P(c, i) == \E d \in Locations : \E k \in 1..Len(H[d]) :
                        G[c][i] = H[d][k] /\ MovedFrom(H, a, b, c, i, d, k)
<1>a. DOMAIN H = Locations /\ DOMAIN G = Locations
  BY DEF Contents
<1>b. \A c \in Locations : \A i \in 1..Len(G[c]) : P(c, i)
  BY MoveOrigin
<1>1. ASSUME NEW c \in Locations, NEW e \in Locations,
             NEW i \in 1..Len(G[c]), NEW j \in 1..Len(G[e]), G[c][i] = G[e][j]
      PROVE  c = e /\ i = j
  <2>a. P(c, i) /\ P(e, j)
    BY <1>b, Zenon
  <2>1. PICK d \in Locations, k \in Nat : k \in 1..Len(H[d]) /\
          G[c][i] = H[d][k] /\ MovedFrom(H, a, b, c, i, d, k)
    BY <2>a
  <2>2. PICK f \in Locations, m \in Nat : m \in 1..Len(H[f]) /\
          G[e][j] = H[f][m] /\ MovedFrom(H, a, b, e, j, f, m)
    BY <2>a
  <2>3. d = f /\ k = m
    <3>1. H[d][k] = H[f][m] /\ k \in 1..Len(H[d]) /\ m \in 1..Len(H[f])
      BY <1>1, <2>1, <2>2
    <3>2. QED
      BY <1>a, <3>1, Zenon DEF NoneTwice
  <2>4. a # b
    BY DEF Moves
  <2>5. i \in Int /\ j \in Int /\ i >= 1 /\ j >= 1
    OBVIOUS
  <2>6. QED
    BY <2>1, <2>2, <2>3, <2>4, <2>5 DEF MovedFrom
<1>2. NoneTwice(G)
  BY <1>a, <1>1 DEF NoneTwice
<1>3. ASSUME NEW c \in Locations, NEW i \in 1..Len(G[c])
      PROVE  Fits(c, G[c][i])
  <2>1. PICK d \in Locations, k \in Nat : k \in 1..Len(H[d]) /\
          G[c][i] = H[d][k] /\ MovedFrom(H, a, b, c, i, d, k)
    BY <1>b
  <2>2. Fits(d, H[d][k])
    BY <1>a, <2>1 DEF AtHome
  <2>3. QED
    BY <2>1, <2>2 DEF MovedFrom
<1>4. AtHome(G)
  BY <1>a, <1>3 DEF AtHome
<1>5. \A r : HeldIn(G, r) => HeldIn(H, r)
  BY <1>a, <1>b DEF HeldIn
<1>6. \A r : HeldIn(H, r) => HeldIn(G, r)
  <2>1. \A d \in Locations : \A k \in 1..Len(H[d]) :
          \E c \in Locations : \E i \in 1..Len(G[c]) : G[c][i] = H[d][k]
    BY MoveTarget
  <2>2. QED
    BY <1>a, <2>1 DEF HeldIn
<1>7. QED
  BY <1>2, <1>4, <1>5, <1>6

LEMMA RankType == \A l \in Locations : Rank[l] \in Nat
<1>1. ASSUME NEW l \in Locations PROVE Rank[l] \in Nat
  <2>1. CASE l \in HandlerPlaces \X Handlers
    BY <2>1 DEF Rank, HandlerPlaces
  <2>2. CASE l \in {"respond", "reply"} \X {0}
    BY <2>2 DEF Rank
  <2>3. CASE l \in UnitPlaces \X Units
    BY <2>3 DEF Rank, UnitPlaces
  <2>4. QED
    BY <2>1, <2>2, <2>3 DEF Locations
<1>2. QED
  BY <1>1

(***************************************************************************)
(* Between a and b nothing is related to x.                                *)
(***************************************************************************)
Clear(H, a, b, x) == \A e \in Locations : e # a /\ Rank[a] <= Rank[e] /\ Rank[e] < Rank[b] =>
                       \A j \in 1..Len(H[e]) : ~Related(x, H[e][j])

LEMMA MoveOrder ==
  ASSUME NEW H \in Contents, NEW G \in Contents, NEW a \in Locations, NEW b \in Locations,
         Moves(H, G, a, b), InOrder(H), Rank[a] < Rank[b], Clear(H, a, b, H[a][1])
  PROVE  InOrder(G)
<1> DEFINE P(c, i) == \E d \in Locations : \E k \in 1..Len(H[d]) :
                        G[c][i] = H[d][k] /\ MovedFrom(H, a, b, c, i, d, k)
           Ahead(c, i, e, j) == Rank[c] > Rank[e] \/ (c = e /\ i < j)
<1>a. DOMAIN H = Locations /\ DOMAIN G = Locations
  BY DEF Contents
<1>b. \A c \in Locations : \A i \in 1..Len(G[c]) : P(c, i)
  BY MoveOrigin
<1>1. ASSUME NEW c \in Locations, NEW e \in Locations,
             NEW i \in 1..Len(G[c]), NEW j \in 1..Len(G[e]),
             Ahead(c, i, e, j), Related(G[c][i], G[e][j])
      PROVE  G[c][i].id < G[e][j].id
  <2>a. P(c, i) /\ P(e, j)
    BY <1>b, Zenon
  <2>1. PICK d \in Locations, k \in Nat : k \in 1..Len(H[d]) /\
          G[c][i] = H[d][k] /\ MovedFrom(H, a, b, c, i, d, k)
    BY <2>a
  <2>2. PICK f \in Locations, m \in Nat : m \in 1..Len(H[f]) /\
          G[e][j] = H[f][m] /\ MovedFrom(H, a, b, e, j, f, m)
    BY <2>a
  <2>3. /\ i \in Int /\ j \in Int /\ i >= 1 /\ j >= 1 /\ a # b
        /\ Rank[a] \in Nat /\ Rank[b] \in Nat /\ Rank[c] \in Nat /\ Rank[e] \in Nat
        /\ Len(H[b]) \in Nat
    BY RankType DEF Moves, Contents
  <2>4. c = b /\ i = Len(H[b]) + 1 => i >= j \/ e # b
    <3>1. e = b => Len(G[e]) = Len(H[b]) + 1
      BY DEF Moves, Contents
    <3>2. QED
      BY <2>3, <3>1
  <2>5. Ahead(d, k, f, m)
    <3>1. CASE d = a /\ k = 1 /\ c = b /\ i = Len(H[b]) + 1
      <4>1. e # b /\ Rank[b] > Rank[e]
        BY <1>1, <2>3, <2>4, <3>1
      <4>2. CASE e = a
        BY <2>2, <2>3, <3>1, <4>2 DEF MovedFrom
      <4>3. CASE e # a
        <5>1. f = e /\ m = j
          BY <2>2, <4>1, <4>3 DEF MovedFrom
        <5>2. Related(H[a][1], H[e][m])
          BY <1>1, <2>1, <2>2, <3>1, <5>1
        <5>3. ~(Rank[a] <= Rank[e])
          BY <2>2, <4>1, <4>3, <5>1, <5>2 DEF Clear
        <5>4. QED
          BY <2>3, <3>1, <5>1, <5>3
      <4>4. QED
        BY <4>2, <4>3
    <3>2. CASE ~(d = a /\ k = 1 /\ c = b /\ i = Len(H[b]) + 1)
      <4>1. d = c /\ (k = i \/ (c = a /\ k = i + 1)) /\ (c # a => k = i)
        BY <2>1, <3>2 DEF MovedFrom
      <4>2. CASE f = a /\ m = 1 /\ e = b /\ j = Len(H[b]) + 1
        BY <1>1, <2>3, <4>1, <4>2
      <4>3. CASE ~(f = a /\ m = 1 /\ e = b /\ j = Len(H[b]) + 1)
        <5>1. f = e /\ (m = j \/ (e = a /\ m = j + 1)) /\ (e # a => m = j)
          BY <2>2, <4>3 DEF MovedFrom
        <5>2. c = e => (k = i /\ m = j) \/ (k = i + 1 /\ m = j + 1)
          BY <2>1, <2>2, <2>3, <4>1, <5>1 DEF MovedFrom
        <5>3. QED
          BY <1>1, <2>3, <4>1, <5>1, <5>2
      <4>4. QED
        BY <4>2, <4>3
    <3>3. QED
      BY <3>1, <3>2
  <2>6. Related(H[d][k], H[f][m])
    BY <1>1, <2>1, <2>2
  <2>7. H[d][k].id < H[f][m].id
    BY <1>a, <2>1, <2>2, <2>5, <2>6, Zenon DEF InOrder
  <2>8. QED
    BY <2>1, <2>2, <2>7
<1>2. QED
  BY <1>a, <1>1 DEF InOrder

(***************************************************************************)
(* The same when all of a goes to the empty b.                             *)
(***************************************************************************)
LEMMA PourOrigin ==
  ASSUME NEW H \in Contents, NEW G \in Contents, NEW a \in Locations, NEW b \in Locations,
         Pours(H, G, a, b), NEW c \in Locations, NEW i \in 1..Len(G[c])
  PROVE  \/ c = b /\ i \in 1..Len(H[a]) /\ G[c][i] = H[a][i]
         \/ c # a /\ c # b /\ i \in 1..Len(H[c]) /\ G[c][i] = H[c][i]
<1>1. CASE c = a
  <2>1. Len(G[c]) = 0
    BY <1>1 DEF Pours
  <2>2. QED
    BY <2>1
<1>2. CASE c # a
  BY <1>2 DEF Pours, Others
<1>3. QED
  BY <1>1, <1>2

LEMMA PourTarget ==
  ASSUME NEW H \in Contents, NEW G \in Contents, NEW a \in Locations, NEW b \in Locations,
         Pours(H, G, a, b), NEW d \in Locations, NEW k \in 1..Len(H[d])
  PROVE  \E c \in Locations : \E i \in 1..Len(G[c]) : G[c][i] = H[d][k]
<1>1. d # b
  <2>1. Len(H[b]) = 0
    BY DEF Pours
  <2>2. QED
    BY <2>1
<1>2. CASE d = a
  BY <1>2 DEF Pours
<1>3. CASE d # a
  BY <1>1, <1>3 DEF Pours, Others
<1>4. QED
  BY <1>2, <1>3

LEMMA PourKeeps ==
  ASSUME NEW H \in Contents, NEW G \in Contents, NEW a \in Locations, NEW b \in Locations,
         Pours(H, G, a, b), NoneTwice(H), AtHome(H), \A k \in 1..Len(H[a]) : Fits(b, H[a][k])
  PROVE  NoneTwice(G) /\ AtHome(G) /\ \A r : HeldIn(G, r) <=> HeldIn(H, r)
<1> DEFINE P(c, i) == \/ c = b /\ i \in 1..Len(H[a]) /\ G[c][i] = H[a][i]
                      \/ c # a /\ c # b /\ i \in 1..Len(H[c]) /\ G[c][i] = H[c][i]
<1>a. DOMAIN H = Locations /\ DOMAIN G = Locations
  BY DEF Contents
<1>b. \A c \in Locations : \A i \in 1..Len(G[c]) : P(c, i)
  BY PourOrigin
<1>1. ASSUME NEW c \in Locations, NEW e \in Locations,
             NEW i \in 1..Len(G[c]), NEW j \in 1..Len(G[e]), G[c][i] = G[e][j]
      PROVE  c = e /\ i = j
  <2>1. \A d, f \in Locations : \A k \in 1..Len(H[d]), m \in 1..Len(H[f]) :
          H[d][k] = H[f][m] => d = f /\ k = m
    BY <1>a, Zenon DEF NoneTwice
  <2>2. P(c, i) /\ P(e, j)
    BY <1>b
  <2>3. CASE c = b /\ e = b
    BY <1>1, <2>1, <2>2, <2>3
  <2>4. CASE c = b /\ e # b
    BY <1>1, <2>1, <2>2, <2>4
  <2>5. CASE c # b /\ e = b
    BY <1>1, <2>1, <2>2, <2>5
  <2>6. CASE c # b /\ e # b
    BY <1>1, <2>1, <2>2, <2>6
  <2>7. QED
    BY <2>3, <2>4, <2>5, <2>6
<1>2. NoneTwice(G)
  BY <1>a, <1>1 DEF NoneTwice
<1>3. AtHome(G)
  BY <1>a, <1>b, Zenon DEF AtHome
<1>4. \A r : HeldIn(G, r) => HeldIn(H, r)
  BY <1>a, <1>b, Zenon DEF HeldIn
<1>5. \A r : HeldIn(H, r) => HeldIn(G, r)
  <2>1. \A d \in Locations : \A k \in 1..Len(H[d]) :
          \E c \in Locations : \E i \in 1..Len(G[c]) : G[c][i] = H[d][k]
    BY PourTarget
  <2>2. QED
    BY <1>a, <2>1 DEF HeldIn
<1>6. QED
  BY <1>2, <1>3, <1>4, <1>5

LEMMA PourOrder ==
  ASSUME NEW H \in Contents, NEW G \in Contents, NEW a \in Locations, NEW b \in Locations,
         Pours(H, G, a, b), InOrder(H), Rank[a] < Rank[b],
         \A k \in 1..Len(H[a]) : Clear(H, a, b, H[a][k])
  PROVE  InOrder(G)
<1> DEFINE P(c, i) == \/ c = b /\ i \in 1..Len(H[a]) /\ G[c][i] = H[a][i]
                      \/ c # a /\ c # b /\ i \in 1..Len(H[c]) /\ G[c][i] = H[c][i]
<1>a. DOMAIN H = Locations /\ DOMAIN G = Locations
  BY DEF Contents
<1>b. \A c \in Locations : \A i \in 1..Len(G[c]) : P(c, i)
  BY PourOrigin
<1>c. \A l \in Locations : Rank[l] \in Nat
  BY RankType
<1>d. \A d, f \in Locations : \A k \in 1..Len(H[d]), m \in 1..Len(H[f]) :
        /\ Rank[d] > Rank[f] \/ (d = f /\ k < m)
        /\ Related(H[d][k], H[f][m])
        => H[d][k].id < H[f][m].id
  BY <1>a, Zenon DEF InOrder
<1>1. ASSUME NEW c \in Locations, NEW e \in Locations,
             NEW i \in 1..Len(G[c]), NEW j \in 1..Len(G[e]),
             Rank[c] > Rank[e] \/ (c = e /\ i < j), Related(G[c][i], G[e][j])
      PROVE  G[c][i].id < G[e][j].id
  <2>1. P(c, i) /\ P(e, j)
    BY <1>b
  <2>2. CASE c = b /\ e = b
    <3>1. ~(Rank[b] > Rank[b])
      BY <1>c
    <3>2. QED
      BY <1>1, <1>d, <2>1, <2>2, <3>1
  <2>3. CASE c = b /\ e # b
    <3>1. Rank[b] > Rank[e] /\ Related(H[a][i], H[e][j])
      BY <1>1, <2>1, <2>3
    <3>2. ~(Rank[a] <= Rank[e])
      BY <1>c, <2>1, <2>3, <3>1 DEF Clear
    <3>3. Rank[a] > Rank[e]
      BY <1>c, <3>2
    <3>4. QED
      BY <1>d, <2>1, <2>3, <3>1, <3>3
  <2>4. CASE c # b /\ e = b
    <3>1. Rank[c] > Rank[a]
      BY <1>1, <1>c, <2>4
    <3>2. QED
      BY <1>1, <1>d, <2>1, <2>4, <3>1
  <2>5. CASE c # b /\ e # b
    BY <1>1, <1>d, <2>1, <2>5
  <2>6. QED
    BY <2>2, <2>3, <2>4, <2>5
<1>2. QED
  BY <1>a, <1>1 DEF InOrder

(***************************************************************************)
(* The same when a new request r is put at the end of a.                   *)
(***************************************************************************)
LEMMA PutOrigin ==
  ASSUME NEW H \in Contents, NEW G \in Contents, NEW a \in Locations, NEW r \in Request,
         Puts(H, G, a, r)
  PROVE  /\ \A c \in Locations : \A i \in 1..Len(G[c]) :
              \/ c = a /\ i = Len(H[a]) + 1 /\ G[c][i] = r
              \/ i \in 1..Len(H[c]) /\ G[c][i] = H[c][i]
         /\ \A d \in Locations : \A k \in 1..Len(H[d]) : k \in 1..Len(G[d]) /\ G[d][k] = H[d][k]
         /\ Len(G[a]) = Len(H[a]) + 1 /\ G[a][Len(G[a])] = r /\ Len(H[a]) \in Nat
<1>1. H[a] \in Seq(Request) /\ G[a] = Append(H[a], r)
  BY DEF Contents, Puts
<1>2. /\ Len(H[a]) \in Nat /\ Len(G[a]) = Len(H[a]) + 1 /\ G[a][Len(G[a])] = r
      /\ \A i \in 1..Len(H[a]) : i \in 1..Len(G[a]) /\ G[a][i] = H[a][i]
  BY <1>1
<1>3. \A i \in 1..Len(G[a]) : i = Len(H[a]) + 1 \/ i \in 1..Len(H[a])
  BY <1>2
<1>4. \A c \in Locations : c = a \/ G[c] = H[c]
  BY DEF Puts, Others
<1>5. QED
  BY <1>2, <1>3, <1>4

LEMMA PutSource ==
  ASSUME NEW H \in Contents, NEW G \in Contents, NEW a \in Locations, NEW r \in Request,
         Puts(H, G, a, r), NEW c \in Locations, NEW i \in 1..Len(G[c])
  PROVE  \/ c = a /\ i = Len(H[a]) + 1 /\ G[c][i] = r
         \/ i \in 1..Len(H[c]) /\ G[c][i] = H[c][i]
<1>1. H[a] \in Seq(Request) /\ G[a] = Append(H[a], r)
  BY DEF Contents, Puts
<1>2. CASE c = a
  BY <1>1, <1>2
<1>3. CASE c # a
  BY <1>3 DEF Puts, Others
<1>4. QED
  BY <1>2, <1>3

LEMMA PutKeeps ==
  ASSUME NEW H \in Contents, NEW G \in Contents, NEW a \in Locations, NEW r \in Request,
         Puts(H, G, a, r), NoneTwice(H), AtHome(H), Fits(a, r), ~HeldIn(H, r)
  PROVE  NoneTwice(G) /\ AtHome(G) /\ \A x : HeldIn(G, x) <=> HeldIn(H, x) \/ x = r
<1> DEFINE New(c, i) == c = a /\ i = Len(H[a]) + 1 /\ G[c][i] = r
           Old(c, i) == i \in 1..Len(H[c]) /\ G[c][i] = H[c][i]
<1>a. DOMAIN H = Locations /\ DOMAIN G = Locations
  BY DEF Contents
<1>b. \A c \in Locations : \A i \in 1..Len(G[c]) : New(c, i) \/ Old(c, i)
  <2> TAKE c \in Locations
  <2> TAKE i \in 1..Len(G[c])
  <2>1. \/ c = a /\ i = Len(H[a]) + 1 /\ G[c][i] = r
        \/ i \in 1..Len(H[c]) /\ G[c][i] = H[c][i]
    BY PutSource
  <2>2. QED
    BY <2>1
<1>c. \A d \in Locations : \A k \in 1..Len(H[d]) : H[d][k] # r
  BY <1>a, Zenon DEF HeldIn
<1>1. ASSUME NEW c \in Locations, NEW e \in Locations,
             NEW i \in 1..Len(G[c]), NEW j \in 1..Len(G[e]), G[c][i] = G[e][j]
      PROVE  c = e /\ i = j
  <2>1. CASE New(c, i)
    <3>1. ~Old(e, j)
      BY <1>1, <1>c, <2>1, Zenon
    <3>2. New(e, j)
      BY <1>b, <3>1
    <3>3. QED
      BY <2>1, <3>2
  <2>2. CASE Old(c, i)
    <3>1. ~New(e, j)
      BY <1>1, <1>c, <2>2, Zenon
    <3>2. Old(e, j)
      BY <1>b, <3>1
    <3>3. QED
      <4>1. i \in 1..Len(H[c]) /\ j \in 1..Len(H[e]) /\ H[c][i] = H[e][j]
        BY <1>1, <2>2, <3>2
      <4>2. QED
        BY <1>a, <4>1, Zenon DEF NoneTwice
  <2>3. QED
    BY <1>b, <2>1, <2>2
<1>2. NoneTwice(G)
  BY <1>a, <1>1 DEF NoneTwice
<1>3. AtHome(G)
  BY <1>a, <1>b, Zenon DEF AtHome
<1>4. \A x : HeldIn(G, x) => HeldIn(H, x) \/ x = r
  BY <1>a, <1>b, Zenon DEF HeldIn
<1>5. HeldIn(G, r)
  <2>1. Len(G[a]) \in 1..Len(G[a]) /\ G[a][Len(G[a])] = r
    BY PutOrigin
  <2>2. QED
    BY <1>a, <2>1 DEF HeldIn
<1>6. \A x : HeldIn(H, x) => HeldIn(G, x)
  <2>1. \A d \in Locations : \A k \in 1..Len(H[d]) : k \in 1..Len(G[d]) /\ G[d][k] = H[d][k]
    BY PutOrigin
  <2>2. QED
    BY <1>a, <2>1, Zenon DEF HeldIn
<1>7. QED
  BY <1>2, <1>3, <1>4, <1>5, <1>6

LEMMA PutOrder ==
  ASSUME NEW H \in Contents, NEW G \in Contents, NEW a \in Locations, NEW r \in Request,
         Puts(H, G, a, r), InOrder(H),
         \A e \in Locations : Rank[e] < Rank[a] => H[e] = <<>>,
         \A d \in Locations : \A k \in 1..Len(H[d]) : H[d][k].unit = r.unit => H[d][k].id < r.id
  PROVE  InOrder(G)
<1> DEFINE New(c, i) == c = a /\ i = Len(H[a]) + 1 /\ G[c][i] = r
           Old(c, i) == i \in 1..Len(H[c]) /\ G[c][i] = H[c][i]
<1>a. DOMAIN H = Locations /\ DOMAIN G = Locations
  BY DEF Contents
<1>b. \A c \in Locations : \A i \in 1..Len(G[c]) : New(c, i) \/ Old(c, i)
  <2> TAKE c \in Locations
  <2> TAKE i \in 1..Len(G[c])
  <2>1. \/ c = a /\ i = Len(H[a]) + 1 /\ G[c][i] = r
        \/ i \in 1..Len(H[c]) /\ G[c][i] = H[c][i]
    BY PutSource
  <2>2. QED
    BY <2>1
<1>c. \A l \in Locations : Rank[l] \in Nat
  BY RankType
<1>1. ASSUME NEW c \in Locations, NEW e \in Locations,
             NEW i \in 1..Len(G[c]), NEW j \in 1..Len(G[e]),
             Rank[c] > Rank[e] \/ (c = e /\ i < j), Related(G[c][i], G[e][j])
      PROVE  G[c][i].id < G[e][j].id
  <2>1. CASE New(c, i)
    <3>1. Len(G[a]) = Len(H[a]) + 1 /\ Len(H[a]) \in Nat
      BY PutOrigin
    <3>2. ~(c = e /\ i < j)
      BY <2>1, <3>1
    <3>3. Rank[e] < Rank[a] /\ e # a
      BY <1>1, <1>c, <2>1, <3>2
    <3>4. H[e] = <<>> /\ ~New(e, j)
      BY <3>3
    <3>5. Old(e, j)
      BY <1>b, <3>4
    <3>6. QED
      BY <3>4, <3>5
  <2>2. CASE Old(c, i) /\ New(e, j)
    <3>1. H[c][i].unit = r.unit
      BY <1>1, <2>2 DEF Related
    <3>2. QED
      BY <2>2, <3>1
  <2>3. CASE Old(c, i) /\ Old(e, j)
    BY <1>a, <1>1, <2>3, Zenon DEF InOrder
  <2>4. QED
    BY <1>b, <2>1, <2>2, <2>3
<1>2. QED
  BY <1>a, <1>1 DEF InOrder

(***************************************************************************)
(* The same when the head of a is dropped.                                 *)
(***************************************************************************)
LEMMA DropOrigin ==
  ASSUME NEW H \in Contents, NEW G \in Contents, NEW a \in Locations, Drops(H, G, a)
  PROVE  /\ \A i \in 1..Len(G[a]) : i + 1 \in 1..Len(H[a]) /\ G[a][i] = H[a][i + 1]
         /\ \A k \in 1..Len(H[a]) : k # 1 => k - 1 \in 1..Len(G[a]) /\ G[a][k - 1] = H[a][k]
         /\ \A c \in Locations : c = a \/ G[c] = H[c]
         /\ 1 \in 1..Len(H[a])
<1>1. H[a] \in Seq(Request) /\ H[a] # <<>> /\ G[a] = Tail(H[a])
  BY DEF Contents, Drops
<1>2. /\ Len(H[a]) \in Nat /\ Len(Tail(H[a])) = Len(H[a]) - 1
      /\ \A i \in 1..Len(Tail(H[a])) : Tail(H[a])[i] = H[a][i + 1]
  BY <1>1
<1>3. \A k \in 1..Len(H[a]) : k # 1 => k - 1 \in 1..Len(Tail(H[a])) /\ (k - 1) + 1 = k
  BY <1>2
<1>4. \A i \in 1..Len(Tail(H[a])) : i + 1 \in 1..Len(H[a])
  BY <1>2
<1>5. Len(H[a]) # 0
  BY <1>1
<1>6. \A c \in Locations : c = a \/ G[c] = H[c]
  BY DEF Drops, Others
<1>7. 1 \in 1..Len(H[a])
  BY <1>2, <1>5
<1>8. \A k \in 1..Len(H[a]) : k # 1 => Tail(H[a])[k - 1] = H[a][k]
  BY <1>2, <1>3
<1>9. QED
  BY <1>1, <1>2, <1>3, <1>4, <1>6, <1>7, <1>8

LEMMA DropKeeps ==
  ASSUME NEW H \in Contents, NEW G \in Contents, NEW a \in Locations, Drops(H, G, a),
         NoneTwice(H), AtHome(H)
  PROVE  NoneTwice(G) /\ AtHome(G) /\ \A x : HeldIn(G, x) <=> HeldIn(H, x) /\ x # H[a][1]
<1>a. DOMAIN H = Locations /\ DOMAIN G = Locations
  BY DEF Contents
<1>b. /\ \A i \in 1..Len(G[a]) : i + 1 \in 1..Len(H[a]) /\ G[a][i] = H[a][i + 1]
      /\ \A k \in 1..Len(H[a]) : k # 1 => k - 1 \in 1..Len(G[a]) /\ G[a][k - 1] = H[a][k]
      /\ \A c \in Locations : c = a \/ G[c] = H[c]
      /\ 1 \in 1..Len(H[a])
  BY DropOrigin
<1>c. \A d, f \in Locations : \A k \in 1..Len(H[d]), m \in 1..Len(H[f]) :
        H[d][k] = H[f][m] => d = f /\ k = m
  BY <1>a, Zenon DEF NoneTwice
<1>1. ASSUME NEW c \in Locations, NEW e \in Locations,
             NEW i \in 1..Len(G[c]), NEW j \in 1..Len(G[e]), G[c][i] = G[e][j]
      PROVE  c = e /\ i = j
  <2>1. CASE c = a /\ e = a
    <3>1. i + 1 = j + 1
      BY <1>1, <1>b, <1>c, <2>1
    <3>2. QED
      BY <2>1, <3>1
  <2>2. CASE c = a /\ e # a
    <3>1. i + 1 \in 1..Len(H[a]) /\ G[c][i] = H[a][i + 1] /\ G[e] = H[e]
      BY <1>b, <2>2
    <3>2. QED
      BY <1>1, <1>c, <2>2, <3>1
  <2>3. CASE c # a /\ e = a
    <3>1. j + 1 \in 1..Len(H[a]) /\ G[e][j] = H[a][j + 1] /\ G[c] = H[c]
      BY <1>b, <2>3
    <3>2. QED
      BY <1>1, <1>c, <2>3, <3>1
  <2>4. CASE c # a /\ e # a
    BY <1>1, <1>b, <1>c, <2>4
  <2>5. QED
    BY <2>1, <2>2, <2>3, <2>4
<1>2. NoneTwice(G)
  BY <1>a, <1>1 DEF NoneTwice
<1>3. AtHome(G)
  <2>1. ASSUME NEW c \in Locations, NEW i \in 1..Len(G[c]) PROVE Fits(c, G[c][i])
    <3>1. CASE c = a
      BY <1>a, <1>b, <3>1 DEF AtHome
    <3>2. CASE c # a
      BY <1>a, <1>b, <3>2 DEF AtHome
    <3>3. QED
      BY <3>1, <3>2
  <2>2. QED
    BY <1>a, <2>1 DEF AtHome
<1>4. ASSUME NEW x, HeldIn(G, x) PROVE HeldIn(H, x) /\ x # H[a][1]
  <2>1. PICK c \in Locations : \E i \in 1..Len(G[c]) : G[c][i] = x
    BY <1>a, <1>4 DEF HeldIn
  <2>2. PICK i \in 1..Len(G[c]) : G[c][i] = x
    BY <2>1
  <2>3. CASE c = a
    <3>1. i + 1 \in 1..Len(H[a]) /\ x = H[a][i + 1] /\ i + 1 # 1
      BY <1>b, <2>2, <2>3
    <3>2. QED
      BY <1>a, <1>b, <1>c, <3>1 DEF HeldIn
  <2>4. CASE c # a
    <3>1. i \in 1..Len(H[c]) /\ x = H[c][i]
      BY <1>b, <2>2, <2>4
    <3>2. QED
      BY <1>a, <1>b, <1>c, <2>4, <3>1 DEF HeldIn
  <2>5. QED
    BY <2>3, <2>4
<1>5. ASSUME NEW x, HeldIn(H, x), x # H[a][1] PROVE HeldIn(G, x)
  <2>1. PICK d \in Locations : \E k \in 1..Len(H[d]) : H[d][k] = x
    BY <1>a, <1>5 DEF HeldIn
  <2>2. PICK k \in 1..Len(H[d]) : H[d][k] = x
    BY <2>1
  <2>3. CASE d = a
    BY <1>a, <1>b, <1>5, <2>2, <2>3 DEF HeldIn
  <2>4. CASE d # a
    BY <1>a, <1>b, <2>2, <2>4 DEF HeldIn
  <2>5. QED
    BY <2>3, <2>4
<1>6. QED
  BY <1>2, <1>3, <1>4, <1>5

LEMMA DropOrder ==
  ASSUME NEW H \in Contents, NEW G \in Contents, NEW a \in Locations, Drops(H, G, a),
         InOrder(H)
  PROVE  InOrder(G)
<1>a. DOMAIN H = Locations /\ DOMAIN G = Locations
  BY DEF Contents
<1>b. /\ \A i \in 1..Len(G[a]) : i + 1 \in 1..Len(H[a]) /\ G[a][i] = H[a][i + 1]
      /\ \A c \in Locations : c = a \/ G[c] = H[c]
  BY DropOrigin
<1>c. \A d, f \in Locations : \A k \in 1..Len(H[d]), m \in 1..Len(H[f]) :
        /\ Rank[d] > Rank[f] \/ (d = f /\ k < m)
        /\ Related(H[d][k], H[f][m])
        => H[d][k].id < H[f][m].id
  BY <1>a, Zenon DEF InOrder
<1>1. ASSUME NEW c \in Locations, NEW e \in Locations,
             NEW i \in 1..Len(G[c]), NEW j \in 1..Len(G[e]),
             Rank[c] > Rank[e] \/ (c = e /\ i < j), Related(G[c][i], G[e][j])
      PROVE  G[c][i].id < G[e][j].id
  <2>1. CASE c = a /\ e = a
    <3>1. /\ i + 1 \in 1..Len(H[a]) /\ G[c][i] = H[a][i + 1]
          /\ j + 1 \in 1..Len(H[a]) /\ G[e][j] = H[a][j + 1]
      BY <1>b, <2>1
    <3>2. i + 1 < j + 1
      <4>1. ~(Rank[a] > Rank[a])
        BY RankType
      <4>2. QED
        BY <1>1, <2>1, <4>1
    <3>3. QED
      BY <1>1, <1>c, <2>1, <3>1, <3>2
  <2>2. CASE c = a /\ e # a
    BY <1>1, <1>b, <1>c, <2>2
  <2>3. CASE c # a /\ e = a
    BY <1>1, <1>b, <1>c, <2>3
  <2>4. CASE c # a /\ e # a
    BY <1>1, <1>b, <1>c, <2>4
  <2>5. QED
    BY <2>1, <2>2, <2>3, <2>4
<1>2. QED
  BY <1>a, <1>1 DEF InOrder

(***************************************************************************)
(* The ranks one by one; two places of one rank differ in whose they are.  *)
(***************************************************************************)
LEMMA RankAt ==
  /\ \A h \in Handlers : /\ Rank[<<"flushed", h>>] = 0 /\ Rank[<<"request", h>>] = 1
                         /\ Rank[<<"input", h>>] = 2 /\ Rank[<<"batch", h>>] = 3
                         /\ Rank[<<"outputs", h>>] = 4
  /\ Rank[<<"respond", 0>>] = 5 /\ Rank[<<"reply", 0>>] = 6
  /\ \A u \in Units : Rank[<<"result", u>>] = 7 /\ Rank[<<"delivered", u>>] = 8
<1>1. \A h \in Handlers : /\ Rank[<<"flushed", h>>] = 0 /\ Rank[<<"request", h>>] = 1
                          /\ Rank[<<"input", h>>] = 2 /\ Rank[<<"batch", h>>] = 3
                          /\ Rank[<<"outputs", h>>] = 4
  BY EachLocation DEF Rank
<1>2. Rank[<<"respond", 0>>] = 5 /\ Rank[<<"reply", 0>>] = 6
  BY EachLocation DEF Rank
<1>3. \A u \in Units : Rank[<<"result", u>>] = 7 /\ Rank[<<"delivered", u>>] = 8
  BY EachLocation DEF Rank
<1>4. QED
  BY <1>1, <1>2, <1>3

LEMMA LocationParts ==
  ASSUME NEW l \in Locations
  PROVE  /\ l = <<l[1], l[2]>>
         /\ \/ l[1] \in HandlerPlaces /\ l[2] \in Handlers
            \/ l[1] \in {"respond", "reply"} /\ l[2] = 0
            \/ l[1] \in UnitPlaces /\ l[2] \in Units
<1>1. CASE l \in HandlerPlaces \X Handlers
  BY <1>1
<1>2. CASE l \in {"respond", "reply"} \X {0}
  BY <1>2
<1>3. CASE l \in UnitPlaces \X Units
  BY <1>3
<1>4. QED
  BY <1>1, <1>2, <1>3 DEF Locations

LEMMA RankTells ==
  ASSUME NEW a \in Locations, NEW e \in Locations, Rank[e] = Rank[a]
  PROVE  e[1] = a[1]
<1>1. \A l \in Locations :
        l[1] \in {"flushed", "request", "input", "batch", "outputs", "respond", "reply", "result",
                  "delivered"}
  BY LocationParts DEF HandlerPlaces, UnitPlaces
<1>2. \A l \in Locations : /\ l[1] = "flushed" => Rank[l] = 0
                           /\ l[1] = "request" => Rank[l] = 1
                           /\ l[1] = "input" => Rank[l] = 2
                           /\ l[1] = "batch" => Rank[l] = 3
                           /\ l[1] = "outputs" => Rank[l] = 4
                           /\ l[1] = "respond" => Rank[l] = 5
                           /\ l[1] = "reply" => Rank[l] = 6
                           /\ l[1] = "result" => Rank[l] = 7
                           /\ l[1] = "delivered" => Rank[l] = 8
  BY DEF Rank
<1>3. QED
  BY <1>1, <1>2

LEMMA SameRank ==
  ASSUME NEW H \in Contents, AtHome(H), NEW a \in Locations, NEW e \in Locations,
         Rank[e] = Rank[a], e # a, NEW x \in Request, Fits(a, x), NEW j \in 1..Len(H[e])
  PROVE  ~Related(x, H[e][j])
<1>1. Fits(e, H[e][j])
  BY DEF AtHome, Contents
<1>2. e[1] = a[1]
  BY RankTells
<1>3. e[2] # a[2]
  BY <1>2, LocationParts
<1>4. CASE a[1] \in HandlerPlaces
  BY <1>1, <1>2, <1>3, <1>4 DEF Fits, Related
<1>5. CASE a[1] \in {"respond", "reply"}
  BY <1>2, <1>3, <1>5, LocationParts DEF HandlerPlaces, UnitPlaces
<1>6. CASE a[1] \in UnitPlaces
  BY <1>1, <1>2, <1>3, <1>6 DEF Fits, Related
<1>7. QED
  BY <1>4, <1>5, <1>6, LocationParts

LEMMA NextRankClear ==
  ASSUME NEW H \in Contents, AtHome(H), NEW a \in Locations, NEW b \in Locations,
         Rank[b] = Rank[a] + 1, NEW x \in Request, Fits(a, x)
  PROVE  Clear(H, a, b, x)
<1>1. \A l \in Locations : Rank[l] \in Nat
  BY RankType
<1>2. \A e \in Locations : Rank[a] <= Rank[e] /\ Rank[e] < Rank[b] => Rank[e] = Rank[a]
  BY <1>1
<1>3. \A e \in Locations : e # a /\ Rank[e] = Rank[a] =>
        \A j \in 1..Len(H[e]) : ~Related(x, H[e][j])
  BY SameRank
<1>4. QED
  BY <1>2, <1>3 DEF Clear

(***************************************************************************)
(* Places that a step leaves alone hold the same.                          *)
(***************************************************************************)
LEMMA HeldFrame ==
  ASSUME NEW A,
         \A h \in Handlers : /\ <<"request", h>> \in A \/ requestQ'[h] = requestQ[h]
                             /\ <<"input", h>> \in A \/ input'[h] = input[h]
                             /\ <<"batch", h>> \in A \/ batch'[h] = batch[h]
                             /\ <<"outputs", h>> \in A \/ outputs'[h] = outputs[h]
                             /\ <<"flushed", h>> \in A \/ flushed'[h] = flushed[h],
         <<"respond", 0>> \in A \/ respondQ' = respondQ,
         <<"reply", 0>> \in A \/ reply' = reply,
         \A u \in Units : /\ <<"result", u>> \in A \/ resultQ'[u] = resultQ[u]
                          /\ <<"delivered", u>> \in A \/ delivered'[u] = delivered[u]
  PROVE  Others(Held, Held', A)
<1> SUFFICES ASSUME NEW l \in Locations PROVE l \in A \/ Held'[l] = Held[l]
  BY DEF Others
<1>1. ASSUME NEW h \in Handlers, l = <<"request", h>> PROVE l \in A \/ Held'[l] = Held[l]
  BY <1>1, HeldAt, HeldAtNext, Zenon DEF HeldAtEach
<1>2. ASSUME NEW h \in Handlers, l = <<"input", h>> PROVE l \in A \/ Held'[l] = Held[l]
  BY <1>2, HeldAt, HeldAtNext, Zenon DEF HeldAtEach
<1>3. ASSUME NEW h \in Handlers, l = <<"batch", h>> PROVE l \in A \/ Held'[l] = Held[l]
  BY <1>3, HeldAt, HeldAtNext, Zenon DEF HeldAtEach
<1>4. ASSUME NEW h \in Handlers, l = <<"outputs", h>> PROVE l \in A \/ Held'[l] = Held[l]
  BY <1>4, HeldAt, HeldAtNext, Zenon DEF HeldAtEach
<1>5. ASSUME NEW h \in Handlers, l = <<"flushed", h>> PROVE l \in A \/ Held'[l] = Held[l]
  BY <1>5, HeldAt, HeldAtNext, Zenon DEF HeldAtEach
<1>6. CASE l = <<"respond", 0>> \/ l = <<"reply", 0>>
  BY <1>6, HeldAt, HeldAtNext, Zenon DEF HeldAtEach
<1>7. ASSUME NEW u \in Units, l = <<"result", u>> \/ l = <<"delivered", u>>
      PROVE  l \in A \/ Held'[l] = Held[l]
  <2>1. /\ Held[<<"result", u>>] = resultQ[u] /\ Held'[<<"result", u>>] = resultQ'[u]
        /\ Held[<<"delivered", u>>] = delivered[u] /\ Held'[<<"delivered", u>>] = delivered'[u]
    BY HeldAt, HeldAtNext, Zenon DEF HeldAtEach
  <2>2. QED
    BY <1>7, <2>1, Zenon
<1>8. QED
  BY <1>1, <1>2, <1>3, <1>4, <1>5, <1>6, <1>7, LocationCases, Zenon

LEMMA OnlyElement ==
  ASSUME NEW S, NEW q \in Seq(S), q # <<>>, Len(q) <= 1
  PROVE  Len(q) = 1
<1>1. \A p \in Seq(S) : Len(p) \in Nat /\ (Len(p) = 0 => p = <<>>)
  OBVIOUS
<1>2. Len(q) \in Nat /\ Len(q) # 0
  BY <1>1
<1>3. QED
  BY <1>2

(***************************************************************************)
(* What each step does to the contents of the places.                      *)
(***************************************************************************)
LEMMA DequeueInputMoves ==
  ASSUME ControlOK, HandlerSeqsOK, ReplySeqsOK, WorkInHand,
         NEW h \in Handlers, DequeueInput(h), UNCHANGED <<lbVars, mainVars>>
  PROVE  Moves(Held, Held', <<"request", h>>, <<"input", h>>)
<1> USE DEF queueVars, handlerVars, lbVars, unitVars, routeVars, resultVars, dispatchVars, historyVars,
     balancerVars, restOfDispatch, mainVars, At, MoveTo, Goto, DispatchTo
<1>1. requestQ[h] # <<>> /\ requestQ'[h] = Tail(requestQ[h])
      /\ input'[h] = Append(input[h], Head(requestQ[h]))
  <2>1. input[h] = <<>> /\ requestQ[h] \in Seq(Request)
    BY DEF DequeueInput, WorkInHand, HandlerHolds, HandlerSeqsOK
  <2>2. QED
    BY <2>1 DEF DequeueInput, HandlerSeqsOK
<1>2. Others(Held, Held', {<<"request", h>>, <<"input", h>>})
  <2>1. /\ \A k \in Handlers : /\ k = h \/ requestQ'[k] = requestQ[k]
                               /\ k = h \/ input'[k] = input[k]
                               /\ batch'[k] = batch[k]
                               /\ outputs'[k] = outputs[k]
                               /\ flushed'[k] = flushed[k]
        /\ <<"respond", 0>> \in {<<"request", h>>, <<"input", h>>} \/ respondQ' = respondQ
        /\ <<"reply", 0>> \in {<<"request", h>>, <<"input", h>>} \/ reply' = reply
        /\ \A v \in Units : /\ resultQ'[v] = resultQ[v]
                            /\ delivered'[v] = delivered[v]
    BY DEF HandlerSeqsOK, ReplySeqsOK, DequeueInput
  <2>2. QED
    BY <2>1, HeldFrame
<1>3. QED
  BY <1>1, <1>2, HeldAt, HeldAtNext DEF Moves, HeldAtEach

LEMMA PreprocessThrowsMoves ==
  ASSUME ControlOK, HandlerSeqsOK, ReplySeqsOK, WorkInHand,
         NEW h \in Handlers, PreprocessThrows(h), UNCHANGED <<lbVars, mainVars>>
  PROVE  Moves(Held, Held', <<"input", h>>, <<"respond", 0>>)
<1> USE DEF queueVars, handlerVars, lbVars, unitVars, routeVars, resultVars, dispatchVars, historyVars,
     balancerVars, restOfDispatch, mainVars, At, MoveTo, Goto, DispatchTo
<1>1. input[h] # <<>> /\ input'[h] = Tail(input[h])
      /\ respondQ' = Append(respondQ, Head(input[h]))
  <2>1. PICK x : input[h] = <<x>> /\ x \in Request
    <3>0. input[h] \in Seq(Request) /\ input[h] # <<>> /\ Len(input[h]) <= 1
      BY DEF PreprocessThrows, WorkInHand, HandlerHolds, HandlerSeqsOK
    <3>1. input[h] \in Seq(Request) /\ Len(input[h]) = 1
      BY <3>0, OnlyElement
    <3>2. input[h] = <<input[h][1]>> /\ input[h][1] \in Request
      BY <3>1
    <3>3. QED
      BY <3>2
  <2>2. respondQ \o <<x>> = Append(respondQ, x)
    BY <2>1 DEF HandlerSeqsOK, ReplySeqsOK
  <2>3. Tail(<<x>>) = <<>> /\ Head(<<x>>) = x /\ <<x>> # <<>>
    OBVIOUS
  <2>4. QED
    BY <2>1, <2>2, <2>3 DEF PreprocessThrows, HandlerSeqsOK
<1>2. Others(Held, Held', {<<"input", h>>, <<"respond", 0>>})
  <2>1. /\ \A k \in Handlers : /\ requestQ'[k] = requestQ[k]
                               /\ k = h \/ input'[k] = input[k]
                               /\ batch'[k] = batch[k]
                               /\ outputs'[k] = outputs[k]
                               /\ flushed'[k] = flushed[k]
        /\ <<"respond", 0>> \in {<<"input", h>>, <<"respond", 0>>} \/ respondQ' = respondQ
        /\ <<"reply", 0>> \in {<<"input", h>>, <<"respond", 0>>} \/ reply' = reply
        /\ \A v \in Units : /\ resultQ'[v] = resultQ[v]
                            /\ delivered'[v] = delivered[v]
    BY DEF HandlerSeqsOK, ReplySeqsOK, PreprocessThrows
  <2>2. QED
    BY <2>1, HeldFrame
<1>3. QED
  BY <1>1, <1>2, HeldAt, HeldAtNext DEF Moves, HeldAtEach

LEMMA PreprocessMoves ==
  ASSUME ControlOK, HandlerSeqsOK, ReplySeqsOK, WorkInHand,
         NEW h \in Handlers, Preprocess(h), UNCHANGED <<lbVars, mainVars>>
  PROVE  Moves(Held, Held', <<"input", h>>, <<"batch", h>>)
<1> USE DEF queueVars, handlerVars, lbVars, unitVars, routeVars, resultVars, dispatchVars, historyVars,
     balancerVars, restOfDispatch, mainVars, At, MoveTo, Goto, DispatchTo
<1>1. input[h] # <<>> /\ input'[h] = Tail(input[h])
      /\ batch'[h] = Append(batch[h], Head(input[h]))
  <2>1. PICK x : input[h] = <<x>> /\ x \in Request
    <3>0. input[h] \in Seq(Request) /\ input[h] # <<>> /\ Len(input[h]) <= 1
      BY DEF Preprocess, WorkInHand, HandlerHolds, HandlerSeqsOK
    <3>1. input[h] \in Seq(Request) /\ Len(input[h]) = 1
      BY <3>0, OnlyElement
    <3>2. input[h] = <<input[h][1]>> /\ input[h][1] \in Request
      BY <3>1
    <3>3. QED
      BY <3>2
  <2>2. batch[h] \o <<x>> = Append(batch[h], x)
    BY <2>1 DEF HandlerSeqsOK, ReplySeqsOK
  <2>3. Tail(<<x>>) = <<>> /\ Head(<<x>>) = x /\ <<x>> # <<>>
    OBVIOUS
  <2>4. QED
    BY <2>1, <2>2, <2>3 DEF Preprocess, HandlerSeqsOK
<1>2. Others(Held, Held', {<<"input", h>>, <<"batch", h>>})
  <2>1. /\ \A k \in Handlers : /\ requestQ'[k] = requestQ[k]
                               /\ k = h \/ input'[k] = input[k]
                               /\ k = h \/ batch'[k] = batch[k]
                               /\ outputs'[k] = outputs[k]
                               /\ flushed'[k] = flushed[k]
        /\ <<"respond", 0>> \in {<<"input", h>>, <<"batch", h>>} \/ respondQ' = respondQ
        /\ <<"reply", 0>> \in {<<"input", h>>, <<"batch", h>>} \/ reply' = reply
        /\ \A v \in Units : /\ resultQ'[v] = resultQ[v]
                            /\ delivered'[v] = delivered[v]
    BY DEF HandlerSeqsOK, ReplySeqsOK, Preprocess
  <2>2. QED
    BY <2>1, HeldFrame
<1>3. QED
  BY <1>1, <1>2, HeldAt, HeldAtNext DEF Moves, HeldAtEach

LEMMA InferPours ==
  ASSUME ControlOK, HandlerSeqsOK, ReplySeqsOK, WorkInHand,
         NEW h \in Handlers, Infer(h), UNCHANGED <<lbVars, mainVars>>
  PROVE  Pours(Held, Held', <<"batch", h>>, <<"outputs", h>>)
<1> USE DEF queueVars, handlerVars, lbVars, unitVars, routeVars, resultVars, dispatchVars, historyVars,
     balancerVars, restOfDispatch, mainVars, At, MoveTo, Goto, DispatchTo
<1>1. outputs[h] = <<>> /\ batch'[h] = <<>> /\ outputs'[h] = batch[h]
  BY DEF Infer, WorkInHand, HandlerHolds, HandlerSeqsOK
<1>2. Others(Held, Held', {<<"batch", h>>, <<"outputs", h>>})
  <2>1. /\ \A k \in Handlers : /\ requestQ'[k] = requestQ[k]
                               /\ input'[k] = input[k]
                               /\ k = h \/ batch'[k] = batch[k]
                               /\ k = h \/ outputs'[k] = outputs[k]
                               /\ flushed'[k] = flushed[k]
        /\ <<"respond", 0>> \in {<<"batch", h>>, <<"outputs", h>>} \/ respondQ' = respondQ
        /\ <<"reply", 0>> \in {<<"batch", h>>, <<"outputs", h>>} \/ reply' = reply
        /\ \A v \in Units : /\ resultQ'[v] = resultQ[v]
                            /\ delivered'[v] = delivered[v]
    BY DEF HandlerSeqsOK, ReplySeqsOK, Infer
  <2>2. QED
    BY <2>1, HeldFrame
<1>3. QED
  BY <1>1, <1>2, HeldAt, HeldAtNext DEF Pours, HeldAtEach

LEMMA PushOutputMoves ==
  ASSUME ControlOK, HandlerSeqsOK, ReplySeqsOK, WorkInHand,
         NEW h \in Handlers, PushOutput(h), UNCHANGED <<lbVars, mainVars>>
  PROVE  Moves(Held, Held', <<"outputs", h>>, <<"respond", 0>>)
<1> USE DEF queueVars, handlerVars, lbVars, unitVars, routeVars, resultVars, dispatchVars, historyVars,
     balancerVars, restOfDispatch, mainVars, At, MoveTo, Goto, DispatchTo
<1>1. outputs[h] # <<>> /\ outputs'[h] = Tail(outputs[h])
      /\ respondQ' = Append(respondQ, Head(outputs[h]))
  BY DEF PushOutput, WorkInHand, HandlerHolds, HandlerSeqsOK
<1>2. Others(Held, Held', {<<"outputs", h>>, <<"respond", 0>>})
  <2>1. /\ \A k \in Handlers : /\ requestQ'[k] = requestQ[k]
                               /\ input'[k] = input[k]
                               /\ batch'[k] = batch[k]
                               /\ k = h \/ outputs'[k] = outputs[k]
                               /\ flushed'[k] = flushed[k]
        /\ <<"respond", 0>> \in {<<"outputs", h>>, <<"respond", 0>>} \/ respondQ' = respondQ
        /\ <<"reply", 0>> \in {<<"outputs", h>>, <<"respond", 0>>} \/ reply' = reply
        /\ \A v \in Units : /\ resultQ'[v] = resultQ[v]
                            /\ delivered'[v] = delivered[v]
    BY DEF HandlerSeqsOK, ReplySeqsOK, PushOutput
  <2>2. QED
    BY <2>1, HeldFrame
<1>3. QED
  BY <1>1, <1>2, HeldAt, HeldAtNext DEF Moves, HeldAtEach

LEMMA FlushPours ==
  ASSUME ControlOK, HandlerSeqsOK, ReplySeqsOK, WorkInHand,
         QuitStages, NEW h \in Handlers, h = mh, FlushEngineQ
  PROVE  Pours(Held, Held', <<"request", h>>, <<"flushed", h>>)
<1> USE DEF queueVars, handlerVars, lbVars, unitVars, routeVars, resultVars, dispatchVars, historyVars,
     balancerVars, restOfDispatch, mainVars, At, MoveTo, Goto, DispatchTo
<1>1. flushed[h] = <<>> /\ requestQ'[h] = <<>> /\ flushed'[h] = requestQ[h]
  BY DEF FlushEngineQ, FlushRequestQ, QuitStages, HandlerSeqsOK
<1>2. Others(Held, Held', {<<"request", h>>, <<"flushed", h>>})
  <2>1. /\ \A k \in Handlers : /\ k = h \/ requestQ'[k] = requestQ[k]
                               /\ input'[k] = input[k]
                               /\ batch'[k] = batch[k]
                               /\ outputs'[k] = outputs[k]
                               /\ k = h \/ flushed'[k] = flushed[k]
        /\ <<"respond", 0>> \in {<<"request", h>>, <<"flushed", h>>} \/ respondQ' = respondQ
        /\ <<"reply", 0>> \in {<<"request", h>>, <<"flushed", h>>} \/ reply' = reply
        /\ \A v \in Units : /\ resultQ'[v] = resultQ[v]
                            /\ delivered'[v] = delivered[v]
    BY DEF HandlerSeqsOK, ReplySeqsOK, FlushEngineQ, FlushRequestQ
  <2>2. QED
    BY <2>1, HeldFrame
<1>3. QED
  BY <1>1, <1>2, HeldAt, HeldAtNext DEF Pours, HeldAtEach

LEMMA AnswerMoves ==
  ASSUME ControlOK, HandlerSeqsOK, ReplySeqsOK, WorkInHand,
         NEW h \in Handlers, h = mh, AnswerEngineQ
  PROVE  Moves(Held, Held', <<"flushed", h>>, <<"respond", 0>>)
<1> USE DEF queueVars, handlerVars, lbVars, unitVars, routeVars, resultVars, dispatchVars, historyVars,
     balancerVars, restOfDispatch, mainVars, At, MoveTo, Goto, DispatchTo
<1>1. flushed[h] # <<>> /\ flushed'[h] = Tail(flushed[h])
      /\ respondQ' = Append(respondQ, Head(flushed[h]))
  BY DEF AnswerEngineQ, AnswerFlushed, HandlerSeqsOK
<1>2. Others(Held, Held', {<<"flushed", h>>, <<"respond", 0>>})
  <2>1. /\ \A k \in Handlers : /\ requestQ'[k] = requestQ[k]
                               /\ input'[k] = input[k]
                               /\ batch'[k] = batch[k]
                               /\ outputs'[k] = outputs[k]
                               /\ k = h \/ flushed'[k] = flushed[k]
        /\ <<"respond", 0>> \in {<<"flushed", h>>, <<"respond", 0>>} \/ respondQ' = respondQ
        /\ <<"reply", 0>> \in {<<"flushed", h>>, <<"respond", 0>>} \/ reply' = reply
        /\ \A v \in Units : /\ resultQ'[v] = resultQ[v]
                            /\ delivered'[v] = delivered[v]
    BY DEF HandlerSeqsOK, ReplySeqsOK, AnswerEngineQ, AnswerFlushed
  <2>2. QED
    BY <2>1, HeldFrame
<1>3. QED
  BY <1>1, <1>2, HeldAt, HeldAtNext DEF Moves, HeldAtEach

LEMMA RespondAsyncMoves ==
  ASSUME ControlOK, HandlerSeqsOK, ReplySeqsOK, WorkInHand,
         NEW u \in Units, ResponseThread(u)
  PROVE  Moves(Held, Held', <<"result", u>>, <<"delivered", u>>)
<1> USE DEF queueVars, handlerVars, lbVars, unitVars, routeVars, resultVars, dispatchVars, historyVars,
     balancerVars, restOfDispatch, mainVars, At, MoveTo, Goto, DispatchTo
<1>1. resultQ[u] # <<>> /\ resultQ'[u] = Tail(resultQ[u])
      /\ delivered'[u] = Append(delivered[u], Head(resultQ[u]))
  BY DEF ResponseThread, RespondAsync, ReplySeqsOK
<1>2. Others(Held, Held', {<<"result", u>>, <<"delivered", u>>})
  <2>1. /\ \A k \in Handlers : /\ requestQ'[k] = requestQ[k]
                               /\ input'[k] = input[k]
                               /\ batch'[k] = batch[k]
                               /\ outputs'[k] = outputs[k]
                               /\ flushed'[k] = flushed[k]
        /\ <<"respond", 0>> \in {<<"result", u>>, <<"delivered", u>>} \/ respondQ' = respondQ
        /\ <<"reply", 0>> \in {<<"result", u>>, <<"delivered", u>>} \/ reply' = reply
        /\ \A v \in Units : /\ v = u \/ resultQ'[v] = resultQ[v]
                            /\ v = u \/ delivered'[v] = delivered[v]
    BY DEF HandlerSeqsOK, ReplySeqsOK, ResponseThread, RespondAsync
  <2>2. QED
    BY <2>1, HeldFrame
<1>3. QED
  BY <1>1, <1>2, HeldAt, HeldAtNext DEF Moves, HeldAtEach

LEMMA DispatchDequeueMoves ==
  ASSUME ControlOK, HandlerSeqsOK, ReplySeqsOK, WorkInHand,
         DispatchDequeue, UNCHANGED <<handlerVars, mainVars>>
  PROVE  Moves(Held, Held', <<"respond", 0>>, <<"reply", 0>>)
<1> USE DEF queueVars, handlerVars, lbVars, unitVars, routeVars, resultVars, dispatchVars, historyVars,
     balancerVars, restOfDispatch, mainVars, At, MoveTo, Goto, DispatchTo
<1>1. respondQ # <<>> /\ respondQ' = Tail(respondQ)
      /\ reply' = Append(reply, Head(respondQ))
  <2>1. reply = <<>> /\ respondQ \in Seq(Request)
    BY DEF DispatchDequeue, WorkInHand, ReplySeqsOK
  <2>2. QED
    BY <2>1 DEF DispatchDequeue
<1>2. Others(Held, Held', {<<"respond", 0>>, <<"reply", 0>>})
  <2>1. /\ \A k \in Handlers : /\ requestQ'[k] = requestQ[k]
                               /\ input'[k] = input[k]
                               /\ batch'[k] = batch[k]
                               /\ outputs'[k] = outputs[k]
                               /\ flushed'[k] = flushed[k]
        /\ <<"respond", 0>> \in {<<"respond", 0>>, <<"reply", 0>>} \/ respondQ' = respondQ
        /\ <<"reply", 0>> \in {<<"respond", 0>>, <<"reply", 0>>} \/ reply' = reply
        /\ \A v \in Units : /\ resultQ'[v] = resultQ[v]
                            /\ delivered'[v] = delivered[v]
    BY DEF HandlerSeqsOK, ReplySeqsOK, DispatchDequeue
  <2>2. QED
    BY <2>1, HeldFrame
<1>3. QED
  BY <1>1, <1>2, HeldAt, HeldAtNext DEF Moves, HeldAtEach

LEMMA RequestEnqueuePuts ==
  ASSUME ControlOK, RoutesOK, HandlerSeqsOK, ReplySeqsOK, WorkInHand,
         NEW u \in Units, RequestEnqueue(u), UNCHANGED <<handlerVars, mainVars>>,
         NEW h \in Handlers, h = target[u],
         NEW r \in Request, r = [unit |-> u, id |-> lastId[u], handler |-> h]
  PROVE  Puts(Held, Held', <<"request", h>>, r) /\ accepted' = accepted \cup {r} /\ lost' = lost
<1> USE DEF queueVars, handlerVars, lbVars, unitVars, routeVars, resultVars, dispatchVars, historyVars,
     balancerVars, restOfDispatch, mainVars, At, MoveTo, Goto, DispatchTo
<1>1. requestQ'[h] = Append(requestQ[h], r) /\ accepted' = accepted \cup {r} /\ lost' = lost
  BY DEF RequestEnqueue, HandlerSeqsOK
<1>2. Others(Held, Held', {<<"request", h>>})
  <2>1. /\ \A k \in Handlers : /\ k = h \/ requestQ'[k] = requestQ[k]
                               /\ input'[k] = input[k]
                               /\ batch'[k] = batch[k]
                               /\ outputs'[k] = outputs[k]
                               /\ flushed'[k] = flushed[k]
        /\ respondQ' = respondQ
        /\ reply' = reply
        /\ \A v \in Units : resultQ'[v] = resultQ[v] /\ delivered'[v] = delivered[v]
    BY DEF HandlerSeqsOK, ReplySeqsOK, RequestEnqueue
  <2>2. QED
    BY <2>1, HeldFrame
<1>3. QED
  BY <1>1, <1>2, HeldAt, HeldAtNext DEF Puts, HeldAtEach

LEMMA DispatchLookupDrops ==
  ASSUME ControlOK, HandlerSeqsOK, ReplySeqsOK, WorkInHand,
         DispatchLookup, UNCHANGED <<handlerVars, mainVars>>
  PROVE  \/ Held' = Held /\ lost' = lost
         \/ Drops(Held, Held', <<"reply", 0>>) /\ lost' = lost \cup {Held[<<"reply", 0>>][1]}
<1> USE DEF queueVars, handlerVars, lbVars, unitVars, routeVars, resultVars, dispatchVars, historyVars,
     balancerVars, restOfDispatch, mainVars, At, MoveTo, Goto, DispatchTo
<1>1. /\ UNCHANGED <<requestQ, input, batch, outputs, flushed, respondQ, resultQ, delivered>>
      /\ \/ reply' = reply /\ lost' = lost
         \/ reply' = <<>> /\ lost' = lost \cup {reply[1]}
  BY DEF DispatchLookup
<1>2. CASE reply' = reply /\ lost' = lost
  BY <1>1, <1>2 DEF Held
<1>3. CASE reply' = <<>> /\ lost' = lost \cup {reply[1]}
  <2>1. reply # <<>> /\ Tail(reply) = <<>>
    <3>1. reply \in Seq(Request) /\ reply # <<>> /\ Len(reply) <= 1
      BY DEF DispatchLookup, WorkInHand, ReplySeqsOK
    <3>2. Len(reply) = 1
      BY <3>1, OnlyElement
    <3>3. QED
      BY <3>1, <3>2, LastElement
  <2>2. Others(Held, Held', {<<"reply", 0>>})
    BY <1>1, HeldFrame
  <2>3. QED
    BY <1>3, <2>1, <2>2, HeldAt, HeldAtNext DEF Drops, HeldAtEach
<1>4. QED
  BY <1>1, <1>2, <1>3

(***************************************************************************)
(* An answer that meets a full result queue moves the oldest one out of it *)
(* first.                                                                  *)
(***************************************************************************)
LEMMA DispatchPushMoves ==
  ASSUME ControlOK, HandlerSeqsOK, ReplySeqsOK, HeldTyped, HeldTyped', WorkInHand,
         DispatchPush, UNCHANGED <<handlerVars, mainVars>>,
         NEW u \in Units, u = reply[1].unit
  PROVE  \/ Moves(Held, Held', <<"reply", 0>>, <<"result", u>>) /\ lost' = lost
         \/ \E M \in Contents : /\ Drops(Held, M, <<"result", u>>)
                                /\ Moves(M, Held', <<"reply", 0>>, <<"result", u>>)
                                /\ M[<<"reply", 0>>] = Held[<<"reply", 0>>]
                                /\ lost' = lost \cup {Held[<<"result", u>>][1]}
<1> USE DEF queueVars, handlerVars, lbVars, unitVars, routeVars, resultVars, dispatchVars, historyVars,
     balancerVars, restOfDispatch, mainVars, At, MoveTo, Goto, DispatchTo
<1>1. /\ UNCHANGED <<requestQ, input, batch, outputs, flushed, respondQ, delivered>>
      /\ reply' = <<>>
      /\ resultQ' = [resultQ EXCEPT ![u] = Enqueue(@, ResultCap, reply[1])]
      /\ lost' = lost \cup Evicted(resultQ[u], ResultCap)
  BY DEF DispatchPush
<1>2. reply \in Seq(Request) /\ reply # <<>> /\ Tail(reply) = <<>> /\ Head(reply) = reply[1]
  <2>1. reply \in Seq(Request) /\ reply # <<>> /\ Len(reply) <= 1
    BY DEF DispatchPush, WorkInHand, ReplySeqsOK
  <2>2. Len(reply) = 1
    BY <2>1, OnlyElement
  <2>3. QED
    BY <2>1, <2>2, LastElement
<1>3. Others(Held, Held', {<<"reply", 0>>, <<"result", u>>})
  <2>1. \A v \in Units : v = u \/ resultQ'[v] = resultQ[v]
    BY <1>1 DEF ReplySeqsOK
  <2>2. QED
    BY <1>1, <2>1, HeldFrame
<1>4. /\ Held[<<"reply", 0>>] = reply /\ Held[<<"result", u>>] = resultQ[u]
      /\ Held'[<<"reply", 0>>] = reply' /\ Held'[<<"result", u>>] = resultQ'[u]
  BY HeldAt, HeldAtNext, Zenon DEF HeldAtEach
<1>5. resultQ'[u] = Append(Kept(resultQ[u], ResultCap), reply[1]) /\ resultQ[u] \in Seq(Request)
  BY <1>1 DEF ReplySeqsOK, Enqueue
<1>6. CASE ~IsFull(resultQ[u], ResultCap)
  <2>1. resultQ'[u] = Append(resultQ[u], reply[1]) /\ lost' = lost
    BY <1>1, <1>5, <1>6 DEF Kept, Evicted
  <2>2. QED
    BY <1>1, <1>2, <1>3, <1>4, <2>1 DEF Moves
<1>7. CASE IsFull(resultQ[u], ResultCap)
  <2>1. /\ resultQ[u] # <<>> /\ resultQ'[u] = Append(Tail(resultQ[u]), reply[1])
        /\ lost' = lost \cup {resultQ[u][1]}
    BY <1>1, <1>5, <1>7, ResultAssumption DEF Kept, Evicted, IsFull
  <2> DEFINE M == [Held EXCEPT ![<<"result", u>>] = Tail(resultQ[u])]
  <2>2. <<"result", u>> \in Locations /\ <<"reply", 0>> \in Locations
    BY EachLocation
  <2>3. Tail(resultQ[u]) \in Seq(Request)
    BY <1>5, <2>1, SeqFacts
  <2>4. M \in Contents
    BY <2>2, <2>3 DEF HeldTyped, Contents
  <2>5. /\ M[<<"result", u>>] = Tail(resultQ[u])
        /\ \A l \in Locations : l = <<"result", u>> \/ M[l] = Held[l]
    BY <2>2 DEF HeldTyped
  <2>6. M[<<"reply", 0>>] = Held[<<"reply", 0>>]
    BY <2>2, <2>5
  <2> HIDE DEF M
  <2>7. Drops(Held, M, <<"result", u>>)
    BY <1>4, <2>1, <2>5 DEF Drops, Others
  <2>8. Others(M, Held', {<<"reply", 0>>, <<"result", u>>})
    BY <1>3, <2>5 DEF Others
  <2>9. Moves(M, Held', <<"reply", 0>>, <<"result", u>>)
    BY <1>1, <1>2, <1>4, <2>1, <2>5, <2>6, <2>8 DEF Moves
  <2>10. QED
    BY <1>4, <2>1, <2>4, <2>6, <2>7, <2>9
<1>8. QED
  BY <1>6, <1>7

(***************************************************************************)
(* Every step of the service changes the places in one of these ways.      *)
(***************************************************************************)
PassesOn(a, b) == Moves(Held, Held', a, b) /\ UNCHANGED <<accepted, lost>>

HandlerChange(h) ==
    \/ PassesOn(<<"request", h>>, <<"input", h>>)
    \/ PassesOn(<<"input", h>>, <<"respond", 0>>) /\ hpc[h] = "preprocess"
    \/ PassesOn(<<"input", h>>, <<"batch", h>>)
    \/ Pours(Held, Held', <<"batch", h>>, <<"outputs", h>>) /\ UNCHANGED <<accepted, lost>>
    \/ PassesOn(<<"outputs", h>>, <<"respond", 0>>)

QuitChange(h) ==
    /\ Quitting'
    /\ \/ Pours(Held, Held', <<"request", h>>, <<"flushed", h>>) /\ UNCHANGED <<accepted, lost>>
       \/ PassesOn(<<"flushed", h>>, <<"respond", 0>>)

UnitChange(u) ==
    \/ PassesOn(<<"result", u>>, <<"delivered", u>>)
    \/ \E h \in Handlers, r \in Request :
         /\ upc[u] = "admitted"
         /\ r.unit = u /\ r.id = lastId[u] /\ r.handler = h
         /\ Puts(Held, Held', <<"request", h>>, r)
         /\ accepted' = accepted \cup {r} /\ lost' = lost

DispatchChange ==
    \/ PassesOn(<<"respond", 0>>, <<"reply", 0>>)
    \/ /\ Drops(Held, Held', <<"reply", 0>>)
       /\ accepted' = accepted /\ lost' = lost \cup {Held[<<"reply", 0>>][1]}
    \/ \E u \in Units :
         /\ Held[<<"reply", 0>>] # <<>> /\ u = Held[<<"reply", 0>>][1].unit
         /\ \/ PassesOn(<<"reply", 0>>, <<"result", u>>)
            \/ \E M \in Contents : /\ Drops(Held, M, <<"result", u>>)
                                   /\ Moves(M, Held', <<"reply", 0>>, <<"result", u>>)
                                   /\ M[<<"reply", 0>>] = Held[<<"reply", 0>>]
                                   /\ accepted' = accepted
                                   /\ lost' = lost \cup {Held[<<"result", u>>][1]}

HeldChange ==
    \/ Held' = Held /\ UNCHANGED <<accepted, lost>>
    \/ \E h \in Handlers : HandlerChange(h) \/ QuitChange(h)
    \/ \E u \in Units : UnitChange(u)
    \/ DispatchChange

PlacesSame == UNCHANGED <<requestQ, input, batch, outputs, flushed, respondQ, reply, resultQ,
                          delivered, accepted, lost>>

LEMMA PlacesSameHeld == PlacesSame => HeldChange
  BY DEF PlacesSame, HeldChange, Held

LEMMA HeldCases ==
  ASSUME ControlOK, RoutesOK, HandlerSeqsOK, ReplySeqsOK, HandlerSeqsOK', ReplySeqsOK',
         WorkInHand, QuitStages, [Next]_vars
  PROVE  HeldChange
<1> USE DEF queueVars, handlerVars, lbVars, unitVars, routeVars, resultVars, dispatchVars, historyVars,
        balancerVars, restOfDispatch, mainVars, At, MoveTo, Goto, DispatchTo
<1>1. CASE Starting
  <2>1. PlacesSame
    BY <1>1 DEF PlacesSame, Starting, ActivateEngine, ActivateFails, StartUnit, Quit, Linker, StartInferenceThread,
     NextHandler
  <2>2. QED
    BY <2>1, PlacesSameHeld
<1>2. CASE EngineStop
  <2>1. CASE FlushEngineQ
    <3>1. PICK h \in Handlers : h = mh
      BY DEF ControlOK
    <3>2. Pours(Held, Held', <<"request", h>>, <<"flushed", h>>)
      BY <2>1, <3>1, FlushPours
    <3>3. Quitting' /\ UNCHANGED <<accepted, lost>>
      BY <2>1 DEF FlushEngineQ, Quitting
    <3>4. QED
      BY <3>2, <3>3 DEF HeldChange, QuitChange
  <2>2. CASE AnswerEngineQ
    <3>1. PICK h \in Handlers : h = mh
      BY DEF ControlOK
    <3>2. Moves(Held, Held', <<"flushed", h>>, <<"respond", 0>>)
      BY <2>2, <3>1, AnswerMoves
    <3>3. Quitting' /\ UNCHANGED <<accepted, lost>>
      BY <2>2 DEF AnswerEngineQ, Quitting
    <3>4. QED
      BY <3>2, <3>3 DEF HeldChange, QuitChange, PassesOn
  <2>3. CASE ~FlushEngineQ /\ ~AnswerEngineQ
    <3>1. PlacesSame
      BY <1>2, <2>3 DEF PlacesSame, EngineStop, SkipEngine, StopEngine, CloseEngineQ, FlushEngineQ, AnswerEngineQ, JoinEngine,
     StopInferenceThread, CloseRequestQ, FlushRequestQ, AnswerFlushed, JoinInferenceThread,
     NextHandler
    <3>2. QED
      BY <3>1, PlacesSameHeld
  <2>4. QED
    BY <2>1, <2>2, <2>3
<1>3. CASE BalancerStop
  <2>1. PlacesSame
    BY <1>3 DEF PlacesSame, BalancerStop, TerminateBalancer, CloseBalancerQ, JoinBalancer, TerminateFlags, CloseRespondQ,
     JoinDispatcher
  <2>2. QED
    BY <2>1, PlacesSameHeld
<1>4. CASE UnitStop
  <2>1. PlacesSame
    BY <1>4 DEF PlacesSame, UnitStop, StopUnit, EraseUnit, UnmapUnit, JoinUnit, AllStopped, UnsubscribeErase,
     UnsubscribeQueue
  <2>2. QED
    BY <2>1, PlacesSameHeld
<1>5. ASSUME NEW u \in Units, UnitThread(u) PROVE HeldChange
  <2>1. CASE RequestEnqueue(u)
    <3>1. PICK h \in Handlers : h = target[u] /\ lastId[u] \in Nat /\ upc[u] = "admitted"
      BY <2>1 DEF RequestEnqueue, WorkInHand, RoutesOK
    <3>2. PICK r \in Request : r = [unit |-> u, id |-> lastId[u], handler |-> h]
      BY <3>1 DEF Request
    <3>3. UNCHANGED <<handlerVars, mainVars>>
      BY <1>5 DEF UnitThread
    <3>4. Puts(Held, Held', <<"request", h>>, r) /\ accepted' = accepted \cup {r} /\ lost' = lost
      BY <2>1, <3>1, <3>2, <3>3, RequestEnqueuePuts
    <3>5. r.unit = u /\ r.id = lastId[u] /\ r.handler = h
      BY <3>2
    <3>6. UnitChange(u)
      BY <3>1, <3>4, <3>5 DEF UnitChange
    <3>7. QED
      BY <3>6 DEF HeldChange
  <2>2. CASE ~RequestEnqueue(u)
    <3>1. PlacesSame
      BY <1>5, <2>2 DEF PlacesSame, UnitThread, SubscribeEnter, SubscribeInsert, SubscribeMakeQ, RequestRefused, RequestRoute,
     RequestCheck, RequestEnqueue, UnitExit
    <3>2. QED
      BY <3>1, PlacesSameHeld
  <2>3. QED
    BY <2>1, <2>2
<1>6. ASSUME NEW u \in Units, ResponseThread(u) PROVE HeldChange
  <2>1. Moves(Held, Held', <<"result", u>>, <<"delivered", u>>)
    BY <1>6, RespondAsyncMoves
  <2>2. UNCHANGED <<accepted, lost>>
    BY <1>6 DEF ResponseThread, RespondAsync
  <2>3. QED
    BY <2>1, <2>2 DEF HeldChange, UnitChange, PassesOn
<1>7. ASSUME NEW h \in Handlers, HandlerThread(h) PROVE HeldChange
  <2>1. UNCHANGED <<lbVars, mainVars>>
    BY <1>7 DEF HandlerThread
  <2>2. UNCHANGED <<accepted, lost>>
    BY <2>1
  <2> HIDE DEF lbVars, mainVars
  <2>3. CASE DequeueInput(h)
    BY <2>1, <2>2, <2>3, DequeueInputMoves DEF HeldChange, HandlerChange, PassesOn
  <2>4. CASE PreprocessThrows(h)
    <3>1. hpc[h] = "preprocess"
      BY <2>4 DEF PreprocessThrows
    <3>2. QED
      BY <2>1, <2>2, <2>4, <3>1, PreprocessThrowsMoves DEF HeldChange, HandlerChange, PassesOn
  <2>5. CASE Preprocess(h)
    BY <2>1, <2>2, <2>5, PreprocessMoves DEF HeldChange, HandlerChange, PassesOn
  <2>6. CASE Infer(h)
    BY <2>1, <2>2, <2>6, InferPours DEF HeldChange, HandlerChange
  <2>7. CASE PushOutput(h)
    BY <2>1, <2>2, <2>7, PushOutputMoves DEF HeldChange, HandlerChange, PassesOn
  <2>8. CASE LoopHead(h) \/ DequeueNothing(h)
    <3>1. PlacesSame
      BY <2>1, <2>8 DEF PlacesSame, LoopHead, DequeueNothing, lbVars
    <3>2. QED
      BY <3>1, PlacesSameHeld
  <2>9. QED
    BY <1>7, <2>3, <2>4, <2>5, <2>6, <2>7, <2>8 DEF HandlerThread, InferenceThread
<1>8. CASE DispatcherThread
  <2>1. UNCHANGED <<handlerVars, mainVars>> /\ accepted' = accepted
    BY <1>8 DEF DispatcherThread, Dispatcher, DispatchLoop, DispatchDequeue, DispatchNothing, DispatchLookup,
     DispatchPush
  <2>2. CASE DispatchDequeue
    <3>1. lost' = lost
      BY <2>2 DEF DispatchDequeue
    <3>2. Moves(Held, Held', <<"respond", 0>>, <<"reply", 0>>)
      BY <2>1, <2>2, DispatchDequeueMoves
    <3>3. QED
      BY <2>1, <3>1, <3>2 DEF HeldChange, DispatchChange, PassesOn
  <2>3. CASE DispatchLookup
    <3>1. \/ Held' = Held /\ lost' = lost
          \/ Drops(Held, Held', <<"reply", 0>>) /\ lost' = lost \cup {Held[<<"reply", 0>>][1]}
      BY <2>1, <2>3, DispatchLookupDrops
    <3>2. QED
      BY <2>1, <3>1 DEF HeldChange, DispatchChange
  <2>4. CASE DispatchPush
    <3>1. reply # <<>> /\ reply \in Seq(Request)
      BY <2>4 DEF DispatchPush, WorkInHand, ReplySeqsOK
    <3>2. PICK u \in Units : u = reply[1].unit
      <4>1. reply[1] \in Request
        BY <3>1, OneElement
      <4>2. QED
        BY <4>1 DEF Request
    <3>3. HeldTyped /\ HeldTyped'
      BY HeldType, HeldTypeNext
    <3>4. \/ Moves(Held, Held', <<"reply", 0>>, <<"result", u>>) /\ lost' = lost
          \/ \E M \in Contents : /\ Drops(Held, M, <<"result", u>>)
                                 /\ Moves(M, Held', <<"reply", 0>>, <<"result", u>>)
                                 /\ M[<<"reply", 0>>] = Held[<<"reply", 0>>]
                                 /\ lost' = lost \cup {Held[<<"result", u>>][1]}
      BY <2>1, <2>4, <3>2, <3>3, DispatchPushMoves
    <3>5. Held[<<"reply", 0>>] = reply
      BY HeldAt DEF HeldAtEach
    <3>6. DispatchChange
      BY <2>1, <3>1, <3>2, <3>4, <3>5 DEF DispatchChange, PassesOn
    <3>7. QED
      BY <3>6 DEF HeldChange
  <2>5. CASE DispatchLoop \/ DispatchNothing
    <3>1. PlacesSame
      BY <2>1, <2>5 DEF PlacesSame, DispatchLoop, DispatchNothing
    <3>2. QED
      BY <3>1, PlacesSameHeld
  <2>6. QED
    BY <1>8, <2>2, <2>3, <2>4, <2>5 DEF DispatcherThread, Dispatcher
<1>9. CASE UNCHANGED vars
  <2>1. PlacesSame
    BY <1>9 DEF PlacesSame, vars
  <2>2. QED
    BY <2>1, PlacesSameHeld
<1>10. QED
  BY <1>1, <1>2, <1>3, <1>4, <1>5, <1>6, <1>7, <1>8, <1>9, NextCases

-----------------------------------------------------------------------------
(***************************************************************************)
(* What was accepted is held or lost after each kind of change, too.       *)
(***************************************************************************)
LEMMA BalancedSame ==
  ASSUME NEW H \in Contents, NEW G \in Contents, NEW acc, NEW gone, Balanced(H, acc, gone),
         \A r : HeldIn(G, r) <=> HeldIn(H, r)
  PROVE  Balanced(G, acc, gone)
<1>1. DOMAIN H = Locations /\ DOMAIN G = Locations
  BY DEF Contents
<1>2. \A l \in Locations : \A i \in 1..Len(G[l]) : G[l][i] \in acc
  <2> TAKE l \in Locations
  <2> TAKE i \in 1..Len(G[l])
  <2>1. HeldIn(G, G[l][i])
    BY <1>1 DEF HeldIn
  <2>2. HeldIn(H, G[l][i])
    BY <2>1
  <2>3. QED
    BY <1>1, <2>2 DEF Balanced, HeldIn
<1>3. QED
  BY <1>1, <1>2 DEF Balanced

LEMMA BalancedPut ==
  ASSUME NEW H \in Contents, NEW G \in Contents, NEW acc, NEW gone, NEW r,
         Balanced(H, acc, gone), r \notin acc,
         \A x : HeldIn(G, x) <=> HeldIn(H, x) \/ x = r
  PROVE  Balanced(G, acc \cup {r}, gone)
<1>1. DOMAIN H = Locations /\ DOMAIN G = Locations
  BY DEF Contents
<1>2. \A l \in Locations : \A i \in 1..Len(G[l]) : G[l][i] \in acc \cup {r}
  <2> TAKE l \in Locations
  <2> TAKE i \in 1..Len(G[l])
  <2>1. HeldIn(G, G[l][i])
    BY <1>1 DEF HeldIn
  <2>2. HeldIn(H, G[l][i]) \/ G[l][i] = r
    BY <2>1
  <2>3. QED
    BY <1>1, <2>2 DEF Balanced, HeldIn
<1>3. QED
  BY <1>1, <1>2 DEF Balanced

LEMMA BalancedDrop ==
  ASSUME NEW H \in Contents, NEW G \in Contents, NEW acc, NEW gone, NEW y,
         Balanced(H, acc, gone), HeldIn(H, y),
         \A x : HeldIn(G, x) <=> HeldIn(H, x) /\ x # y
  PROVE  Balanced(G, acc, gone \cup {y})
<1>1. DOMAIN H = Locations /\ DOMAIN G = Locations
  BY DEF Contents
<1>2. \A l \in Locations : \A i \in 1..Len(G[l]) : G[l][i] \in acc
  <2> TAKE l \in Locations
  <2> TAKE i \in 1..Len(G[l])
  <2>1. HeldIn(G, G[l][i])
    BY <1>1 DEF HeldIn
  <2>2. HeldIn(H, G[l][i])
    BY <2>1
  <2>3. QED
    BY <1>1, <2>2 DEF Balanced, HeldIn
<1>3. y \in acc
  BY <1>1 DEF Balanced, HeldIn
<1>4. QED
  BY <1>1, <1>2, <1>3 DEF Balanced

(***************************************************************************)
(* Ids stay fresh: a unit counts up before it asks and asks once with each *)
(* id.                                                                     *)
(***************************************************************************)
LEMMA FreshStep ==
  ASSUME ControlOK, RoutesOK, ReplySeqsOK, FreshIds, [Next]_vars
  PROVE  FreshIds'
<1> USE DEF queueVars, handlerVars, lbVars, unitVars, routeVars, resultVars, dispatchVars, historyVars,
        balancerVars, restOfDispatch, mainVars, At, MoveTo, Goto, DispatchTo
<1>1. CASE Starting
  <2>1. accepted' = accepted /\ lastId' = lastId
    BY <1>1 DEF Starting, ActivateEngine, ActivateFails, StartUnit, Quit, Linker, StartInferenceThread,
     NextHandler
  <2>2. \A v \in Units : upc'[v] \in {"routed", "admitted"} => upc[v] \in {"routed", "admitted"}
    BY <1>1 DEF ControlOK, Starting, ActivateEngine, ActivateFails, StartUnit, Quit, Linker, StartInferenceThread,
     NextHandler
  <2>3. \A r \in accepted : r.unit \in Units
    BY DEF ReplySeqsOK, Request
  <2>4. QED
    BY <2>1, <2>2, <2>3 DEF FreshIds
<1>2. CASE EngineStop
  <2>1. accepted' = accepted /\ lastId' = lastId
    BY <1>2 DEF EngineStop, SkipEngine, StopEngine, CloseEngineQ, FlushEngineQ, AnswerEngineQ, JoinEngine,
     StopInferenceThread, CloseRequestQ, FlushRequestQ, AnswerFlushed, JoinInferenceThread,
     NextHandler
  <2>2. \A v \in Units : upc'[v] \in {"routed", "admitted"} => upc[v] \in {"routed", "admitted"}
    BY <1>2 DEF ControlOK, EngineStop, SkipEngine, StopEngine, CloseEngineQ, FlushEngineQ, AnswerEngineQ, JoinEngine,
     StopInferenceThread, CloseRequestQ, FlushRequestQ, AnswerFlushed, JoinInferenceThread,
     NextHandler
  <2>3. \A r \in accepted : r.unit \in Units
    BY DEF ReplySeqsOK, Request
  <2>4. QED
    BY <2>1, <2>2, <2>3 DEF FreshIds
<1>3. CASE BalancerStop
  <2>1. accepted' = accepted /\ lastId' = lastId
    BY <1>3 DEF BalancerStop, TerminateBalancer, CloseBalancerQ, JoinBalancer, TerminateFlags, CloseRespondQ,
     JoinDispatcher
  <2>2. \A v \in Units : upc'[v] \in {"routed", "admitted"} => upc[v] \in {"routed", "admitted"}
    BY <1>3 DEF ControlOK, BalancerStop, TerminateBalancer, CloseBalancerQ, JoinBalancer, TerminateFlags, CloseRespondQ,
     JoinDispatcher
  <2>3. \A r \in accepted : r.unit \in Units
    BY DEF ReplySeqsOK, Request
  <2>4. QED
    BY <2>1, <2>2, <2>3 DEF FreshIds
<1>4. CASE UnitStop
  <2>1. accepted' = accepted /\ lastId' = lastId
    BY <1>4 DEF UnitStop, StopUnit, EraseUnit, UnmapUnit, JoinUnit, AllStopped, UnsubscribeErase,
     UnsubscribeQueue
  <2>2. \A v \in Units : upc'[v] \in {"routed", "admitted"} => upc[v] \in {"routed", "admitted"}
    BY <1>4 DEF ControlOK, UnitStop, StopUnit, EraseUnit, UnmapUnit, JoinUnit, AllStopped, UnsubscribeErase,
     UnsubscribeQueue
  <2>3. \A r \in accepted : r.unit \in Units
    BY DEF ReplySeqsOK, Request
  <2>4. QED
    BY <2>1, <2>2, <2>3 DEF FreshIds
<1>5. ASSUME NEW u \in Units, UnitThread(u) PROVE FreshIds'
  <2>1. \A r \in accepted : r.unit \in Units /\ r.id \in Nat
    BY DEF ReplySeqsOK, Request
  <2>2. CASE RequestEnqueue(u)
    <3>1. accepted' = accepted \cup {[unit |-> u, id |-> lastId[u], handler |-> target[u]]}
      BY <2>2 DEF RequestEnqueue
    <3>2. lastId' = lastId /\ upc' = [upc EXCEPT ![u] = "idle"]
      BY <2>2 DEF RequestEnqueue
    <3>3. lastId[u] \in Nat
      BY DEF RoutesOK
    <3>4. upc'[u] = "idle" /\ \A v \in Units : v = u \/ upc'[v] = upc[v]
      BY <3>2 DEF ControlOK
    <3>5. QED
      BY <2>1, <3>1, <3>2, <3>3, <3>4 DEF FreshIds
  <2>3. CASE RequestRoute(u) \/ RequestRefused(u)
    <3>1. accepted' = accepted /\ lastId' = [lastId EXCEPT ![u] = @ + 1]
      BY <2>3 DEF RequestRoute, RequestRefused
    <3>2. \A v \in Units : v = u \/ upc'[v] = upc[v]
      BY <2>3 DEF RequestRoute, RequestRefused, ControlOK
    <3>3. /\ lastId[u] \in Nat /\ lastId'[u] = lastId[u] + 1
          /\ \A v \in Units : v = u \/ lastId'[v] = lastId[v]
      BY <3>1 DEF RoutesOK
    <3>4. ASSUME NEW r \in accepted
          PROVE  /\ r.id <= lastId'[r.unit]
                 /\ upc'[r.unit] \in {"routed", "admitted"} => r.id < lastId'[r.unit]
      <4>1. CASE r.unit = u
        BY <2>1, <3>3, <4>1 DEF FreshIds
      <4>2. CASE r.unit # u
        BY <2>1, <3>2, <3>3, <4>2 DEF FreshIds
      <4>3. QED
        BY <4>1, <4>2
    <3>5. QED
      BY <3>1, <3>4 DEF FreshIds
  <2>4. CASE ~RequestEnqueue(u) /\ ~RequestRoute(u) /\ ~RequestRefused(u)
    <3>1. accepted' = accepted /\ lastId' = lastId
      BY <1>5, <2>4 DEF UnitThread, SubscribeEnter, SubscribeInsert, SubscribeMakeQ, RequestRefused, RequestRoute,
     RequestCheck, RequestEnqueue, UnitExit
    <3>2. \A v \in Units : upc'[v] \in {"routed", "admitted"} => upc[v] \in {"routed", "admitted"}
      BY <1>5, <2>4 DEF ControlOK, UnitThread, SubscribeEnter, SubscribeInsert, SubscribeMakeQ, RequestRefused, RequestRoute,
     RequestCheck, RequestEnqueue, UnitExit
    <3>3. QED
      BY <2>1, <3>1, <3>2 DEF FreshIds
  <2>5. QED
    BY <2>2, <2>3, <2>4
<1>6. ASSUME NEW u \in Units, ResponseThread(u) PROVE FreshIds'
  <2>1. accepted' = accepted /\ lastId' = lastId
    BY <1>6 DEF ResponseThread, RespondAsync
  <2>2. \A v \in Units : upc'[v] \in {"routed", "admitted"} => upc[v] \in {"routed", "admitted"}
    BY <1>6 DEF ControlOK, ResponseThread, RespondAsync
  <2>3. \A r \in accepted : r.unit \in Units
    BY DEF ReplySeqsOK, Request
  <2>4. QED
    BY <2>1, <2>2, <2>3 DEF FreshIds
<1>7. ASSUME NEW h \in Handlers, HandlerThread(h) PROVE FreshIds'
  <2>1. accepted' = accepted /\ lastId' = lastId
    BY <1>7 DEF HandlerThread, InferenceThread, LoopHead, DequeueInput, DequeueNothing, PreprocessThrows,
     Preprocess, Infer, PushOutput
  <2>2. \A v \in Units : upc'[v] \in {"routed", "admitted"} => upc[v] \in {"routed", "admitted"}
    BY <1>7 DEF ControlOK, HandlerThread, InferenceThread, LoopHead, DequeueInput, DequeueNothing, PreprocessThrows,
     Preprocess, Infer, PushOutput
  <2>3. \A r \in accepted : r.unit \in Units
    BY DEF ReplySeqsOK, Request
  <2>4. QED
    BY <2>1, <2>2, <2>3 DEF FreshIds
<1>8. CASE DispatcherThread
  <2>1. accepted' = accepted /\ lastId' = lastId
    BY <1>8 DEF DispatcherThread, Dispatcher, DispatchLoop, DispatchDequeue, DispatchNothing, DispatchLookup,
     DispatchPush
  <2>2. \A v \in Units : upc'[v] \in {"routed", "admitted"} => upc[v] \in {"routed", "admitted"}
    BY <1>8 DEF ControlOK, DispatcherThread, Dispatcher, DispatchLoop, DispatchDequeue, DispatchNothing, DispatchLookup,
     DispatchPush
  <2>3. \A r \in accepted : r.unit \in Units
    BY DEF ReplySeqsOK, Request
  <2>4. QED
    BY <2>1, <2>2, <2>3 DEF FreshIds
<1>9. CASE UNCHANGED vars
  BY <1>9 DEF vars, FreshIds
<1>10. QED
  BY <1>1, <1>2, <1>3, <1>4, <1>5, <1>6, <1>7, <1>8, <1>9, NextCases

(***************************************************************************)
(* Where a request fits.                                                   *)
(***************************************************************************)
LEMMA FitsFacts ==
  ASSUME NEW x
  PROVE  /\ Fits(<<"respond", 0>>, x) /\ Fits(<<"reply", 0>>, x)
         /\ \A h : /\ Fits(<<"request", h>>, x) <=> x.handler = h
                   /\ Fits(<<"input", h>>, x) <=> x.handler = h
                   /\ Fits(<<"batch", h>>, x) <=> x.handler = h
                   /\ Fits(<<"outputs", h>>, x) <=> x.handler = h
                   /\ Fits(<<"flushed", h>>, x) <=> x.handler = h
         /\ \A u : /\ Fits(<<"result", u>>, x) <=> x.unit = u
                   /\ Fits(<<"delivered", u>>, x) <=> x.unit = u
  BY DEF Fits, HandlerPlaces, UnitPlaces

LEMMA HeadOf ==
  ASSUME NEW H \in Contents, AtHome(H), NEW a \in Locations, H[a] # <<>>
  PROVE  1 \in 1..Len(H[a]) /\ H[a][1] \in Request /\ Fits(a, H[a][1]) /\ HeldIn(H, H[a][1])
<1>1. H[a] \in Seq(Request) /\ DOMAIN H = Locations
  BY DEF Contents
<1>2. 1 \in 1..Len(H[a]) /\ H[a][1] \in Request
  BY <1>1
<1>3. QED
  BY <1>1, <1>2 DEF AtHome, HeldIn

LEMMA PassKeeps ==
  ASSUME NEW H \in Contents, NEW G \in Contents, NEW a \in Locations, NEW b \in Locations,
         Moves(H, G, a, b), NEW acc, NEW gone,
         NoneTwice(H), AtHome(H), Balanced(H, acc, gone), Fits(b, H[a][1])
  PROVE  NoneTwice(G) /\ AtHome(G) /\ Balanced(G, acc, gone)
<1>1. NoneTwice(G) /\ AtHome(G) /\ \A r : HeldIn(G, r) <=> HeldIn(H, r)
  BY MoveKeeps
<1>2. QED
  BY <1>1, BalancedSame

LEMMA PourPassKeeps ==
  ASSUME NEW H \in Contents, NEW G \in Contents, NEW a \in Locations, NEW b \in Locations,
         Pours(H, G, a, b), NEW acc, NEW gone,
         NoneTwice(H), AtHome(H), Balanced(H, acc, gone),
         \A k \in 1..Len(H[a]) : Fits(b, H[a][k])
  PROVE  NoneTwice(G) /\ AtHome(G) /\ Balanced(G, acc, gone)
<1>1. NoneTwice(G) /\ AtHome(G) /\ \A r : HeldIn(G, r) <=> HeldIn(H, r)
  BY PourKeeps
<1>2. QED
  BY <1>1, BalancedSame

LEMMA LoseKeeps ==
  ASSUME NEW H \in Contents, NEW G \in Contents, NEW a \in Locations, Drops(H, G, a),
         NEW acc, NEW gone, NoneTwice(H), AtHome(H), Balanced(H, acc, gone)
  PROVE  NoneTwice(G) /\ AtHome(G) /\ Balanced(G, acc, gone \cup {H[a][1]})
<1>1. NoneTwice(G) /\ AtHome(G) /\ \A x : HeldIn(G, x) <=> HeldIn(H, x) /\ x # H[a][1]
  BY DropKeeps
<1>2. HeldIn(H, H[a][1])
  BY HeadOf DEF Drops
<1>3. QED
  BY <1>1, <1>2, BalancedDrop

(***************************************************************************)
(* Every step keeps the requests: none is lost on the way or doubled.      *)
(***************************************************************************)
LEMMA HeldKeeps ==
  ASSUME HeldTyped, HeldTyped', HeldChange, Conservation
  PROVE  NoneTwice(Held') /\ AtHome(Held') /\ Balanced(Held', accepted', lost')
<1> DEFINE Goal == NoneTwice(Held') /\ AtHome(Held') /\ Balanced(Held', accepted', lost')
<1>1. Held \in Contents /\ Held' \in Contents
  BY DEF HeldTyped, Contents
<1>2. NoneTwice(Held) /\ AtHome(Held) /\ Balanced(Held, accepted, lost) /\ FreshIds
  BY DEF Conservation
<1> HIDE DEF Goal
<1>3. ASSUME NEW a \in Locations, NEW b \in Locations, PassesOn(a, b),
             Fits(a, Held[a][1]) => Fits(b, Held[a][1])
      PROVE  Goal
  <2>1. Moves(Held, Held', a, b) /\ accepted' = accepted /\ lost' = lost
    BY <1>3 DEF PassesOn
  <2>2. Held[a] # <<>>
    BY <2>1 DEF Moves
  <2>3. Fits(b, Held[a][1])
    BY <1>1, <1>2, <1>3, <2>2, HeadOf
  <2>4. NoneTwice(Held') /\ AtHome(Held') /\ Balanced(Held', accepted, lost)
    BY <1>1, <1>2, <2>1, <2>3, PassKeeps
  <2>5. QED
    BY <2>1, <2>4 DEF Goal
<1>4. ASSUME NEW a \in Locations, NEW b \in Locations, Pours(Held, Held', a, b),
             UNCHANGED <<accepted, lost>>,
             \A x : Fits(a, x) => Fits(b, x)
      PROVE  Goal
  <2>1. \A k \in 1..Len(Held[a]) : Fits(b, Held[a][k])
    <3>1. DOMAIN Held = Locations
      BY DEF Held
    <3>2. QED
      BY <1>2, <1>4, <3>1 DEF AtHome
  <2>2. NoneTwice(Held') /\ AtHome(Held') /\ Balanced(Held', accepted, lost)
    BY <1>1, <1>2, <1>4, <2>1, PourPassKeeps
  <2>3. QED
    BY <1>4, <2>2 DEF Goal
<1>5. ASSUME Held' = Held, UNCHANGED <<accepted, lost>> PROVE Goal
  BY <1>2, <1>5 DEF Goal
<1>6. ASSUME NEW h \in Handlers, HandlerChange(h) PROVE Goal
  <2>1. /\ <<"request", h>> \in Locations /\ <<"input", h>> \in Locations
        /\ <<"batch", h>> \in Locations /\ <<"outputs", h>> \in Locations
        /\ <<"respond", 0>> \in Locations
    BY EachLocation
  <2>2. CASE PassesOn(<<"request", h>>, <<"input", h>>)
    <3>1. Fits(<<"request", h>>, Held[<<"request", h>>][1]) => Fits(<<"input", h>>, Held[<<"request", h>>][1])
      BY FitsFacts, Zenon
    <3>2. QED
      BY <1>3, <2>1, <2>2, <3>1, Zenon
  <2>3. CASE PassesOn(<<"input", h>>, <<"respond", 0>>)
    <3>1. Fits(<<"input", h>>, Held[<<"input", h>>][1]) => Fits(<<"respond", 0>>, Held[<<"input", h>>][1])
      BY FitsFacts, Zenon
    <3>2. QED
      BY <1>3, <2>1, <2>3, <3>1, Zenon
  <2>4. CASE PassesOn(<<"input", h>>, <<"batch", h>>)
    <3>1. Fits(<<"input", h>>, Held[<<"input", h>>][1]) => Fits(<<"batch", h>>, Held[<<"input", h>>][1])
      BY FitsFacts, Zenon
    <3>2. QED
      BY <1>3, <2>1, <2>4, <3>1, Zenon
  <2>5. CASE Pours(Held, Held', <<"batch", h>>, <<"outputs", h>>) /\ UNCHANGED <<accepted, lost>>
    BY <1>4, <2>1, <2>5, FitsFacts
  <2>6. CASE PassesOn(<<"outputs", h>>, <<"respond", 0>>)
    <3>1. Fits(<<"outputs", h>>, Held[<<"outputs", h>>][1]) => Fits(<<"respond", 0>>, Held[<<"outputs", h>>][1])
      BY FitsFacts, Zenon
    <3>2. QED
      BY <1>3, <2>1, <2>6, <3>1, Zenon
  <2>7. QED
    BY <1>6, <2>2, <2>3, <2>4, <2>5, <2>6 DEF HandlerChange
<1>7. ASSUME NEW h \in Handlers, QuitChange(h) PROVE Goal
  <2>1. /\ <<"request", h>> \in Locations /\ <<"flushed", h>> \in Locations
        /\ <<"respond", 0>> \in Locations
    BY EachLocation
  <2>2. CASE Pours(Held, Held', <<"request", h>>, <<"flushed", h>>) /\ UNCHANGED <<accepted, lost>>
    BY <1>4, <2>1, <2>2, FitsFacts
  <2>3. CASE PassesOn(<<"flushed", h>>, <<"respond", 0>>)
    <3>1. Fits(<<"flushed", h>>, Held[<<"flushed", h>>][1]) => Fits(<<"respond", 0>>, Held[<<"flushed", h>>][1])
      BY FitsFacts, Zenon
    <3>2. QED
      BY <1>3, <2>1, <2>3, <3>1, Zenon
  <2>4. QED
    BY <1>7, <2>2, <2>3 DEF QuitChange
<1>8. ASSUME NEW u \in Units, UnitChange(u) PROVE Goal
  <2>1. <<"result", u>> \in Locations /\ <<"delivered", u>> \in Locations
    BY EachLocation
  <2>2. CASE PassesOn(<<"result", u>>, <<"delivered", u>>)
    <3>1. Fits(<<"result", u>>, Held[<<"result", u>>][1]) => Fits(<<"delivered", u>>, Held[<<"result", u>>][1])
      BY FitsFacts, Zenon
    <3>2. QED
      BY <1>3, <2>1, <2>2, <3>1, Zenon
  <2>3. ASSUME NEW h \in Handlers, NEW r \in Request,
               upc[u] = "admitted", r.unit = u, r.id = lastId[u], r.handler = h,
               Puts(Held, Held', <<"request", h>>, r),
               accepted' = accepted \cup {r}, lost' = lost
        PROVE  Goal
    <3>1. r \notin accepted
      <4>1. r.id \in Nat
        BY DEF Request
      <4>2. ~(r.id < lastId[r.unit])
        BY <2>3, <4>1
      <4>3. QED
        BY <1>2, <2>3, <4>2 DEF FreshIds
    <3>2. ~HeldIn(Held, r)
      BY <1>2, <3>1 DEF Balanced, HeldIn
    <3>3. <<"request", h>> \in Locations /\ Fits(<<"request", h>>, r)
      BY <2>3, EachLocation, FitsFacts
    <3>4. NoneTwice(Held') /\ AtHome(Held') /\ \A x : HeldIn(Held', x) <=> HeldIn(Held, x) \/ x = r
      BY <1>1, <1>2, <2>3, <3>2, <3>3, PutKeeps
    <3>5. Balanced(Held', accepted \cup {r}, lost)
      BY <1>1, <1>2, <3>1, <3>4, BalancedPut
    <3>6. QED
      BY <2>3, <3>4, <3>5 DEF Goal
  <2>4. QED
    BY <1>8, <2>2, <2>3 DEF UnitChange
<1>9. ASSUME DispatchChange PROVE Goal
  <2>1. <<"respond", 0>> \in Locations /\ <<"reply", 0>> \in Locations
    BY EachLocation
  <2>2. CASE PassesOn(<<"respond", 0>>, <<"reply", 0>>)
    <3>1. Fits(<<"respond", 0>>, Held[<<"respond", 0>>][1]) => Fits(<<"reply", 0>>, Held[<<"respond", 0>>][1])
      BY FitsFacts, Zenon
    <3>2. QED
      BY <1>3, <2>1, <2>2, <3>1
  <2>3. CASE /\ Drops(Held, Held', <<"reply", 0>>)
             /\ accepted' = accepted /\ lost' = lost \cup {Held[<<"reply", 0>>][1]}
    BY <1>1, <1>2, <2>1, <2>3, LoseKeeps DEF Goal
  <2>4. ASSUME NEW u \in Units, u = Held[<<"reply", 0>>][1].unit,
               PassesOn(<<"reply", 0>>, <<"result", u>>)
        PROVE  Goal
    <3>0. Held[<<"reply", 0>>][1].unit = u
      BY <2>4
    <3>1. <<"result", u>> \in Locations /\ Fits(<<"result", u>>, Held[<<"reply", 0>>][1])
      BY <3>0, EachLocation, FitsFacts, Zenon
    <3>2. QED
      BY <1>3, <2>1, <2>4, <3>1
  <2>5. ASSUME NEW u \in Units, u = Held[<<"reply", 0>>][1].unit, NEW M \in Contents,
               Drops(Held, M, <<"result", u>>),
               Moves(M, Held', <<"reply", 0>>, <<"result", u>>),
               M[<<"reply", 0>>] = Held[<<"reply", 0>>],
               accepted' = accepted, lost' = lost \cup {Held[<<"result", u>>][1]}
        PROVE  Goal
    <3>0. M[<<"reply", 0>>][1].unit = u
      BY <2>5
    <3>1. <<"result", u>> \in Locations /\ Fits(<<"result", u>>, M[<<"reply", 0>>][1])
      BY <3>0, EachLocation, FitsFacts, Zenon
    <3>2. NoneTwice(M) /\ AtHome(M) /\ Balanced(M, accepted, lost \cup {Held[<<"result", u>>][1]})
      BY <1>1, <1>2, <2>5, <3>1, LoseKeeps
    <3>3. /\ NoneTwice(Held') /\ AtHome(Held')
          /\ Balanced(Held', accepted, lost \cup {Held[<<"result", u>>][1]})
      BY <1>1, <2>1, <2>5, <3>1, <3>2, PassKeeps
    <3>4. QED
      BY <2>5, <3>3 DEF Goal
  <2>6. QED
    <3>1. ASSUME \E u \in Units :
                   /\ Held[<<"reply", 0>>] # <<>> /\ u = Held[<<"reply", 0>>][1].unit
                   /\ \/ PassesOn(<<"reply", 0>>, <<"result", u>>)
                      \/ \E M \in Contents : /\ Drops(Held, M, <<"result", u>>)
                                             /\ Moves(M, Held', <<"reply", 0>>, <<"result", u>>)
                                             /\ M[<<"reply", 0>>] = Held[<<"reply", 0>>]
                                             /\ accepted' = accepted
                                             /\ lost' = lost \cup {Held[<<"result", u>>][1]}
          PROVE  Goal
      BY <2>4, <2>5, <3>1
    <3>2. QED
      BY <1>9, <2>2, <2>3, <3>1 DEF DispatchChange
<1>10. Goal
  <2>1. (\E h \in Handlers : HandlerChange(h) \/ QuitChange(h)) => Goal
    BY <1>6, <1>7
  <2>2. (\E u \in Units : UnitChange(u)) => Goal
    BY <1>8
  <2>3. QED
    BY <1>5, <1>9, <2>1, <2>2 DEF HeldChange
<1>11. QED
  BY <1>10 DEF Goal

LEMMA ConservationInit == Init => Conservation
<1> SUFFICES ASSUME Init PROVE Conservation
  OBVIOUS
<1> USE DEF Init, QueuesInit, HandlerInit, BalancerInit
<1>1. \A l \in Locations : Held[l] = <<>>
  <2>1. /\ \A h \in Handlers : /\ requestQ[h] = <<>> /\ input[h] = <<>> /\ batch[h] = <<>>
                               /\ outputs[h] = <<>> /\ flushed[h] = <<>>
        /\ respondQ = <<>> /\ reply = <<>>
        /\ \A u \in Units : resultQ[u] = <<>> /\ delivered[u] = <<>>
    OBVIOUS
  <2> HIDE DEF Init, QueuesInit, HandlerInit, BalancerInit
  <2>2. SUFFICES ASSUME NEW l \in Locations PROVE Held[l] = <<>>
    OBVIOUS
  <2>3. ASSUME NEW h \in Handlers, \/ l = <<"request", h>> \/ l = <<"input", h>>
                                   \/ l = <<"batch", h>> \/ l = <<"outputs", h>>
                                   \/ l = <<"flushed", h>>
        PROVE  Held[l] = <<>>
    <3>1. /\ Held[<<"request", h>>] = <<>> /\ Held[<<"input", h>>] = <<>>
          /\ Held[<<"batch", h>>] = <<>> /\ Held[<<"outputs", h>>] = <<>>
          /\ Held[<<"flushed", h>>] = <<>>
      BY <2>1, HeldAt DEF HeldAtEach
    <3>2. QED
      BY <2>3, <3>1
  <2>4. CASE l = <<"respond", 0>> \/ l = <<"reply", 0>>
    BY <2>1, <2>4, HeldAt, Zenon DEF HeldAtEach
  <2>5. ASSUME NEW u \in Units, l = <<"result", u>> \/ l = <<"delivered", u>>
        PROVE  Held[l] = <<>>
    BY <2>1, <2>5, HeldAt, Zenon DEF HeldAtEach
  <2>6. QED
    BY <2>3, <2>4, <2>5, LocationCases, Zenon
<1>2. accepted = {} /\ lost = {} /\ DOMAIN Held = Locations
  BY DEF Held
<1>3. \A l \in Locations : 1..Len(Held[l]) = {}
  BY <1>1
<1>4. QED
  BY <1>2, <1>3 DEF Conservation, NoneTwice, AtHome, Balanced, FreshIds

LEMMA ConservationStep == ServiceInvariant /\ Conservation /\ [Next]_vars => Conservation'
<1> SUFFICES ASSUME ServiceInvariant, Conservation, [Next]_vars PROVE Conservation'
  OBVIOUS
<1>1. ControlOK /\ RoutesOK /\ HandlerSeqsOK /\ ReplySeqsOK /\ WorkInHand /\ QuitStages
  BY TypeIsParts DEF ServiceInvariant, ServiceTyped, TypeParts
<1>2. HandlerSeqsOK' /\ ReplySeqsOK'
  BY <1>1, HandlerSeqsStep, ReplySeqsStep
<1>3. HeldTyped /\ HeldTyped' /\ HeldChange
  BY <1>1, <1>2, HeldType, HeldTypeNext, HeldCases
<1>4. NoneTwice(Held') /\ AtHome(Held') /\ Balanced(Held', accepted', lost')
  BY <1>3, HeldKeeps
<1>5. FreshIds'
  BY <1>1, FreshStep DEF Conservation
<1>6. QED
  BY <1>4, <1>5 DEF Conservation

LEMMA ConservationInvariance == Spec => [](ServiceInvariant /\ Conservation)
<1>1. Init => ServiceInvariant /\ Conservation
  BY ServiceInit, ConservationInit
<1>2. (ServiceInvariant /\ Conservation) /\ [Next]_vars => (ServiceInvariant /\ Conservation)'
  BY ServiceStep, ConservationStep
<1>3. QED
  BY <1>1, <1>2, PTL DEF Spec

(***************************************************************************)
(* The places of a request are its positions in what the locations hold.   *)
(***************************************************************************)
LEMMA InPlaces ==
  ASSUME NEW r, NEW x
  PROVE  x \in Places(r) <=>
           \/ r \in lost /\ x = <<"lost", 0>>
           \/ \E h \in Handlers :
                \/ x \in In(<<"request", h>>, requestQ[h], r)
                \/ x \in In(<<"input", h>>, input[h], r)
                \/ x \in In(<<"batch", h>>, batch[h], r)
                \/ x \in In(<<"outputs", h>>, outputs[h], r)
                \/ x \in In(<<"flushed", h>>, flushed[h], r)
           \/ x \in In(<<"respond", 0>>, respondQ, r) \/ x \in In(<<"reply", 0>>, reply, r)
           \/ x \in In(<<"result", r.unit>>, resultQ[r.unit], r)
           \/ x \in In(<<"delivered", r.unit>>, delivered[r.unit], r)
<1> DEFINE W(h) == In(<<"request", h>>, requestQ[h], r) \cup In(<<"input", h>>, input[h], r)
                     \cup In(<<"batch", h>>, batch[h], r) \cup In(<<"outputs", h>>, outputs[h], r)
                     \cup In(<<"flushed", h>>, flushed[h], r)
           S == UNION {W(h) : h \in Handlers}
           L == IF r \in lost THEN {<<"lost", 0>>} ELSE {}
           C == In(<<"respond", 0>>, respondQ, r)
           D == In(<<"reply", 0>>, reply, r)
           E == In(<<"result", r.unit>>, resultQ[r.unit], r)
           F == In(<<"delivered", r.unit>>, delivered[r.unit], r)
<1>1. \A h \in Handlers : x \in W(h) <=>
        \/ x \in In(<<"request", h>>, requestQ[h], r)
        \/ x \in In(<<"input", h>>, input[h], r)
        \/ x \in In(<<"batch", h>>, batch[h], r)
        \/ x \in In(<<"outputs", h>>, outputs[h], r)
        \/ x \in In(<<"flushed", h>>, flushed[h], r)
  OBVIOUS
<1>2. x \in L <=> r \in lost /\ x = <<"lost", 0>>
  <2>1. CASE r \in lost
    BY <2>1
  <2>2. CASE r \notin lost
    BY <2>2
  <2>3. QED
    BY <2>1, <2>2
<1>3. Places(r) = S \cup C \cup D \cup E \cup F \cup L
  BY Zenon DEF Places
<1> HIDE DEF W, L, C, D, E, F
<1>4. x \in S <=> \E h \in Handlers : x \in W(h)
  OBVIOUS
<1> HIDE DEF S
<1>5. x \in Places(r) <=> x \in S \/ x \in C \/ x \in D \/ x \in E \/ x \in F \/ x \in L
  BY <1>3
<1>6. QED
  BY <1>1, <1>2, <1>4, <1>5 DEF C, D, E, F

LEMMA PlacesOfHeld ==
  ASSUME AtHome(Held), NEW r, r.unit \in Units, NEW l \in Locations, NEW i \in 1..Len(Held[l]),
         Held[l][i] = r
  PROVE  <<l, i>> \in Places(r)
<1> USE DEF In
<1>1. ASSUME NEW h \in Handlers, \/ l = <<"request", h>> \/ l = <<"input", h>>
                                 \/ l = <<"batch", h>> \/ l = <<"outputs", h>>
                                 \/ l = <<"flushed", h>>
      PROVE  <<l, i>> \in Places(r)
  <2>1. <<l, i>> \in In(<<"request", h>>, requestQ[h], r) \cup In(<<"input", h>>, input[h], r)
             \cup In(<<"batch", h>>, batch[h], r) \cup In(<<"outputs", h>>, outputs[h], r)
             \cup In(<<"flushed", h>>, flushed[h], r)
    <3>1. CASE l = <<"request", h>>
      BY <3>1, HeldAt DEF HeldAtEach
    <3>2. CASE l = <<"input", h>>
      BY <3>2, HeldAt DEF HeldAtEach
    <3>3. CASE l = <<"batch", h>>
      BY <3>3, HeldAt DEF HeldAtEach
    <3>4. CASE l = <<"outputs", h>>
      BY <3>4, HeldAt DEF HeldAtEach
    <3>5. CASE l = <<"flushed", h>>
      BY <3>5, HeldAt DEF HeldAtEach
    <3>6. QED
      BY <1>1, <3>1, <3>2, <3>3, <3>4, <3>5
  <2> HIDE DEF In
  <2>2. QED
    BY <2>1, InPlaces
<1>2. CASE l = <<"respond", 0>>
  <2>1. <<l, i>> \in In(<<"respond", 0>>, respondQ, r)
    BY <1>2, HeldAt DEF HeldAtEach
  <2> HIDE DEF In
  <2>2. QED
    BY <2>1, InPlaces
<1>3. CASE l = <<"reply", 0>>
  <2>1. <<l, i>> \in In(<<"reply", 0>>, reply, r)
    BY <1>3, HeldAt DEF HeldAtEach
  <2> HIDE DEF In
  <2>2. QED
    BY <2>1, InPlaces
<1>4. ASSUME NEW u \in Units, l = <<"result", u>> \/ l = <<"delivered", u>>
      PROVE  <<l, i>> \in Places(r)
  <2>1. r.unit = u
    <3>1. Fits(l, r)
      BY HeldAt DEF HeldAtEach, AtHome
    <3>2. QED
      BY <1>4, <3>1 DEF Fits, UnitPlaces
  <2>2. CASE l = <<"result", u>>
    <3>1. <<l, i>> \in In(<<"result", r.unit>>, resultQ[r.unit], r)
      BY <2>1, <2>2, HeldAt DEF HeldAtEach
    <3> HIDE DEF In
    <3>2. QED
      BY <3>1, InPlaces
  <2>3. CASE l = <<"delivered", u>>
    <3>1. <<l, i>> \in In(<<"delivered", r.unit>>, delivered[r.unit], r)
      BY <2>1, <2>3, HeldAt DEF HeldAtEach
    <3> HIDE DEF In
    <3>2. QED
      BY <3>1, InPlaces
  <2>4. QED
    BY <1>4, <2>2, <2>3
<1>5. QED
  BY <1>1, <1>2, <1>3, <1>4, LocationCases, Zenon

LEMMA HeldOfPlaces ==
  ASSUME NEW r, r.unit \in Units, NEW x \in Places(r)
  PROVE  \/ r \in lost /\ x = <<"lost", 0>>
         \/ \E l \in Locations : \E i \in 1..Len(Held[l]) : Held[l][i] = r /\ x = <<l, i>>
<1> DEFINE P == \E l \in Locations : \E i \in 1..Len(Held[l]) : Held[l][i] = r /\ x = <<l, i>>
<1>1. ASSUME NEW l \in Locations, x \in In(l, Held[l], r) PROVE P
  BY <1>1 DEF In
<1> HIDE DEF P
<1>2. CASE r \in lost /\ x = <<"lost", 0>>
  BY <1>2
<1>3. ASSUME NEW h \in Handlers,
             \/ x \in In(<<"request", h>>, requestQ[h], r) \/ x \in In(<<"input", h>>, input[h], r)
             \/ x \in In(<<"batch", h>>, batch[h], r) \/ x \in In(<<"outputs", h>>, outputs[h], r)
             \/ x \in In(<<"flushed", h>>, flushed[h], r)
      PROVE  P
  BY <1>1, <1>3, HeldAt, EachLocation, Zenon DEF HeldAtEach
<1>4. ASSUME x \in In(<<"respond", 0>>, respondQ, r) \/ x \in In(<<"reply", 0>>, reply, r)
      PROVE  P
  BY <1>1, <1>4, HeldAt, EachLocation, Zenon DEF HeldAtEach
<1>5. ASSUME \/ x \in In(<<"result", r.unit>>, resultQ[r.unit], r)
             \/ x \in In(<<"delivered", r.unit>>, delivered[r.unit], r)
      PROVE  P
  BY <1>1, <1>5, HeldAt, EachLocation, Zenon DEF HeldAtEach
<1>6. \/ r \in lost /\ x = <<"lost", 0>>
      \/ \E h \in Handlers :
           \/ x \in In(<<"request", h>>, requestQ[h], r) \/ x \in In(<<"input", h>>, input[h], r)
           \/ x \in In(<<"batch", h>>, batch[h], r) \/ x \in In(<<"outputs", h>>, outputs[h], r)
           \/ x \in In(<<"flushed", h>>, flushed[h], r)
      \/ x \in In(<<"respond", 0>>, respondQ, r) \/ x \in In(<<"reply", 0>>, reply, r)
      \/ x \in In(<<"result", r.unit>>, resultQ[r.unit], r)
      \/ x \in In(<<"delivered", r.unit>>, delivered[r.unit], r)
  BY InPlaces
<1>7. (r \in lost /\ x = <<"lost", 0>>) \/ P
  BY <1>3, <1>4, <1>5, <1>6
<1>8. QED
  BY <1>7 DEF P

(***************************************************************************)
(* No accepted request is lost on the way, doubled or answered to another  *)
(* unit, whatever the interleaving of units, handlers, dispatcher and Quit *)
(* (RequestAsync, InferenceThread, the dispatcher's thread, flushing).     *)
(***************************************************************************)
THEOREM RequestsConserved == Spec => []ExactlyOnce
<1>1. ServiceInvariant /\ Conservation => ExactlyOnce
  <2> SUFFICES ASSUME ServiceInvariant, Conservation, NEW r \in accepted
               PROVE  Cardinality(Places(r)) = 1
    BY DEF ExactlyOnce
  <2>1. r \in Request
    BY TypeIsParts DEF ServiceInvariant, ServiceTyped, TypeParts, ReplySeqsOK
  <2>2. r.unit \in Units
    BY <2>1 DEF Request
  <2>3. DOMAIN Held = Locations
    BY DEF Held
  <2>4. CASE r \in lost
    <3>1. ~HeldIn(Held, r)
      BY <2>4 DEF Conservation, Balanced
    <3>2. \A l \in Locations : \A i \in 1..Len(Held[l]) : Held[l][i] # r
      BY <2>3, <3>1 DEF HeldIn
    <3>3. \A x \in Places(r) : x = <<"lost", 0>>
      BY <2>2, <3>2, HeldOfPlaces
    <3>4. <<"lost", 0>> \in Places(r)
      BY <2>4, InPlaces
    <3>5. Places(r) = {<<"lost", 0>>}
      BY <3>3, <3>4
    <3>6. QED
      BY <3>5, FS_Singleton
  <2>5. CASE r \notin lost
    <3>1. HeldIn(Held, r)
      BY <2>5 DEF Conservation, Balanced
    <3>2. PICK l \in Locations, i \in Nat : i \in 1..Len(Held[l]) /\ Held[l][i] = r
      <4>1. PICK l \in Locations : \E i \in 1..Len(Held[l]) : Held[l][i] = r
        BY <2>3, <3>1 DEF HeldIn
      <4>2. QED
        BY <4>1
    <3>3. <<l, i>> \in Places(r)
      BY <2>2, <3>2, PlacesOfHeld DEF Conservation
    <3>4. \A m \in Locations : \A j \in 1..Len(Held[m]) : Held[m][j] = r => m = l /\ j = i
      BY <2>3, <3>2 DEF Conservation, NoneTwice
    <3>5. ASSUME NEW x \in Places(r) PROVE x = <<l, i>>
      <4>1. \E m \in Locations : \E j \in 1..Len(Held[m]) : Held[m][j] = r /\ x = <<m, j>>
        BY <2>2, <2>5, HeldOfPlaces
      <4>2. QED
        BY <3>4, <4>1
    <3>6. Places(r) = {<<l, i>>}
      BY <3>3, <3>5
    <3>7. QED
      BY <3>6, FS_Singleton
  <2>6. QED
    BY <2>4, <2>5
<1>2. QED
  BY <1>1, ConservationInvariance, PTL

-----------------------------------------------------------------------------
(***************************************************************************)
(* Once the program quits it does not run again.                           *)
(***************************************************************************)
LEMMA QuitLasts ==
  ASSUME ControlOK, Quitting, [Next]_vars
  PROVE  Quitting'
<1> USE DEF Quitting, ControlOK, MainPCs, queueVars, handlerVars, lbVars, unitVars, routeVars, resultVars, dispatchVars, historyVars,
        balancerVars, restOfDispatch, mainVars, At, MoveTo, Goto, DispatchTo
<1>1. CASE Starting
  BY <1>1 DEF Starting, ActivateEngine, ActivateFails, StartUnit, Quit, Linker, StartInferenceThread,
     NextHandler
<1>2. CASE EngineStop
  BY <1>2 DEF EngineStop, SkipEngine, StopEngine, CloseEngineQ, FlushEngineQ, AnswerEngineQ, JoinEngine,
     StopInferenceThread, CloseRequestQ, FlushRequestQ, AnswerFlushed, JoinInferenceThread,
     NextHandler
<1>3. CASE BalancerStop
  BY <1>3 DEF BalancerStop, TerminateBalancer, CloseBalancerQ, JoinBalancer, TerminateFlags, CloseRespondQ,
     JoinDispatcher
<1>4. CASE UnitStop
  BY <1>4 DEF UnitStop, StopUnit, EraseUnit, UnmapUnit, JoinUnit, AllStopped, UnsubscribeErase,
     UnsubscribeQueue
<1>5. ASSUME NEW u \in Units, UnitThread(u) PROVE Quitting'
  BY <1>5 DEF UnitThread, SubscribeEnter, SubscribeInsert, SubscribeMakeQ, RequestRefused, RequestRoute,
     RequestCheck, RequestEnqueue, UnitExit
<1>6. ASSUME NEW u \in Units, ResponseThread(u) PROVE Quitting'
  BY <1>6 DEF ResponseThread, RespondAsync
<1>7. ASSUME NEW h \in Handlers, HandlerThread(h) PROVE Quitting'
  BY <1>7 DEF HandlerThread, InferenceThread, LoopHead, DequeueInput, DequeueNothing, PreprocessThrows,
     Preprocess, Infer, PushOutput
<1>8. CASE DispatcherThread
  BY <1>8 DEF DispatcherThread, Dispatcher, DispatchLoop, DispatchDequeue, DispatchNothing, DispatchLookup,
     DispatchPush
<1>9. CASE UNCHANGED vars
  BY <1>9 DEF vars
<1>10. QED
  BY <1>1, <1>2, <1>3, <1>4, <1>5, <1>6, <1>7, <1>8, <1>9, NextCases

LEMMA RankPlaces ==
  ASSUME NEW e \in Locations
  PROVE  /\ Rank[e] = 0 => \E g \in Handlers : e = <<"flushed", g>>
         /\ Rank[e] = 3 => \E g \in Handlers : e = <<"batch", g>>
         /\ Rank[e] = 4 => \E g \in Handlers : e = <<"outputs", g>>
<1>1. e[1] \in {"flushed", "request", "input", "batch", "outputs", "respond", "reply", "result",
                "delivered"}
  BY LocationParts DEF HandlerPlaces, UnitPlaces
<1>2. /\ e[1] = "flushed" => Rank[e] = 0
      /\ e[1] = "request" => Rank[e] = 1
      /\ e[1] = "input" => Rank[e] = 2
      /\ e[1] = "batch" => Rank[e] = 3
      /\ e[1] = "outputs" => Rank[e] = 4
      /\ e[1] = "respond" => Rank[e] = 5
      /\ e[1] = "reply" => Rank[e] = 6
      /\ e[1] = "result" => Rank[e] = 7
      /\ e[1] = "delivered" => Rank[e] = 8
  BY DEF Rank
<1>3. /\ Rank[e] = 0 => e[1] = "flushed"
      /\ Rank[e] = 3 => e[1] = "batch"
      /\ Rank[e] = 4 => e[1] = "outputs"
  BY <1>1, <1>2
<1>4. e[1] \in {"flushed", "batch", "outputs"} => e[2] \in Handlers
  BY LocationParts DEF UnitPlaces
<1>5. e = <<e[1], e[2]>>
  BY LocationParts
<1>6. QED
  BY <1>3, <1>4, <1>5

(***************************************************************************)
(* A request that fails in Preprocess overtakes none of its unit: with     *)
(* batches of one the handler holds nothing else.                          *)
(***************************************************************************)
LEMMA FailureClear ==
  ASSUME HandlerSeqsOK, WorkInHand, HeldTyped, AtHome(Held), NEW h \in Handlers,
         hpc[h] = "preprocess", NEW x \in Request, x.handler = h
  PROVE  Clear(Held, <<"input", h>>, <<"respond", 0>>, x)
<1> DEFINE a == <<"input", h>>
<1>1. Held \in Contents /\ DOMAIN Held = Locations /\ a \in Locations
  BY EachLocation DEF HeldTyped, Contents
<1>2. SUFFICES ASSUME NEW e \in Locations, e # a, Rank[a] <= Rank[e],
                      Rank[e] < Rank[<<"respond", 0>>], NEW j \in 1..Len(Held[e])
               PROVE  ~Related(x, Held[e][j])
  BY DEF Clear
<1>3. outputs[h] = <<>> /\ (BatchSize[h] = 1 => batch[h] = <<>>)
  <2>1. outputs[h] = <<>> /\ Len(batch[h]) < BatchSize[h] /\ batch[h] \in Seq(Request)
    BY DEF WorkInHand, HandlerHolds, HandlerSeqsOK
  <2>2. BatchSize[h] = 1 => Len(batch[h]) = 0
    BY <2>1
  <2>3. QED
    BY <2>1, <2>2
<1>4. Fits(e, Held[e][j])
  BY <1>1 DEF AtHome
<1>5. CASE Rank[e] = Rank[a]
  <2>1. Fits(a, x)
    BY FitsFacts, Zenon
  <2>2. QED
    BY <1>1, <1>2, <1>5, <2>1, SameRank
<1>6. ASSUME NEW g \in Handlers, e = <<"batch", g>> \/ e = <<"outputs", g>>
      PROVE  ~Related(x, Held[e][j])
  <2>1. Held[e][j].handler = g
    BY <1>4, <1>6 DEF Fits, HandlerPlaces
  <2>2. CASE g # h
    BY <2>1, <2>2 DEF Related
  <2>3. CASE g = h
    <3>1. Held[<<"batch", h>>] = batch[h] /\ Held[<<"outputs", h>>] = outputs[h]
      BY HeldAt, Zenon DEF HeldAtEach
    <3>2. BatchSize[h] # 1
      BY <1>2, <1>3, <1>6, <2>3, <3>1
    <3>3. QED
      BY <3>2 DEF Related
  <2>4. QED
    BY <2>2, <2>3
<1>7. CASE Rank[e] # Rank[a]
  <2>1. Rank[e] \in Nat /\ Rank[a] = 2 /\ Rank[<<"respond", 0>>] = 5
    BY RankType, RankAt
  <2>2. Rank[e] \in {3, 4}
    BY <1>2, <1>7, <2>1
  <2>3. \E g \in Handlers : e = <<"batch", g>> \/ e = <<"outputs", g>>
    BY <2>2, RankPlaces
  <2>4. QED
    BY <1>6, <2>3
<1>8. QED
  BY <1>5, <1>7

LEMMA StepOrder ==
  ASSUME NEW H \in Contents, NEW G \in Contents, AtHome(H), InOrder(H),
         NEW a \in Locations, NEW b \in Locations, Moves(H, G, a, b), Rank[b] = Rank[a] + 1
  PROVE  InOrder(G)
<1>1. H[a][1] \in Request /\ Fits(a, H[a][1])
  BY HeadOf DEF Moves
<1>2. Clear(H, a, b, H[a][1])
  BY <1>1, NextRankClear
<1>3. Rank[a] < Rank[b]
  BY RankType
<1>4. QED
  BY <1>2, <1>3, MoveOrder

LEMMA PourStepOrder ==
  ASSUME NEW H \in Contents, NEW G \in Contents, AtHome(H), InOrder(H),
         NEW a \in Locations, NEW b \in Locations, Pours(H, G, a, b), Rank[b] = Rank[a] + 1
  PROVE  InOrder(G)
<1>1. \A k \in 1..Len(H[a]) : H[a][k] \in Request /\ Fits(a, H[a][k])
  BY DEF AtHome, Contents
<1>2. \A k \in 1..Len(H[a]) : Clear(H, a, b, H[a][k])
  BY <1>1, NextRankClear
<1>3. Rank[a] < Rank[b]
  BY RankType
<1>4. QED
  BY <1>2, <1>3, PourOrder

(***************************************************************************)
(* Every step before Quit keeps the order.                                 *)
(***************************************************************************)
LEMMA HeldOrder ==
  ASSUME HandlerSeqsOK, WorkInHand, QuitStages, HeldTyped, HeldTyped', HeldChange, Conservation,
         InOrder(Held), ~Quitting, ~Quitting'
  PROVE  InOrder(Held')
<1> DEFINE Goal == InOrder(Held')
<1>1. Held \in Contents /\ Held' \in Contents /\ DOMAIN Held = Locations
  BY DEF HeldTyped, Contents, Held
<1>2. NoneTwice(Held) /\ AtHome(Held) /\ Balanced(Held, accepted, lost) /\ FreshIds
  BY DEF Conservation
<1> HIDE DEF Goal
<1>3. ASSUME NEW a \in Locations, NEW b \in Locations, PassesOn(a, b), Rank[b] = Rank[a] + 1
      PROVE  Goal
  <2>1. Moves(Held, Held', a, b)
    BY <1>3 DEF PassesOn
  <2>2. QED
    BY <1>1, <1>2, <1>3, <2>1, StepOrder DEF Goal
<1>4. ASSUME NEW a \in Locations, NEW b \in Locations, Pours(Held, Held', a, b),
             Rank[b] = Rank[a] + 1
      PROVE  Goal
  BY <1>1, <1>2, <1>4, PourStepOrder DEF Goal
<1>5. ASSUME Held' = Held, UNCHANGED <<accepted, lost>> PROVE Goal
  BY <1>5 DEF Goal
<1>6. ASSUME NEW h \in Handlers, HandlerChange(h) PROVE Goal
  <2>1. /\ <<"request", h>> \in Locations /\ <<"input", h>> \in Locations
        /\ <<"batch", h>> \in Locations /\ <<"outputs", h>> \in Locations
        /\ <<"respond", 0>> \in Locations
    BY EachLocation
  <2>r. /\ Rank[<<"input", h>>] = Rank[<<"request", h>>] + 1
        /\ Rank[<<"batch", h>>] = Rank[<<"input", h>>] + 1
        /\ Rank[<<"outputs", h>>] = Rank[<<"batch", h>>] + 1
        /\ Rank[<<"respond", 0>>] = Rank[<<"outputs", h>>] + 1
        /\ Rank[<<"input", h>>] < Rank[<<"respond", 0>>]
    <3>1. /\ Rank[<<"request", h>>] = 1 /\ Rank[<<"input", h>>] = 2 /\ Rank[<<"batch", h>>] = 3
          /\ Rank[<<"outputs", h>>] = 4 /\ Rank[<<"respond", 0>>] = 5
      BY RankAt, Zenon
    <3>2. QED
      BY <3>1
  <2>2. ASSUME PassesOn(<<"request", h>>, <<"input", h>>) PROVE Goal
    BY <1>3, <2>1, <2>2, <2>r, Zenon
  <2>3. ASSUME PassesOn(<<"input", h>>, <<"respond", 0>>), hpc[h] = "preprocess" PROVE Goal
    <3>1. PICK a \in Locations : a = <<"input", h>>
      BY <2>1
    <3>2. PICK b \in Locations : b = <<"respond", 0>>
      BY <2>1
    <3>3. Moves(Held, Held', a, b)
      BY <2>3, <3>1, <3>2 DEF PassesOn
    <3>4. Held[a][1] \in Request /\ Fits(a, Held[a][1])
      BY <1>1, <1>2, <3>3, HeadOf DEF Moves
    <3>5. Held[a][1].handler = h
      BY <3>1, <3>4 DEF Fits, HandlerPlaces
    <3>6. Clear(Held, a, b, Held[a][1])
      BY <1>2, <2>3, <3>1, <3>2, <3>4, <3>5, FailureClear
    <3>7. Rank[a] < Rank[b]
      BY <2>r, <3>1, <3>2
    <3>8. QED
      BY <1>1, <3>3, <3>6, <3>7, MoveOrder DEF Goal
  <2>4. ASSUME PassesOn(<<"input", h>>, <<"batch", h>>) PROVE Goal
    BY <1>3, <2>1, <2>4, <2>r, Zenon
  <2>5. ASSUME Pours(Held, Held', <<"batch", h>>, <<"outputs", h>>) PROVE Goal
    BY <1>4, <2>1, <2>5, <2>r, Zenon
  <2>6. ASSUME PassesOn(<<"outputs", h>>, <<"respond", 0>>) PROVE Goal
    BY <1>3, <2>1, <2>6, <2>r, Zenon
  <2>7. QED
    BY <1>6, <2>2, <2>3, <2>4, <2>5, <2>6 DEF HandlerChange
<1>7. ASSUME NEW h \in Handlers, QuitChange(h) PROVE Goal
  BY <1>7 DEF QuitChange
<1>8. ASSUME NEW u \in Units, UnitChange(u) PROVE Goal
  <2>1. ASSUME PassesOn(<<"result", u>>, <<"delivered", u>>) PROVE Goal
    <3>1. <<"result", u>> \in Locations /\ <<"delivered", u>> \in Locations
      BY EachLocation
    <3>2. Rank[<<"result", u>>] = 7 /\ Rank[<<"delivered", u>>] = 8
      BY RankAt, Zenon
    <3>3. Rank[<<"delivered", u>>] = Rank[<<"result", u>>] + 1
      BY <3>2
    <3>4. QED
      BY <1>3, <2>1, <3>1, <3>3, Zenon
  <2>2. ASSUME NEW h \in Handlers, NEW r \in Request,
               upc[u] = "admitted", r.unit = u, r.id = lastId[u], r.handler = h,
               Puts(Held, Held', <<"request", h>>, r)
        PROVE  Goal
    <3>1. PICK a \in Locations : a = <<"request", h>>
      BY EachLocation
    <3>2. \A e \in Locations : Rank[e] < Rank[a] => Held[e] = <<>>
      <4>1. \A e \in Locations : Rank[e] < Rank[a] => \E g \in Handlers : e = <<"flushed", g>>
        <5>1. Rank[a] = 1
          BY <3>1, RankAt
        <5>2. \A e \in Locations : Rank[e] \in Nat
          BY RankType
        <5>3. \A e \in Locations : Rank[e] < Rank[a] => Rank[e] = 0
          BY <5>1, <5>2
        <5>4. QED
          BY <5>3, RankPlaces
      <4>2. \A g \in Handlers : Held[<<"flushed", g>>] = <<>>
        <5>1. \A g \in Handlers : flushed[g] = <<>>
          BY DEF QuitStages, Quitting
        <5>2. QED
          BY <5>1, HeldAt DEF HeldAtEach
      <4>3. QED
        BY <4>1, <4>2
    <3>3. \A d \in Locations : \A k \in 1..Len(Held[d]) :
            Held[d][k].unit = r.unit => Held[d][k].id < r.id
      BY <1>1, <1>2, <2>2 DEF Balanced, FreshIds
    <3>4. QED
      BY <1>1, <2>2, <3>1, <3>2, <3>3, PutOrder DEF Goal
  <2>3. QED
    BY <1>8, <2>1, <2>2 DEF UnitChange
<1>9. ASSUME DispatchChange PROVE Goal
  <2>1. <<"respond", 0>> \in Locations /\ <<"reply", 0>> \in Locations
    BY EachLocation
  <2>2. /\ Rank[<<"reply", 0>>] = Rank[<<"respond", 0>>] + 1
        /\ \A u \in Units : Rank[<<"result", u>>] = Rank[<<"reply", 0>>] + 1
    <3>1. /\ Rank[<<"respond", 0>>] = 5 /\ Rank[<<"reply", 0>>] = 6
          /\ \A u \in Units : Rank[<<"result", u>>] = 7
      BY RankAt, Zenon
    <3>2. QED
      BY <3>1
  <2>3. ASSUME PassesOn(<<"respond", 0>>, <<"reply", 0>>) PROVE Goal
    BY <1>3, <2>1, <2>2, <2>3, Zenon
  <2>4. ASSUME Drops(Held, Held', <<"reply", 0>>) PROVE Goal
    BY <1>1, <2>1, <2>4, DropOrder DEF Goal
  <2>5. ASSUME NEW u \in Units, PassesOn(<<"reply", 0>>, <<"result", u>>) PROVE Goal
    BY <1>3, <2>1, <2>2, <2>5, EachLocation, Zenon
  <2>6. ASSUME NEW u \in Units, NEW M \in Contents, Drops(Held, M, <<"result", u>>),
               Moves(M, Held', <<"reply", 0>>, <<"result", u>>)
        PROVE  Goal
    <3>1. PICK a \in Locations : a = <<"reply", 0>>
      BY <2>1
    <3>2. PICK b \in Locations : b = <<"result", u>>
      BY EachLocation
    <3>3. Drops(Held, M, b) /\ Moves(M, Held', a, b) /\ Rank[b] = Rank[a] + 1
      BY <2>2, <2>6, <3>1, <3>2
    <3>4. AtHome(M) /\ InOrder(M)
      BY <1>1, <1>2, <3>3, DropKeeps, DropOrder
    <3>5. QED
      BY <1>1, <3>3, <3>4, StepOrder DEF Goal
  <2>7. QED
    <3>1. ASSUME \E u \in Units :
                   /\ Held[<<"reply", 0>>] # <<>> /\ u = Held[<<"reply", 0>>][1].unit
                   /\ \/ PassesOn(<<"reply", 0>>, <<"result", u>>)
                      \/ \E M \in Contents : /\ Drops(Held, M, <<"result", u>>)
                                             /\ Moves(M, Held', <<"reply", 0>>, <<"result", u>>)
                                             /\ M[<<"reply", 0>>] = Held[<<"reply", 0>>]
                                             /\ accepted' = accepted
                                             /\ lost' = lost \cup {Held[<<"result", u>>][1]}
          PROVE  Goal
      BY <2>5, <2>6, <3>1
    <3>2. QED
      BY <1>9, <2>3, <2>4, <3>1 DEF DispatchChange
<1>10. Goal
  <2>1. (\E h \in Handlers : HandlerChange(h) \/ QuitChange(h)) => Goal
    BY <1>6, <1>7
  <2>2. (\E u \in Units : UnitChange(u)) => Goal
    BY <1>8
  <2>3. QED
    BY <1>5, <1>9, <2>1, <2>2 DEF HeldChange
<1>11. QED
  BY <1>10 DEF Goal

LEMMA OrderStep ==
  ServiceInvariant /\ Conservation /\ OrderUntilQuit /\ [Next]_vars => OrderUntilQuit'
<1> SUFFICES ASSUME ServiceInvariant, Conservation, OrderUntilQuit, [Next]_vars, ~Quitting'
             PROVE  InOrder(Held')
  BY DEF OrderUntilQuit
<1>1. ControlOK /\ RoutesOK /\ HandlerSeqsOK /\ ReplySeqsOK /\ WorkInHand /\ QuitStages
  BY TypeIsParts DEF ServiceInvariant, ServiceTyped, TypeParts
<1>2. HandlerSeqsOK' /\ ReplySeqsOK'
  BY <1>1, HandlerSeqsStep, ReplySeqsStep
<1>3. HeldTyped /\ HeldTyped' /\ HeldChange
  BY <1>1, <1>2, HeldType, HeldTypeNext, HeldCases
<1>4. ~Quitting
  BY <1>1, QuitLasts
<1>5. QED
  BY <1>1, <1>3, <1>4, HeldOrder DEF OrderUntilQuit

LEMMA OrderInit == Init => OrderUntilQuit
<1> SUFFICES ASSUME Init PROVE InOrder(Held)
  BY DEF OrderUntilQuit
<1>1. \A l \in DOMAIN Held : \A i \in 1..Len(Held[l]) : FALSE
  <2>1. Balanced(Held, accepted, lost) /\ accepted = {}
    BY ConservationInit DEF Conservation, Init, BalancerInit
  <2>2. QED
    BY <2>1 DEF Balanced
<1>2. QED
  BY <1>1 DEF InOrder

(***************************************************************************)
(* With batches of one and before Quit, a handler's answers come to a unit *)
(* in the order of its requests, failures of Preprocess included: nothing  *)
(* overtakes on the way from RequestAsync to RespondAsync.                 *)
(***************************************************************************)
THEOREM AnswersInOrder == Spec => []HandlerKeepsOrder
<1> DEFINE Inv == (ServiceInvariant /\ Conservation) /\ OrderUntilQuit
<1>1. Init => Inv
  BY ServiceInit, ConservationInit, OrderInit
<1>2. Inv /\ [Next]_vars => Inv'
  BY ServiceStep, ConservationStep, OrderStep
<1>3. Inv => HandlerKeepsOrder
  <2> SUFFICES ASSUME Conservation, OrderUntilQuit, ~Quitting, NEW u \in Units,
                      NEW i \in 1..Len(delivered[u]), NEW j \in 1..Len(delivered[u]), i < j,
                      delivered[u][i].handler = delivered[u][j].handler,
                      BatchSize[delivered[u][i].handler] = 1
               PROVE  delivered[u][i].id < delivered[u][j].id
    BY DEF HandlerKeepsOrder
  <2>1. PICK l \in Locations : l = <<"delivered", u>>
    BY EachLocation
  <2>2. Held[l] = delivered[u] /\ DOMAIN Held = Locations
    BY <2>1, HeldAt, Zenon DEF HeldAtEach
  <2>3. Fits(l, Held[l][i]) /\ Fits(l, Held[l][j])
    BY <2>2 DEF Conservation, AtHome
  <2>4. Held[l][i].unit = u /\ Held[l][j].unit = u
    BY <2>1, <2>3, FitsFacts, Zenon
  <2>5. Related(Held[l][i], Held[l][j])
    BY <2>2, <2>4 DEF Related
  <2>6. Held[l][i].id < Held[l][j].id
    BY <2>2, <2>5 DEF OrderUntilQuit, InOrder
  <2>7. QED
    BY <2>2, <2>6
<1> HIDE DEF Inv
<1>4. QED
  BY <1>1, <1>2, <1>3, PTL DEF Spec

-----------------------------------------------------------------------------
(***************************************************************************)
(* The three kinds of threads that Quit joins.  An engine is active        *)
(* exactly while its thread is told to run; the one that is terminated has *)
(* been told to end, and then its queue is closed.                         *)
(***************************************************************************)
EnginesTold ==
    /\ \A h \in Handlers : /\ is_activate_handler[h] <=> is_running[h]
                           /\ is_activate_handler[h] => hpc[h] # "down"
    /\ mpc \in {"closeRequestQ", "flush", "answer"} => hpc[mh] # "down" /\ ~is_running[mh]
    /\ mpc \in {"flush", "answer"} => requestClosed[mh]

DispatcherTold ==
    /\ mpc \in {"closeRespondQ", "joinDispatcher"} => ~dispatching
    /\ mpc = "joinDispatcher" => respondClosed

(***************************************************************************)
(* A unit that is not told to run was never started, has ended, or is the  *)
(* one that Quit is stopping.                                              *)
(***************************************************************************)
InStop == mpc \in {"erase", "unmap", "joinUnit"}

UnitsTold ==
    /\ \A u \in Units : unitRunning[u] \/ upc[u] \in {"down", "exited"} \/ u \in mu
    /\ \A u \in Units : unitRunning[u] \/ u \in mu => upc[u] # "down"
    /\ \A u \in mu : InStop /\ ~unitRunning[u]
    /\ mpc = "end" => \A u \in Units : ~unitRunning[u]

ThreadsTold == EnginesTold /\ DispatcherTold /\ UnitsTold

LEMMA EnginesToldStep ==
  ASSUME ControlOK, FlagsOK, WorkInHand, EnginesTold, [Next]_vars
  PROVE  EnginesTold'
<1> USE DEF EnginesTold, queueVars, handlerVars, lbVars, mainVars, Goto
<1>1. CASE ActivateEngine
  <2>1. /\ hpc' = [hpc EXCEPT ![mh] = "loop"]
        /\ is_activate_handler' = [is_activate_handler EXCEPT ![mh] = TRUE]
        /\ is_running' = [is_running EXCEPT ![mh] = TRUE]
        /\ mpc' \in {"activate", "start"}
    BY <1>1 DEF ActivateEngine, StartInferenceThread, NextHandler
  <2>2. QED
    BY <2>1 DEF ControlOK, FlagsOK
<1>2. CASE ActivateFails \/ (\E u \in Units : StartUnit(u)) \/ Quit
  <2>1. /\ UNCHANGED <<hpc, is_activate_handler, is_running>>
        /\ mpc' \in {"start", "run", "terminate"}
    BY <1>2 DEF ActivateFails, StartUnit, Quit
  <2>2. QED
    BY <2>1
<1>3. CASE SkipEngine \/ JoinEngine
  <2>1. /\ UNCHANGED <<hpc, is_activate_handler, is_running>>
        /\ mpc' \in {"terminate", "lbTerminate"}
    BY <1>3 DEF SkipEngine, JoinEngine, JoinInferenceThread, NextHandler
  <2>2. QED
    BY <2>1
<1>4. CASE StopEngine
  <2>1. /\ is_activate_handler[mh]
        /\ is_activate_handler' = [is_activate_handler EXCEPT ![mh] = FALSE]
        /\ is_running' = [is_running EXCEPT ![mh] = FALSE]
        /\ mpc' = "closeRequestQ" /\ UNCHANGED <<hpc, mh>>
    BY <1>4 DEF StopEngine, StopInferenceThread
  <2>2. QED
    BY <2>1 DEF ControlOK, FlagsOK
<1>5. CASE CloseEngineQ
  <2>1. /\ requestClosed' = [requestClosed EXCEPT ![mh] = TRUE]
        /\ mpc = "closeRequestQ" /\ mpc' = "flush"
        /\ UNCHANGED <<hpc, is_activate_handler, is_running, mh>>
    BY <1>5 DEF CloseEngineQ, CloseRequestQ
  <2>2. QED
    BY <2>1 DEF ControlOK, FlagsOK
<1>6. CASE FlushEngineQ \/ AnswerEngineQ
  BY <1>6 DEF FlushEngineQ, AnswerEngineQ, FlushRequestQ, AnswerFlushed
<1>7. CASE BalancerStop \/ UnitStop
  <2>1. UNCHANGED <<hpc, is_activate_handler, is_running>>
    BY <1>7 DEF BalancerStop, TerminateBalancer, CloseBalancerQ, JoinBalancer, UnitStop, StopUnit,
       EraseUnit, UnmapUnit, JoinUnit, AllStopped
  <2>2. mpc' \notin {"closeRequestQ", "flush", "answer"}
    BY <1>7 DEF BalancerStop, TerminateBalancer, CloseBalancerQ, JoinBalancer, UnitStop, StopUnit,
       EraseUnit, UnmapUnit, JoinUnit, AllStopped
  <2>3. QED
    BY <2>1, <2>2
<1>8. ASSUME NEW h \in Handlers, HandlerThread(h) PROVE EnginesTold'
  <2>1. UNCHANGED <<is_activate_handler, is_running, requestClosed, mpc, mh>>
    BY <1>8 DEF HandlerThread, InferenceThread, LoopHead, DequeueInput, DequeueNothing,
       PreprocessThrows, Preprocess, Infer, PushOutput
  <2>2. /\ hpc' \in [Handlers -> HandlerPCs] /\ hpc'[h] # "down"
        /\ \A k \in Handlers \ {h} : hpc'[k] = hpc[k]
    BY <1>8 DEF ControlOK, HandlerPCs, HandlerThread, InferenceThread, LoopHead, DequeueInput,
       DequeueNothing, PreprocessThrows, Preprocess, Infer, PushOutput
  <2>3. QED
    BY <2>1, <2>2 DEF ControlOK
<1>9. CASE \/ \E u \in Units : UnitThread(u) \/ ResponseThread(u)
           \/ DispatcherThread \/ UNCHANGED vars
  <2>1. UNCHANGED <<hpc, is_activate_handler, is_running, mpc, mh>>
    BY <1>9 DEF UnitThread, ResponseThread, DispatcherThread, vars
  <2>2. requestClosed' = requestClosed
    BY <1>9 DEF UnitThread, SubscribeEnter, SubscribeInsert, SubscribeMakeQ, RequestRefused,
       RequestRoute, RequestCheck, RequestEnqueue, UnitExit, ResponseThread, RespondAsync,
       DispatcherThread, Dispatcher, DispatchLoop, DispatchDequeue, DispatchNothing,
       DispatchLookup, DispatchPush, restOfDispatch, vars
  <2>3. QED
    BY <2>1, <2>2
<1>10. QED
  BY <1>1, <1>2, <1>3, <1>4, <1>5, <1>6, <1>7, <1>8, <1>9, NextCases DEF Starting, EngineStop

LEMMA DispatcherToldStep ==
  ASSUME DispatcherTold, [Next]_vars
  PROVE  DispatcherTold'
<1> USE DEF DispatcherTold, queueVars, lbVars, balancerVars, dispatchVars, mainVars
<1>1. CASE Starting \/ EngineStop \/ UnitStop
  <2>1. mpc' \notin {"closeRespondQ", "joinDispatcher"}
    BY <1>1 DEF Starting, ActivateEngine, ActivateFails, StartUnit, Quit, EngineStop, SkipEngine,
       StopEngine, CloseEngineQ, FlushEngineQ, AnswerEngineQ, JoinEngine, UnitStop, StopUnit,
       EraseUnit, UnmapUnit, JoinUnit, AllStopped, NextHandler
  <2>2. QED
    BY <2>1
<1>2. CASE BalancerStop
  BY <1>2 DEF BalancerStop, TerminateBalancer, CloseBalancerQ, JoinBalancer, TerminateFlags,
     CloseRespondQ
<1>3. CASE \E u \in Units : UnitThread(u) \/ ResponseThread(u)
  BY <1>3 DEF UnitThread, SubscribeEnter, SubscribeInsert, SubscribeMakeQ, RequestRefused,
     RequestRoute, RequestCheck, RequestEnqueue, UnitExit, ResponseThread, RespondAsync
<1>4. CASE \E h \in Handlers : HandlerThread(h)
  <2>1. PICK h \in Handlers : HandlerThread(h)
    BY <1>4
  <2>2. UNCHANGED <<mpc, dispatching>>
    BY <2>1 DEF HandlerThread
  <2>3. respondClosed' = respondClosed
    BY <2>1 DEF HandlerThread, InferenceThread, LoopHead, DequeueInput, DequeueNothing,
       PreprocessThrows, Preprocess, Infer, PushOutput
  <2>4. QED
    BY <2>2, <2>3
<1>5. CASE DispatcherThread
  BY <1>5 DEF DispatcherThread, Dispatcher, DispatchLoop, DispatchDequeue, DispatchNothing,
     DispatchLookup, DispatchPush, restOfDispatch
<1>6. CASE UNCHANGED vars
  BY <1>6 DEF vars
<1>7. QED
  BY <1>1, <1>2, <1>3, <1>4, <1>5, <1>6, NextCases

LEMMA UnitsToldStep ==
  ASSUME ControlOK, FlagsOK, UnitsTold, [Next]_vars
  PROVE  UnitsTold'
<1> USE DEF UnitsTold, InStop, lbVars, unitVars, mainVars, At, MoveTo
<1>1. ASSUME UNCHANGED <<upc, mu, unitRunning>>, ~InStop \/ mpc' = mpc, mpc' # "end" \/ mpc' = mpc
      PROVE  UnitsTold'
  BY <1>1
<1>2. CASE ActivateEngine \/ ActivateFails \/ Quit
  <2>1. /\ UNCHANGED <<upc, mu, unitRunning>> /\ ~InStop
        /\ mpc' \in {"activate", "start", "terminate"}
    BY <1>2 DEF ActivateEngine, ActivateFails, Quit, Linker, NextHandler
  <2>2. QED
    BY <1>1, <2>1
<1>3. ASSUME NEW u \in Units, StartUnit(u) PROVE UnitsTold'
  <2>1. /\ upc[u] = "down" /\ upc' = [upc EXCEPT ![u] = "start"]
        /\ unitRunning' = [unitRunning EXCEPT ![u] = TRUE]
        /\ mpc = "start" /\ mpc' \in {"start", "run"} /\ mu' = mu
    BY <1>3 DEF StartUnit
  <2>2. QED
    BY <2>1 DEF ControlOK, FlagsOK
<1>4. CASE EngineStop \/ BalancerStop
  <2>1. UNCHANGED <<upc, mu, unitRunning>> /\ ~InStop
    BY <1>4 DEF EngineStop, SkipEngine, StopEngine, CloseEngineQ, FlushEngineQ, AnswerEngineQ,
       JoinEngine, BalancerStop, TerminateBalancer, CloseBalancerQ, JoinBalancer, TerminateFlags,
       CloseRespondQ, JoinDispatcher
  <2>2. mpc' # "end"
    BY <1>4 DEF EngineStop, SkipEngine, StopEngine, CloseEngineQ, FlushEngineQ, AnswerEngineQ,
       JoinEngine, BalancerStop, TerminateBalancer, CloseBalancerQ, JoinBalancer, NextHandler
  <2>3. QED
    BY <1>1, <2>1, <2>2
<1>5. ASSUME NEW u \in Units, StopUnit(u) PROVE UnitsTold'
  <2>1. /\ unitRunning[u] /\ unitRunning' = [unitRunning EXCEPT ![u] = FALSE]
        /\ mpc = "stop" /\ mpc' = "erase" /\ mu' = {u} /\ upc' = upc
    BY <1>5 DEF StopUnit
  <2>2. mu = {}
    BY <2>1 DEF ControlOK
  <2>3. QED
    BY <2>1, <2>2 DEF ControlOK, FlagsOK
<1>6. CASE EraseUnit \/ UnmapUnit
  <2>1. UNCHANGED <<upc, mu, unitRunning>> /\ mpc' \in {"unmap", "joinUnit"} /\ InStop
    BY <1>6 DEF EraseUnit, UnmapUnit, UnsubscribeErase, UnsubscribeQueue
  <2>2. QED
    BY <2>1
<1>7. CASE JoinUnit
  BY <1>7 DEF JoinUnit, ControlOK
<1>8. CASE AllStopped
  BY <1>8 DEF AllStopped
<1>9. ASSUME NEW u \in Units, UnitThread(u) PROVE UnitsTold'
  <2>1. UNCHANGED <<mpc, mu, unitRunning>> /\ upc[u] \notin {"down", "exited"}
    BY <1>9 DEF UnitThread, SubscribeEnter, SubscribeInsert, SubscribeMakeQ, RequestRefused,
       RequestRoute, RequestCheck, RequestEnqueue, UnitExit
  <2>2. /\ upc'[u] # "down" /\ \A v \in Units \ {u} : upc'[v] = upc[v]
    BY <1>9, <2>1 DEF ControlOK, UnitThread, SubscribeEnter, SubscribeInsert, SubscribeMakeQ,
       RequestRefused, RequestRoute, RequestCheck, RequestEnqueue, UnitExit
  <2>3. QED
    BY <2>1, <2>2 DEF ControlOK
<1>10. CASE \/ \E u \in Units : ResponseThread(u)
            \/ \E h \in Handlers : HandlerThread(h)
            \/ DispatcherThread \/ UNCHANGED vars
  <2>1. UNCHANGED <<upc, mu, unitRunning, mpc>>
    BY <1>10 DEF ResponseThread, RespondAsync, HandlerThread, DispatcherThread, Dispatcher,
       DispatchLoop, DispatchDequeue, DispatchNothing, DispatchLookup, DispatchPush,
       restOfDispatch, vars
  <2>2. QED
    BY <1>1, <2>1
<1>11. QED
  BY <1>2, <1>3, <1>4, <1>5, <1>6, <1>7, <1>8, <1>9, <1>10, NextCases DEF Starting, UnitStop

(***************************************************************************)
(* The safety half of QuitEnds: a thread that Quit joins was started, has  *)
(* been told to end, and its queue does not hold it back; and when Quit    *)
(* has ended none of the threads it is about is left.                      *)
(***************************************************************************)
NoJoinInVain ==
    /\ mpc = "answer" => hpc[mh] # "down" /\ ~is_running[mh] /\ requestClosed[mh]
    /\ mpc = "joinDispatcher" => ~dispatching /\ respondClosed
    /\ mpc = "joinUnit" => \A u \in mu : upc[u] # "down" /\ ~unitRunning[u]
    /\ mpc = "end" => /\ dpc = "exited"
                      /\ \A h \in Handlers : hpc[h] \in {"down", "exited"}
                      /\ \A u \in Units : upc[u] \in {"down", "exited"}

(***************************************************************************)
(* Whatever was in progress when Quit came, and also when Initialize has   *)
(* failed half-way, no join of Quit waits for a thread that was not told   *)
(* (TerminateEngine, EngineLoadBalancer::Terminate, Stop of a unit).       *)
(***************************************************************************)
THEOREM JoinsAreTold == Spec => []NoJoinInVain
<1>1. Init => ThreadsTold
  BY DEF Init, QueuesInit, HandlerInit, BalancerInit, ThreadsTold, EnginesTold, DispatcherTold,
     UnitsTold
<1>2. ServiceInvariant /\ ThreadsTold /\ [Next]_vars => ThreadsTold'
  <2> SUFFICES ASSUME ServiceInvariant, ThreadsTold, [Next]_vars PROVE ThreadsTold'
    OBVIOUS
  <2>1. ControlOK /\ FlagsOK /\ WorkInHand
    BY TypeIsParts DEF ServiceInvariant, ServiceTyped, TypeParts
  <2>2. QED
    BY <2>1, EnginesToldStep, DispatcherToldStep, UnitsToldStep DEF ThreadsTold
<1>3. ServiceInvariant /\ QuietWhenUnitsStop /\ ThreadsTold => NoJoinInVain
  <2> SUFFICES ASSUME ServiceInvariant, QuietWhenUnitsStop, ThreadsTold PROVE NoJoinInVain
    OBVIOUS
  <2>1. mpc = "end" => \A u \in Units : upc[u] \in {"down", "exited"}
    BY DEF ThreadsTold, UnitsTold, InStop
  <2>2. mpc = "joinUnit" => \A u \in mu : upc[u] # "down" /\ ~unitRunning[u]
    <3>1. mu \subseteq Units
      BY TypeIsParts DEF ServiceInvariant, ServiceTyped, TypeParts, ControlOK
    <3>2. QED
      BY <3>1 DEF ThreadsTold, UnitsTold
  <2>3. QED
    BY <2>1, <2>2 DEF ThreadsTold, EnginesTold, DispatcherTold, NoJoinInVain, QuietWhenUnitsStop
<1>4. QED
  BY <1>1, <1>2, <1>3, ServiceInvariance, QuitIsQuiet, PTL DEF Spec
=============================================================================
