------------------------ MODULE EngineLoadBalancer ------------------------
(***************************************************************************)
(* EngineLoadBalancer: the calls the camera units make (Subscribe,         *)
(* RequestAsync, RespondAsync, Unsubscribe), the reply dispatcher thread   *)
(* and the steps of Terminate.                                             *)
(*                                                                         *)
(* A call holds no lock between its critical sections, so a call of a unit *)
(* is one action per critical section.  A unit's inference thread is       *)
(* "down", at the "start" of Subscribe, in "insert" or "makeQ" (the two    *)
(* critical sections of Subscribe), "idle" in its loop, "routed" (has a    *)
(* target queue), "admitted" (has seen room in it) or "exited".            *)
(***************************************************************************)
EXTENDS InferenceQueues

NoHandler == 0

VARIABLES engine_handles,        \* linked handlers, in the order of Link
          round_robin_idx,
          is_terminate_instance,
          subscribers,
          cam_result_qs,         \* the units with an entry in the map
          resultQ,               \* the queue object of each unit
          resultClosed,          \* its b_terminate
          upc,                   \* where each unit's inference thread is
          target,                \* target_handle of its RequestAsync
          lastId,                \* its last correlation id
          dispatching,           \* running flag of reply_dispatcher_thread_
          dpc,                   \* where the dispatcher is
          reply,                 \* what it dequeued, a sequence of at most one
          accepted,              \* history: requests that RequestAsync accepted
          lost,                  \* history: answers the load balancer dropped
          delivered              \* history: what RespondAsync returned to each unit

unitVars     == <<upc, target, lastId>>
routeVars    == <<engine_handles, round_robin_idx, is_terminate_instance>>
resultVars   == <<resultQ, resultClosed>>
dispatchVars == <<dispatching, dpc, reply>>
historyVars  == <<accepted, lost, delivered>>
balancerVars == <<routeVars, subscribers, cam_result_qs, resultVars, dispatchVars, historyVars>>
lbVars       == <<unitVars, balancerVars>>

UnitPCs == {"down", "start", "insert", "makeQ", "idle", "routed", "admitted", "exited"}

BalancerInit == /\ engine_handles = <<>>
                /\ round_robin_idx = 0
                /\ is_terminate_instance = FALSE
                /\ subscribers = {}
                /\ cam_result_qs = {}
                /\ resultQ = [u \in Units |-> <<>>]
                /\ resultClosed = [u \in Units |-> FALSE]
                /\ upc = [u \in Units |-> "down"]
                /\ target = [u \in Units |-> NoHandler]
                /\ lastId = [u \in Units |-> 0]
                /\ dispatching = TRUE
                /\ dpc = "loop"
                /\ reply = <<>>
                /\ accepted = {}
                /\ lost = {}
                /\ delivered = [u \in Units |-> <<>>]

BalancerTypeOK == /\ engine_handles \in Seq(Handlers)
                  /\ round_robin_idx \in 0..(NumHandlers - 1)
                  /\ is_terminate_instance \in BOOLEAN
                  /\ subscribers \subseteq Units
                  /\ cam_result_qs \subseteq Units
                  /\ resultQ \in [Units -> Seq(Request)]
                  /\ resultClosed \in [Units -> BOOLEAN]
                  /\ upc \in [Units -> UnitPCs]
                  /\ target \in [Units -> Handlers \cup {NoHandler}]
                  /\ lastId \in [Units -> Nat]
                  /\ dispatching \in BOOLEAN
                  /\ dpc \in {"loop", "dequeue", "lookup", "push", "exited"}
                  /\ reply \in Seq(Request)
                  /\ accepted \subseteq Request
                  /\ lost \subseteq Request
                  /\ delivered \in [Units -> Seq(Request)]

At(u, place) == upc[u] = place
MoveTo(u, place) == upc' = [upc EXCEPT ![u] = place]

(***************************************************************************)
(* Linker.  The profile of the engine exists, each handler links once.     *)
(***************************************************************************)
Linker(h) == /\ ~is_terminate_instance
             /\ \A i \in 1..Len(engine_handles) : engine_handles[i] # h
             /\ engine_handles' = Append(engine_handles, h)
             /\ UNCHANGED <<unitVars, round_robin_idx, is_terminate_instance, subscribers,
                            cam_result_qs, resultVars, dispatchVars, historyVars>>

-----------------------------------------------------------------------------
(***************************************************************************)
(* Subscribe: the test of is_terminate_instance_, the insertion into       *)
(* subscribers_ (false when already there) and the new result queue.       *)
(* The caller ignores the returned value.                                  *)
(***************************************************************************)
SubscribeEnter(u) ==
    /\ At(u, "start")
    /\ MoveTo(u, IF is_terminate_instance THEN "idle" ELSE "insert")
    /\ UNCHANGED <<target, lastId, balancerVars, queueVars>>

SubscribeInsert(u) ==
    /\ At(u, "insert")
    /\ subscribers' = subscribers \cup {u}
    /\ MoveTo(u, IF u \in subscribers THEN "idle" ELSE "makeQ")
    /\ UNCHANGED <<target, lastId, routeVars, cam_result_qs, resultVars, dispatchVars,
                   historyVars, queueVars>>

SubscribeMakeQ(u) ==
    /\ At(u, "makeQ")
    /\ cam_result_qs' = cam_result_qs \cup {u}
    /\ MoveTo(u, "idle")
    /\ UNCHANGED <<target, lastId, routeVars, subscribers, resultVars, dispatchVars,
                   historyVars, queueVars>>

(***************************************************************************)
(* RequestAsync.  The round-robin choice under engine_mutex_, the size of  *)
(* the chosen queue, and the enqueue are separate critical sections.  The  *)
(* test of is_terminate_instance_ and the choice are one step: nothing     *)
(* that Terminate does before it clears the handlers changes the choice.   *)
(* The counter is kept modulo the number of handlers, all of which are     *)
(* linked before a unit starts.                                            *)
(***************************************************************************)
RequestRefused(u) ==
    /\ At(u, "idle") /\ lastId[u] < MaxRequests[u]
    /\ is_terminate_instance \/ engine_handles = <<>>
    /\ lastId' = [lastId EXCEPT ![u] = @ + 1]
    /\ UNCHANGED <<upc, target, balancerVars, queueVars>>

RequestRoute(u) ==
    /\ At(u, "idle") /\ lastId[u] < MaxRequests[u]
    /\ ~is_terminate_instance /\ engine_handles # <<>>
    /\ lastId' = [lastId EXCEPT ![u] = @ + 1]
    /\ target' = [target EXCEPT
         ![u] = engine_handles[(round_robin_idx % Len(engine_handles)) + 1]]
    /\ round_robin_idx' = (round_robin_idx + 1) % NumHandlers
    /\ MoveTo(u, "routed")
    /\ UNCHANGED <<engine_handles, is_terminate_instance, subscribers, cam_result_qs,
                   resultVars, dispatchVars, historyVars, queueVars>>

UncheckedRequestCheck(u) ==
    /\ At(u, "routed")
    /\ MoveTo(u, "admitted")
    /\ UNCHANGED <<target, lastId, balancerVars, queueVars>>

RequestCheck(u) ==
    /\ At(u, "routed")
    /\ MoveTo(u, IF Len(requestQ[target[u]]) >= MaxInput THEN "idle" ELSE "admitted")
    /\ UNCHANGED <<target, lastId, balancerVars, queueVars>>

RequestEnqueue(u) ==
    LET r == [unit |-> u, id |-> lastId[u], handler |-> target[u]] IN
    /\ At(u, "admitted")
    /\ requestQ' = [requestQ EXCEPT ![target[u]] = Append(@, r)]
    /\ accepted' = accepted \cup {r}
    /\ MoveTo(u, "idle")
    /\ UNCHANGED <<target, lastId, requestClosed, respondQ, respondClosed, routeVars,
                   subscribers, cam_result_qs, resultVars, dispatchVars, lost, delivered>>

(***************************************************************************)
(* RespondAsync, called by the unit's response thread, when it returns an  *)
(* answer.  Its test of subscribers_ and its read of the map may precede   *)
(* an Unsubscribe; the terminated queue then gives it nothing, so only the *)
(* dequeue decides.                                                        *)
(***************************************************************************)
RespondAsync(u) ==
    /\ u \in cam_result_qs
    /\ ~resultClosed[u] /\ resultQ[u] # <<>>
    /\ delivered' = [delivered EXCEPT ![u] = Append(@, Head(resultQ[u]))]
    /\ resultQ' = [resultQ EXCEPT ![u] = Tail(@)]
    /\ UNCHANGED <<unitVars, routeVars, subscribers, cam_result_qs, resultClosed,
                   dispatchVars, accepted, lost, queueVars>>

(***************************************************************************)
(* Unsubscribe, called by the main thread: out of subscribers_, then the   *)
(* result queue is terminated and leaves the map.                          *)
(***************************************************************************)
UnsubscribeErase(u) ==
    /\ subscribers' = subscribers \ {u}
    /\ UNCHANGED <<unitVars, routeVars, cam_result_qs, resultVars, dispatchVars,
                   historyVars, queueVars>>

UnsubscribeQueue(u) ==
    /\ resultClosed' = [resultClosed EXCEPT ![u] = @ \/ u \in cam_result_qs]
    /\ cam_result_qs' = cam_result_qs \ {u}
    /\ UNCHANGED <<unitVars, routeVars, subscribers, resultQ, dispatchVars, historyVars,
                   queueVars>>

-----------------------------------------------------------------------------
(***************************************************************************)
(* ReplyDispatcherThreadRunner.  A terminated queue ends the loop even     *)
(* when it still holds answers.                                            *)
(***************************************************************************)
DispatchTo(place) == dpc' = place

restOfDispatch == <<unitVars, routeVars, subscribers, cam_result_qs, resultClosed,
                    dispatching, accepted, delivered, requestQ, requestClosed,
                    respondClosed>>

DispatchLoop == /\ dpc = "loop"
                /\ DispatchTo(IF dispatching THEN "dequeue" ELSE "exited")
                /\ UNCHANGED <<restOfDispatch, resultQ, reply, lost, respondQ>>

LifoDispatchDequeue ==
    /\ dpc = "dequeue"
    /\ ~respondClosed /\ respondQ # <<>>
    /\ reply' = <<respondQ[Len(respondQ)]>>
    /\ respondQ' = SubSeq(respondQ, 1, Len(respondQ) - 1)
    /\ DispatchTo("lookup")
    /\ UNCHANGED <<restOfDispatch, resultQ, lost>>

DispatchDequeue == /\ dpc = "dequeue"
                   /\ ~respondClosed /\ respondQ # <<>>
                   /\ reply' = <<Head(respondQ)>>
                   /\ respondQ' = Tail(respondQ)
                   /\ DispatchTo("lookup")
                   /\ UNCHANGED <<restOfDispatch, resultQ, lost>>

DispatchNothing == /\ dpc = "dequeue"
                   /\ respondClosed \/ respondQ = <<>>
                   /\ DispatchTo(IF respondClosed THEN "exited" ELSE "loop")
                   /\ UNCHANGED <<restOfDispatch, resultQ, reply, lost, respondQ>>

(***************************************************************************)
(* The lookup of the requester's queue.  Without one the answer is         *)
(* discarded.                                                              *)
(***************************************************************************)
DispatchLookup ==
    LET r == reply[1] IN
    /\ dpc = "lookup"
    /\ \/ /\ r.unit \in cam_result_qs
          /\ DispatchTo("push")
          /\ UNCHANGED <<reply, lost>>
       \/ /\ r.unit \notin cam_result_qs
          /\ lost' = lost \cup {r}
          /\ reply' = <<>>
          /\ DispatchTo("loop")
    /\ UNCHANGED <<restOfDispatch, resultQ, respondQ>>

AnyQueueDispatchPush ==
    \E u \in cam_result_qs :
    /\ dpc = "push"
    /\ resultQ' = [resultQ EXCEPT ![u] = Enqueue(@, ResultCap, reply[1])]
    /\ lost' = lost \cup Evicted(resultQ[u], ResultCap)
    /\ reply' = <<>>
    /\ DispatchTo("loop")
    /\ UNCHANGED <<restOfDispatch, respondQ>>

DispatchPush ==
    LET u == reply[1].unit IN
    /\ dpc = "push"
    /\ resultQ' = [resultQ EXCEPT ![u] = Enqueue(@, ResultCap, reply[1])]
    /\ lost' = lost \cup Evicted(resultQ[u], ResultCap)
    /\ reply' = <<>>
    /\ DispatchTo("loop")
    /\ UNCHANGED <<restOfDispatch, respondQ>>

Dispatcher == \/ DispatchLoop
              \/ DispatchDequeue
              \/ DispatchNothing
              \/ DispatchLookup
              \/ DispatchPush

-----------------------------------------------------------------------------
(***************************************************************************)
(* Terminate: the flags, then ReplyDispatcherThreadCloser, then the join   *)
(* after which the handlers are forgotten.                                 *)
(***************************************************************************)
TerminateFlags ==
    /\ is_terminate_instance' = TRUE
    /\ dispatching' = FALSE
    /\ UNCHANGED <<unitVars, engine_handles, round_robin_idx, subscribers, cam_result_qs,
                   resultVars, dpc, reply, historyVars, queueVars>>

CloseRespondQ == /\ respondClosed' = TRUE
                 /\ UNCHANGED <<lbVars, requestQ, requestClosed, respondQ>>

DetachDispatcher ==
    /\ engine_handles' = <<>>
    /\ UNCHANGED <<unitVars, round_robin_idx, is_terminate_instance, subscribers,
                   cam_result_qs, resultVars, dispatchVars, historyVars, queueVars>>

JoinDispatcher ==
    /\ dpc = "exited"
    /\ engine_handles' = <<>>
    /\ UNCHANGED <<unitVars, round_robin_idx, is_terminate_instance, subscribers,
                   cam_result_qs, resultVars, dispatchVars, historyVars, queueVars>>
=============================================================================
