--------------------------- MODULE GrpcEventServer ---------------------------
(***************************************************************************)
(* GrpcEventServerBase with its unary handlers, composed with the reply    *)
(* dispatcher.  A handler object listens for one call of its RPC, serves   *)
(* it and goes; its address is the tag of its operations in the completion *)
(* queue.  Two threads take tags: the runner, and during Stop the thread   *)
(* that stops the server.  A request with a uuid is answered by a detached *)
(* thread that waits in the dispatcher.                                    *)
(* The owner of the server may connect a service to it before Run (the     *)
(* queues and the dispatchers of SetRequestEvent...Queues) or not;         *)
(* DETECTOR.cpp does not, and then the detached thread ends the process.   *)
(* The gRPC library is external: Shutdown returns when every call it has   *)
(* matched is answered, an operation of a server that is shut down comes   *)
(* back with ok = false, and Next returns false once the queue is shut     *)
(* down and has no operation left.                                         *)
(***************************************************************************)
EXTENDS ReplyDispatcher, FiniteSets

CONSTANT MaxCalls       \* bound: the calls that clients make

Calls == 1..MaxCalls    \* numbered in the order in which they are made

Rpcs == {"Send", "Request"}
Bad == 0                \* the uuid of a request, empty or not valid
Event == -1             \* in place of a uuid: the call is an event
Unset == -2             \* the call is not made yet

\* Uuids are numbered in the order of their first use.
ASSUME CallsAssumption ==
  /\ MaxCalls \in Nat
  /\ Uuids \subseteq Nat \ {0}
  /\ \A u \in Uuids : 1..u \subseteq Uuids

VARIABLES
  uuid,                 \* what each call carries, Unset before it is made
  answer,               \* the status each call got: "none" before
  obj,                  \* the handler objects ever made: rpc, status_, call
  alive,                \* alive_handlers_
  listening,            \* objects whose request operation waits in gRPC
  cq,                   \* the completion queue: tag and ok
  serverUp, cqShut, running,
  cur,                  \* the object whose Proceed a thread is in, 0 for none
  rpc,                  \* the runner: "loop" or "exited"
  mpc,                  \* the thread that stops the server
  waiter,               \* the detached threads: object, step, entry, result
  inQ,                  \* calls handed to the service through in_queue
  writer,               \* a set_reply under way: call and entry, or << >>
  connected,            \* the in_queue and the dispatcher were set before Run
  crashed               \* the process ended at a null dispatcher

grpcVars == <<uuid, answer, obj, alive, listening, cq>>
threadVars == <<serverUp, cqShut, running, cur, rpc, mpc>>
serviceVars == <<inQ, writer>>
ownerVars == <<connected, crashed>>
vars == <<dispatcherVars, grpcVars, threadVars, serviceVars, waiter, ownerVars>>

NoCall == 0
Threads == {"runner", "main"}
RpcOf(c) == IF uuid[c] = Event THEN "Send" ELSE "Request"
Tag(i, ok) == [tag |-> i, ok |-> ok]

Listener(r) == [rpc |-> r, status |-> "PROCESS", call |-> NoCall]

\* Run: one object per RPC is created, registered and made to listen, with
\* the queue and the dispatcher it has by then, and the runner starts.
Init ==
  /\ DispatcherInit
  /\ uuid = [c \in Calls |-> Unset]
  /\ answer = [c \in Calls |-> "none"]
  /\ obj = << Listener("Send"), Listener("Request") >>
  /\ alive = {1, 2}
  /\ listening = {1, 2}
  /\ cq = {}
  /\ serverUp = TRUE /\ cqShut = FALSE /\ running = TRUE
  /\ cur = [t \in Threads |-> 0]
  /\ rpc = "loop" /\ mpc = "up"
  /\ waiter = {}
  /\ inQ = {} /\ writer = << >>
  /\ connected \in BOOLEAN /\ crashed = FALSE

------------------------------------------------------------------------------
\* gRPC and the clients (external).

\* A client makes a call; a server that is shut down refuses it.
Call(c) ==
  /\ uuid[c] = Unset
  /\ \A d \in 1..(c - 1) : uuid[d] # Unset
  /\ \E u \in Uuids \cup {Bad, Event} :
       /\ u > 1 => \E d \in Calls : uuid[d] = u - 1
       /\ uuid' = [uuid EXCEPT ![c] = u]
  /\ answer' = IF serverUp THEN answer ELSE [answer EXCEPT ![c] = "UNAVAILABLE"]
  /\ UNCHANGED <<obj, alive, listening, cq, dispatcherVars, threadVars,
                 serviceVars, waiter>>

Matched(c) == \E i \in DOMAIN obj : obj[i].call = c

\* A call meets an object that listens for it.
Match(c) ==
  /\ serverUp
  /\ uuid[c] # Unset
  /\ ~Matched(c)
  /\ \E i \in listening :
       /\ obj[i].rpc = RpcOf(c)
       /\ listening' = listening \ {i}
       /\ obj' = [obj EXCEPT ![i].call = c]
       /\ cq' = cq \cup {Tag(i, TRUE)}
  /\ UNCHANGED <<uuid, answer, alive, dispatcherVars, threadVars, serviceVars,
                 waiter>>

\* responder_.Finish: the status goes out and the tag comes back.
Finish(i, status) ==
  /\ answer' = [answer EXCEPT ![obj[i].call] = status]
  /\ cq' = cq \cup {Tag(i, TRUE)}

------------------------------------------------------------------------------
\* Proceed, called with a tag by the runner or by the stopping thread.

MayTake(t) ==
  /\ cur[t] = 0
  /\ t = "runner" => rpc = "next"
  /\ t = "main" => mpc = "drain"

AfterProceed(t) == rpc' = IF t = "runner" THEN "loop" ELSE rpc

\* TryUnregister: the registry gives up the object.
Unregister(t) ==
  \E e \in cq :
    /\ MayTake(t)
    /\ obj[e.tag].status = "FINISH" \/ ~e.ok
    /\ cq' = cq \ {e}
    /\ alive' = alive \ {e.tag}
    /\ AfterProceed(t)
    /\ UNCHANGED <<uuid, answer, obj, listening, dispatcherVars, serverUp,
                   cqShut, running, cur, mpc, serviceVars, waiter>>

\* The first half of PROCESS: CreateAndRegister makes the next object of
\* the RPC and lets it listen.
CreateAndRegister(t) ==
  \E e \in cq :
    LET next == Len(obj) + 1
    IN  /\ MayTake(t)
        /\ obj[e.tag].status = "PROCESS" /\ e.ok
        /\ obj' = Append(obj, Listener(obj[e.tag].rpc))
        /\ alive' = alive \cup {next}
        /\ IF serverUp
           THEN /\ listening' = listening \cup {next}
                /\ cq' = cq \ {e}
           ELSE /\ cq' = (cq \ {e}) \cup {Tag(next, FALSE)}
                /\ UNCHANGED listening
        /\ cur' = [cur EXCEPT ![t] = e.tag]
        /\ UNCHANGED <<uuid, answer, dispatcherVars, serverUp, cqShut, running,
                       rpc, mpc, serviceVars, waiter>>

\* if( in_queue_ ) enqueue
HandOver(c) == inQ' = IF connected THEN inQ \cup {c} ELSE inQ

\* The second half, fire and forget: queue, post-processor, Finish.
ServeDirect(t) ==
  LET i == cur[t]
  IN  /\ i # 0 /\ obj[i].rpc = "Send"
      /\ HandOver(obj[i].call)
      /\ obj' = [obj EXCEPT ![i].status = "FINISH"]
      /\ Finish(i, "OK")
      /\ cur' = [cur EXCEPT ![t] = 0]
      /\ AfterProceed(t)
      /\ UNCHANGED <<uuid, alive, listening, dispatcherVars, serverUp, cqShut,
                     running, mpc, writer, waiter>>

\* A plausible bug: the early return comes before Finish.
MuteRefuseUuid(t) ==
  LET i == cur[t]
  IN  /\ i # 0 /\ obj[i].rpc = "Request" /\ uuid[obj[i].call] = Bad
      /\ obj' = [obj EXCEPT ![i].status = "FINISH"]
      /\ cur' = [cur EXCEPT ![t] = 0]
      /\ AfterProceed(t)
      /\ UNCHANGED <<uuid, answer, cq, alive, listening, dispatcherVars,
                     serverUp, cqShut, running, mpc, serviceVars, waiter>>

\* The second half of a request whose uuid is missing or not valid.
RefuseUuid(t) ==
  LET i == cur[t]
  IN  /\ i # 0 /\ obj[i].rpc = "Request" /\ uuid[obj[i].call] = Bad
      /\ obj' = [obj EXCEPT ![i].status = "FINISH"]
      /\ Finish(i, "INVALID_ARGUMENT")
      /\ cur' = [cur EXCEPT ![t] = 0]
      /\ AfterProceed(t)
      /\ UNCHANGED <<uuid, alive, listening, dispatcherVars, serverUp, cqShut,
                     running, mpc, serviceVars, waiter>>

\* The second half of any other request: hand it to the service, if there is
\* one, and start a thread that waits for the reply.
StartWaiter(t) ==
  LET i == cur[t]
  IN  /\ i # 0 /\ obj[i].rpc = "Request" /\ uuid[obj[i].call] # Bad
      /\ HandOver(obj[i].call)
      /\ waiter' = waiter \cup
           {[self |-> i, at |-> "find", entry |-> 0, result |-> None]}
      /\ cur' = [cur EXCEPT ![t] = 0]
      /\ AfterProceed(t)
      /\ UNCHANGED <<grpcVars, dispatcherVars, serverUp, cqShut, running, mpc,
                     writer>>

------------------------------------------------------------------------------
\* The detached thread: wait_and_get, status_, Finish.

Step(w, v) == waiter' = (waiter \ {w}) \cup v
UuidOf(w) == uuid[obj[w.self].call]

WaitFind(w) ==
  /\ connected
  /\ w.at = "find"
  /\ FindForWaiter(UuidOf(w))
  /\ Step(w, {[w EXCEPT !.at = "wait", !.entry = table'[UuidOf(w)]]})
  /\ UNCHANGED <<grpcVars, threadVars, serviceVars>>

\* dispatcher_inst is null and is dereferenced all the same.
NullDispatcher(w) ==
  /\ ~connected
  /\ w.at = "find"
  /\ crashed' = TRUE
  /\ UNCHANGED <<dispatcherVars, grpcVars, threadVars, serviceVars, waiter>>

WaitTake(w) ==
  /\ w.at = "wait"
  /\ HasValue(w.entry)
  /\ MoveOut(w.entry)
  /\ Step(w, {[w EXCEPT !.at = "erase", !.result = entry[w.entry]]})
  /\ UNCHANGED <<grpcVars, threadVars, serviceVars>>

\* After three seconds; the entry stays in the table.
WaitTimeout(w) ==
  /\ w.at = "wait"
  /\ ~HasValue(w.entry)
  /\ Step(w, {[w EXCEPT !.at = "finish"]})
  /\ UNCHANGED <<dispatcherVars, grpcVars, threadVars, serviceVars>>

WaitErase(w) ==
  /\ w.at = "erase"
  /\ EraseEntry(UuidOf(w))
  /\ Step(w, {[w EXCEPT !.at = "finish"]})
  /\ UNCHANGED <<grpcVars, threadVars, serviceVars>>

\* A plausible bug: Finish comes first, and the runner is faster than the
\* assignment.
LateStatusWaiterFinish(w) ==
  /\ w.at = "finish"
  /\ Finish(w.self, IF w.result = None THEN "DEADLINE_EXCEEDED" ELSE "OK")
  /\ Step(w, {[w EXCEPT !.at = "gone"]})
  /\ UNCHANGED <<uuid, obj, alive, listening, dispatcherVars, threadVars,
                 serviceVars>>

\* status_ is set before Finish: from then on the runner may use the object.
WaiterFinish(w) ==
  /\ w.at = "finish"
  /\ obj' = [obj EXCEPT ![w.self].status = "FINISH"]
  /\ Finish(w.self, IF w.result = None THEN "DEADLINE_EXCEEDED" ELSE "OK")
  /\ Step(w, {[w EXCEPT !.at = "gone"]})
  /\ UNCHANGED <<uuid, alive, listening, dispatcherVars, threadVars,
                 serviceVars>>

------------------------------------------------------------------------------
\* The service that answers requests (external): at most one set_reply for
\* each request it was handed.  The cleaner of the dispatcher.

Replied == {entry[e] : e \in DOMAIN entry} \cup {w.result : w \in waiter}

ReplyFind(c) ==
  /\ writer = << >>
  /\ c \in inQ /\ RpcOf(c) = "Request"
  /\ FindOrMake(uuid[c])
  /\ inQ' = inQ \ {c}
  /\ writer' = << c, table'[uuid[c]] >>
  /\ UNCHANGED <<grpcVars, threadVars, waiter>>

ReplyWrite ==
  /\ writer # << >>
  /\ WriteReply(writer[2], writer[1])
  /\ writer' = << >>
  /\ UNCHANGED <<grpcVars, threadVars, inQ, waiter>>

Unique(c) == \A d \in Calls \ {c} : uuid[d] # uuid[c]

\* An entry is made by the first step of a call's wait or of its reply and
\* expires after 30 s, while a wait ends after 3 s.  So an entry is too young
\* as long as the only call of its uuid is being answered; one that an
\* earlier call of the same uuid left behind may go at any time.
TooYoung(u) ==
  \/ \E w \in waiter : /\ w.at \in {"find", "wait"}
                       /\ UuidOf(w) = u /\ Unique(obj[w.self].call)
  \/ writer # << >> /\ uuid[writer[1]] = u /\ Unique(writer[1])

Expire ==
  \E u \in Pending :
    /\ ~TooYoung(u)
    /\ RemoveExpired({table[u]})
    /\ UNCHANGED <<grpcVars, threadVars, serviceVars, waiter>>

------------------------------------------------------------------------------
\* HandleRpcsRunner, and Stop.

RunnerLoop ==
  /\ rpc = "loop" /\ cur["runner"] = 0
  /\ rpc' = IF running THEN "next" ELSE "exited"
  /\ UNCHANGED <<grpcVars, dispatcherVars, serverUp, cqShut, running, cur, mpc,
                 serviceVars, waiter>>

NextReturnsFalse == cqShut /\ cq = {} /\ listening = {}

RunnerNextFalse ==
  /\ rpc = "next" /\ cur["runner"] = 0
  /\ NextReturnsFalse
  /\ rpc' = "loop"
  /\ UNCHANGED <<grpcVars, dispatcherVars, serverUp, cqShut, running, cur, mpc,
                 serviceVars, waiter>>

\* server_->Shutdown(): objects that listen get their tag back, calls that
\* were not matched are refused.
ShutdownBegin ==
  /\ mpc = "up"
  /\ mpc' = "shutdown"
  /\ serverUp' = FALSE
  /\ listening' = {}
  /\ cq' = cq \cup {Tag(i, FALSE) : i \in listening}
  /\ answer' = [c \in Calls |-> IF uuid[c] # Unset /\ ~Matched(c)
                                THEN "UNAVAILABLE" ELSE answer[c]]
  /\ UNCHANGED <<uuid, obj, alive, dispatcherVars, cqShut, running, cur, rpc,
                 serviceVars, waiter>>

AllAnswered == \A c \in Calls : Matched(c) => answer[c] # "none"

\* A plausible bug: Shutdown with a deadline that has passed.
HastyShutdownReturns ==
  /\ mpc = "shutdown"
  /\ mpc' = "closer"
  /\ running' = FALSE
  /\ UNCHANGED <<grpcVars, dispatcherVars, serverUp, cqShut, cur, rpc,
                 serviceVars, waiter>>

\* Shutdown returns, and SafeThread::Stop clears the flag.
ShutdownReturns ==
  /\ mpc = "shutdown"
  /\ AllAnswered
  /\ mpc' = "closer"
  /\ running' = FALSE
  /\ UNCHANGED <<grpcVars, dispatcherVars, serverUp, cqShut, cur, rpc,
                 serviceVars, waiter>>

\* A plausible bug: the queue is drained but not shut down.
OpenCloserShutdown ==
  /\ mpc = "closer"
  /\ mpc' = "drain"
  /\ UNCHANGED <<grpcVars, dispatcherVars, serverUp, cqShut, running, cur, rpc,
                 serviceVars, waiter>>

\* HandleRpcsCloser: cq_->Shutdown(), then DrainCompletionQueue.
CloserShutdown ==
  /\ mpc = "closer"
  /\ mpc' = "drain"
  /\ cqShut' = TRUE
  /\ UNCHANGED <<grpcVars, dispatcherVars, serverUp, running, cur, rpc,
                 serviceVars, waiter>>

DrainEnds ==
  /\ mpc = "drain" /\ cur["main"] = 0
  /\ NextReturnsFalse
  /\ mpc' = "join"
  /\ UNCHANGED <<grpcVars, dispatcherVars, serverUp, cqShut, running, cur, rpc,
                 serviceVars, waiter>>

\* join, then ClearAllHandlers.
JoinAndClear ==
  /\ mpc = "join" /\ rpc = "exited"
  /\ mpc' = "stopped"
  /\ alive' = {}
  /\ UNCHANGED <<uuid, answer, obj, listening, cq, dispatcherVars, serverUp,
                 cqShut, running, cur, rpc, serviceVars, waiter>>

------------------------------------------------------------------------------
Proceed(t) ==
  \/ Unregister(t) \/ CreateAndRegister(t) \/ ServeDirect(t) \/ RefuseUuid(t)
  \/ StartWaiter(t)

Waiting ==
  \E w \in waiter : \/ WaitFind(w) \/ WaitTake(w) \/ WaitTimeout(w)
                    \/ WaitErase(w) \/ WaiterFinish(w)

Runner == RunnerLoop \/ RunnerNextFalse

StopRest == ShutdownReturns \/ CloserShutdown \/ DrainEnds \/ JoinAndClear

Finished ==
  /\ mpc = "stopped" \/ crashed
  /\ UNCHANGED vars

ServerAction ==
  \/ \E c \in Calls : Call(c) \/ Match(c) \/ ReplyFind(c)
  \/ \E t \in Threads : Proceed(t)
  \/ Waiting \/ ReplyWrite \/ Expire
  \/ Runner \/ ShutdownBegin \/ StopRest

\* A step of the process as long as there is one.
Alive(A) == A /\ ~crashed /\ UNCHANGED ownerVars

ProcessEnds ==
  /\ ~crashed
  /\ \E w \in waiter : NullDispatcher(w)
  /\ UNCHANGED connected

Next == Alive(ServerAction) \/ ProcessEnds \/ Finished

Spec == Init /\ [][Next]_vars

\* Threads are scheduled, gRPC matches calls, waits end after three seconds.
\* Nobody has to make a call, to reply or to stop the server.
FairSpec ==
  /\ Spec
  /\ WF_vars(Alive(\E c \in Calls : Match(c)))
  /\ \A t \in Threads : WF_vars(Alive(Proceed(t)))
  /\ WF_vars(Alive(Waiting))
  /\ WF_vars(ProcessEnds)
  /\ WF_vars(Alive(Runner))
  /\ WF_vars(Alive(StopRest))

------------------------------------------------------------------------------
\* While the server is up every RPC has exactly one object that listens or
\* has been matched and is about to make its successor: two would take calls
\* twice over, none would leave the RPC dead (GrpcUnaryHandler.h, Proceed).
OneListener ==
  serverUp =>
    \A r \in Rpcs :
      Cardinality({i \in DOMAIN obj :
                     /\ obj[i].rpc = r
                     /\ i \in listening \/ ( /\ obj[i].status = "PROCESS"
                                             /\ Tag(i, TRUE) \in cq)}) = 1

\* A tag in the queue, or an operation that will produce one, is the address
\* of an object that somebody keeps alive; once the queue is shut down no
\* thread is left that would start an operation on it; and when Stop returns
\* no tag is left behind (GrpcEventServerBase.cpp, Stop).
TagsAreLive ==
  /\ \A e \in cq : e.tag \in alive \/ \E w \in waiter : w.self = e.tag
  /\ listening \subseteq alive
  /\ cqShut => /\ cur = [t \in Threads |-> 0]
               /\ \A w \in waiter : w.at = "gone"
  /\ mpc = "stopped" => cq = {} /\ listening = {}

\* Replies meet their requests: a reply answers at most one call, one of its
\* uuid; a call whose uuid no other call used is never answered with a value
\* that was moved away; and if its reply has been written, whether before or
\* after its thread came to wait, the entry on which that thread waits has
\* it (ReplyDispatcher.h, set_reply and wait_and_get).
RepliesMeetRequests ==
  /\ \A v, w \in waiter :
       v # w /\ v.result \in Calls => v.result # w.result
  /\ \A w \in waiter :
       LET c == obj[w.self].call
       IN  /\ w.result \in Calls => uuid[w.result] = uuid[c]
           /\ Unique(c) => w.result # Moved
           /\ Unique(c) /\ w.at = "wait" /\ c \in Replied
                => entry[w.entry] = c

\* How the process ends: no dispatcher was set, and somebody made a request
\* with a valid uuid.
NoDispatcher == crashed /\ ~connected /\ \E c \in Calls : uuid[c] \in Uuids

\* Every call that is made is answered, with or without a reply, also when
\* the server is stopped meanwhile (the 3 s limit of GrpcEventServerBase.cpp
\* line 136), unless a request finds no dispatcher.
CallsAnswered ==
  \A c \in Calls :
    uuid[c] # Unset ~> answer[c] # "none" \/ NoDispatcher

\* Stop returns, wherever the runner and the waiting threads are, unless a
\* request finds no dispatcher.
ServerStopEnds == mpc = "shutdown" ~> mpc = "stopped" \/ NoDispatcher
==============================================================================
