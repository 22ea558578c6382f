--------------------------- MODULE SettingService ---------------------------
(***************************************************************************)
(* How a change of settings on the server reaches the units, from the      *)
(* start of the process to its end: the main thread (main, Initialize,     *)
(* Run, Quit and the destructors), the network thread of the Socket.IO     *)
(* client, which runs the event binders and through them the callbacks of  *)
(* the units, the server (external), its database, the connection (the     *)
(* library reconnects by itself) and SIGINT.                               *)
(*                                                                         *)
(* The server sends an event after it has changed its rows; the handler    *)
(* asks for the rows with a REST call and hands them, camera by camera, to *)
(* the setting manager.  An event sent while nobody listens is lost.       *)
(***************************************************************************)
EXTENDS SettingManager, Sequences

CONSTANT MaxDisturbances \* bound on the changes of the server, the losses of the connection
                         \* and the loads that throw

ASSUME BoundsAssumption == MaxDisturbances \in Nat

VARIABLES
    main,             \* the stage of the main thread
    cam,              \* the unit its loops are at
    step,             \* where it is in that unit's Init
    exclude_data_opt, \* local variable of Init: what GetExcludeCamSetting returned
    loaded,           \* kinds whose manager exists
    unit,             \* life of each unit
    local,            \* exclude_setting_ and schedule_settings_ of each unit, without the
                      \* virtual lines that Init and the callback append to every value
    subscriptions,    \* active_subscriptions_ of each unit
    bound,            \* kinds whose event binder is registered
    conn,             \* the Socket.IO connection
    wire,             \* events sent and not yet handled
    sio,              \* the handler in progress on the network thread
    db,               \* the rows of the server
    disturbances,     \* changes, losses of the connection and loads that threw so far
    g_terminate_flag,
    missed,           \* history: cameras whose rows got lost on the way, by kind
    crashed           \* the process was ended by an exception or a freed object

mainVars   == <<main, cam, step, exclude_data_opt, loaded, unit, subscriptions>>
connVars   == <<bound, conn, wire>>
serverVars == <<db, disturbances>>
live == <<settings, mainVars, local, connVars, sio, serverVars, g_terminate_flag, missed>>
vars == <<live, crashed>>

NoOpt == MaxRows + 1 \* std::nullopt

Idle == [pc |-> "idle", kind |-> "exclude", todo |-> {}, code |-> "good",
         answer |-> [c \in Cams |-> 0], cam |-> 1, snapshot |-> 0]

Init == /\ settings = [k \in Kinds |-> [c \in Cams |-> NoSetter]]
        /\ main = "boot" /\ cam = 1 /\ step = "none" /\ exclude_data_opt = NoOpt
        /\ loaded = {} /\ bound = {} /\ conn = "none" /\ wire = <<>> /\ sio = Idle
        /\ unit = [c \in Cams |-> "none"]
        /\ local = [k \in Kinds |-> [c \in Cams |-> 0]]
        /\ subscriptions = [c \in Cams |-> {}]
        /\ db = [k \in Kinds |-> [c \in Cams |-> IF c = 1 THEN 1 ELSE 0]] \* one camera has rows
        /\ disturbances = 0
        /\ g_terminate_flag = FALSE
        /\ missed = [k \in Kinds |-> {}]
        /\ crashed = FALSE

\* exclude settings come before schedule settings everywhere
FirstNotIn(S) == IF "exclude" \notin S THEN "exclude" ELSE "schedule"

-----------------------------------------------------------------------------
(***************************************************************************)
(* The server (external): it changes the rows of some cameras, and the     *)
(* event reaches the client when it is connected and listens.  Changes     *)
(* before the settings are loaded are part of the initial rows, and what   *)
(* happens outside once the network is being closed is left out.           *)
(***************************************************************************)
Closing == {"close", "stopRtsp", "hung", "destroy", "exited"}

Serving == loaded # {} /\ main \notin Closing

Listening(k) == conn = "up" /\ k \in bound

ServerChange(k, S, rows) ==
    /\ disturbances < MaxDisturbances /\ Serving
    /\ \E c \in S : db[k][c] # rows
    /\ disturbances' = disturbances + 1
    /\ db' = [db EXCEPT ![k] = [c \in Cams |-> IF c \in S THEN rows ELSE @[c]]]
    /\ wire' = IF Listening(k) THEN Append(wire, [kind |-> k, cams |-> S]) ELSE wire
    /\ missed' = IF k \in loaded /\ ~Listening(k)
                 THEN [missed EXCEPT ![k] = @ \cup S] ELSE missed
    /\ UNCHANGED <<settings, mainVars, local, bound, conn, sio, g_terminate_flag>>

\* the cameras of kind k whose events are on the wire
OnWire(k) == UNION {wire[i].cams : i \in {j \in 1..Len(wire) : wire[j].kind = k}}

LoseWire == /\ wire' = <<>>
            /\ missed' = [k \in Kinds |-> missed[k] \cup OnWire(k)]

ConnectionDrops == /\ conn = "up" /\ disturbances < MaxDisturbances /\ Serving
                   /\ disturbances' = disturbances + 1
                   /\ conn' = "lost"
                   /\ LoseWire
                   /\ UNCHANGED <<settings, mainVars, local, bound, sio, db, g_terminate_flag>>

Reconnects == /\ conn = "lost" /\ Serving
              /\ conn' = "up"
              /\ UNCHANGED <<settings, mainVars, local, bound, wire, sio, serverVars,
                             g_terminate_flag, missed>>

-----------------------------------------------------------------------------
(***************************************************************************)
(* The network thread.  An event of a registered kind runs its binder; the *)
(* acknowledgement is sent before anything else is done.                   *)
(***************************************************************************)
BinderLookup == conn = "up" /\ sio.pc = "idle" /\ wire # <<>>

RecvEvent ==
    /\ BinderLookup
    /\ sio' = [Idle EXCEPT !.pc = "fetch", !.kind = Head(wire).kind, !.todo = Head(wire).cams]
    /\ wire' = Tail(wire)
    /\ UNCHANGED <<settings, mainVars, local, bound, conn, serverVars, g_terminate_flag, missed>>

(***************************************************************************)
(* event_binders is an unordered_map that the main thread inserts into     *)
(* without a lock while the network thread looks up: a lookup during the   *)
(* second insertion may miss the first entry, and the event is dropped     *)
(* before it is acknowledged.                                              *)
(***************************************************************************)
BinderNotFound ==
    /\ BinderLookup /\ main = "bind"
    /\ wire' = Tail(wire)
    /\ missed' = [missed EXCEPT ![Head(wire).kind] = @ \cup Head(wire).cams]
    /\ UNCHANGED <<settings, mainVars, local, bound, conn, sio, serverVars, g_terminate_flag>>

(***************************************************************************)
(* The REST call.  Any response code from 200 to 700 counts as an answer,  *)
(* and filterJsonArray makes an empty array of a body that is not an array *)
(* (an error message, or a body that could not be parsed).  Without a      *)
(* response, or when the event names no valid camera, nothing is updated;  *)
(* and neither when a row has a CameraId of the wrong type, for then       *)
(* filterJsonArray throws at the first camera.  Nothing in the program     *)
(* catches what a handler throws: the library (external) drops it with the *)
(* event, as here, or the process ends (ProcessEnds).                      *)
(***************************************************************************)
Fetched(code, answer) ==
    sio' = [sio EXCEPT !.pc = "next", !.code = code,
                       !.answer = [c \in Cams |-> IF c \in sio.todo THEN answer[c] ELSE 0]]

FetchRows == /\ sio.pc = "fetch"
             /\ Fetched("good", db[sio.kind])
             /\ missed' = [missed EXCEPT ![sio.kind] = @ \ sio.todo]
             /\ UNCHANGED <<settings, mainVars, local, connVars, serverVars, g_terminate_flag>>

FetchError == /\ sio.pc = "fetch"
              /\ Fetched("error", [c \in Cams |-> 0])
              /\ missed' = [missed EXCEPT ![sio.kind] = @ \cup sio.todo]
              /\ UNCHANGED <<settings, mainVars, local, connVars, serverVars, g_terminate_flag>>

FetchFails == /\ sio.pc = "fetch"
              /\ sio' = Idle
              /\ missed' = [missed EXCEPT ![sio.kind] = @ \cup sio.todo]
              /\ UNCHANGED <<settings, mainVars, local, connVars, serverVars, g_terminate_flag>>

(***************************************************************************)
(* Update of one camera: the data and its snapshot, the list of callbacks, *)
(* the calls, each outside the locks of the step before.                   *)
(***************************************************************************)
StaleApply(c) == \* mutant: the snapshot is taken before the update
    /\ sio.pc = "next" /\ c \in sio.todo
    /\ UpdateTargetUnit(sio.kind, c, sio.answer[c])
    /\ sio' = [sio EXCEPT !.pc = "collect", !.cam = c, !.snapshot = GetSetting(sio.kind, c)]
    /\ UNCHANGED <<mainVars, local, connVars, serverVars, g_terminate_flag, missed>>

Apply(c) ==
    /\ sio.pc = "next" /\ c \in sio.todo
    /\ UpdateTargetUnit(sio.kind, c, sio.answer[c])
    /\ sio' = [sio EXCEPT !.pc = "collect", !.cam = c,
                          !.snapshot = UpdateFromJson(sio.kind, sio.answer[c])]
    /\ UNCHANGED <<mainVars, local, connVars, serverVars, g_terminate_flag, missed>>

(***************************************************************************)
(* A schedule with a field of the wrong type throws out of the handler;    *)
(* the cameras that are left are not updated either.                       *)
(***************************************************************************)
ScheduleThrows(c) == /\ sio.pc = "next" /\ c \in sio.todo
                     /\ sio.kind = "schedule" /\ sio.answer[c] # 0

ApplyThrows(c) ==
    /\ ScheduleThrows(c)
    /\ UpdateThrows(sio.kind, c)
    /\ sio' = Idle
    /\ missed' = [missed EXCEPT ![sio.kind] = @ \cup sio.todo]
    /\ UNCHANGED <<mainVars, local, connVars, serverVars, g_terminate_flag>>

FirstOnlyUnitDone == sio' = Idle \* mutant: an event updates one camera

UnitDone ==
    LET rest == sio.todo \ {sio.cam}
    IN  sio' = IF rest = {} THEN Idle
               ELSE [sio EXCEPT !.pc = "next", !.todo = rest, !.answer[sio.cam] = 0,
                                !.cam = 1, !.snapshot = 0]

\* the unit has taken its first value of kind k
HasRead(k, c) ==
    \/ unit[c] = "initialized"
    \/ /\ main \in {"init", "start"} /\ cam = c
       /\ step \in {"setExclude", "readSchedule"} => k = "exclude"
       /\ step \in {"setExclude", "readSchedule", "subExclude", "subSchedule"}

CollectCallback ==
    /\ sio.pc = "collect"
    /\ settings[sio.kind][sio.cam].registered
    /\ sio' = [sio EXCEPT !.pc = "invoke"]
    /\ UNCHANGED <<settings, mainVars, local, connVars, serverVars, g_terminate_flag, missed>>

CollectNone ==
    /\ sio.pc = "collect"
    /\ ~settings[sio.kind][sio.cam].registered
    /\ UnitDone
    /\ missed' = IF HasRead(sio.kind, sio.cam)
                 THEN [missed EXCEPT ![sio.kind] = @ \cup {sio.cam}] ELSE missed
    /\ UNCHANGED <<settings, mainVars, local, connVars, serverVars, g_terminate_flag>>

InvokeCallback ==
    /\ sio.pc = "invoke"
    /\ local' = [local EXCEPT ![sio.kind][sio.cam] = sio.snapshot]
    /\ UnitDone
    /\ UNCHANGED <<settings, mainVars, connVars, serverVars, g_terminate_flag, missed>>

NetworkThread == \/ RecvEvent \/ BinderNotFound \/ FetchRows \/ FetchError \/ FetchFails
                 \/ (\E c \in Cams : Apply(c) \/ ApplyThrows(c))
                 \/ CollectCallback \/ CollectNone \/ InvokeCallback

-----------------------------------------------------------------------------
(***************************************************************************)
(* The main thread: Initialize.  "boot" stands for the profiles, the       *)
(* managers and the engines, "connect" also for gRPC, RTSP and the         *)
(* activation of the engines.  A stage that fails makes Initialize or Run  *)
(* return false, and main calls Quit.                                      *)
(***************************************************************************)
Boot == /\ main = "boot"
        /\ main' = "load"
        /\ UNCHANGED <<settings, cam, step, exclude_data_opt, loaded, unit, subscriptions, local,
                       connVars, sio, serverVars, g_terminate_flag, missed>>

LoadSettings ==
    LET k == FirstNotIn(loaded) IN
    /\ main = "load"
    /\ RenewAfterReset(k, db[k])
    /\ loaded' = loaded \cup {k}
    /\ main' = IF loaded' = Kinds THEN "connect" ELSE "load"
    /\ UNCHANGED <<cam, step, exclude_data_opt, unit, subscriptions, local, connVars, sio,
                   serverVars, g_terminate_flag, missed>>

(***************************************************************************)
(* A row of the answer throws: the stage succeeds with an empty manager.   *)
(***************************************************************************)
LoadThrows ==
    LET k == FirstNotIn(loaded) IN
    /\ main = "load" /\ disturbances < MaxDisturbances
    /\ RenewThrows(k)
    /\ disturbances' = disturbances + 1
    /\ missed' = [missed EXCEPT ![k] = @ \cup {c \in Cams : db[k][c] # 0}]
    /\ loaded' = loaded \cup {k}
    /\ main' = IF loaded' = Kinds THEN "connect" ELSE "load"
    /\ UNCHANGED <<cam, step, exclude_data_opt, unit, subscriptions, local, connVars, sio, db,
                   g_terminate_flag>>

ConnectSocketIO ==
    /\ main = "connect"
    /\ conn' = "up"
    /\ main' = "bind"
    /\ UNCHANGED <<settings, cam, step, exclude_data_opt, loaded, unit, subscriptions, local,
                   bound, wire, sio, serverVars, g_terminate_flag, missed>>

(***************************************************************************)
(* SocketIOEventBind, one event after the other; then BuildServiceUnit.    *)
(***************************************************************************)
BindEvent ==
    LET k == FirstNotIn(bound) IN
    /\ main = "bind"
    /\ bound' = bound \cup {k}
    /\ IF bound' = Kinds
       THEN /\ main' = "init" /\ step' = "getExclude"
            /\ unit' = [c \in Cams |-> "built"]
       ELSE UNCHANGED <<main, step, unit>>
    /\ UNCHANGED <<settings, cam, exclude_data_opt, loaded, subscriptions, local, conn, wire,
                   sio, serverVars, g_terminate_flag, missed>>

StageFails ==
    /\ main \in {"boot", "load", "connect", "bind", "run"}
    /\ main' = "quit"
    /\ UNCHANGED <<settings, cam, step, exclude_data_opt, loaded, unit, subscriptions, local,
                   connVars, sio, serverVars, g_terminate_flag, missed>>

-----------------------------------------------------------------------------
(***************************************************************************)
(* The loops of RtspDetectorBlock::Init and Start over the units.  Start   *)
(* initialises again a unit whose Init has failed.  One unit is enough.    *)
(***************************************************************************)
InLoop == main \in {"init", "start"}

NextUnit(units) ==
    /\ step' = "getExclude"
    /\ IF cam < NumCams
       THEN cam' = cam + 1 /\ UNCHANGED main
       ELSE /\ cam' = 1
            /\ main' = CASE \A c \in Cams : units[c] = "built" -> "quit"
                         [] main = "init" -> "run"
                         [] OTHER -> "wait"

UnitInitFails ==
    /\ InLoop /\ unit[cam] = "built" /\ step = "getExclude"
    /\ NextUnit(unit)
    /\ UNCHANGED <<settings, exclude_data_opt, loaded, unit, subscriptions, local, connVars, sio,
                   serverVars, g_terminate_flag, missed>>

GetExclude ==
    /\ InLoop /\ unit[cam] = "built" /\ step = "getExclude"
    /\ exclude_data_opt' = IF HasSetting("exclude", cam) THEN GetSetting("exclude", cam) ELSE NoOpt
    /\ step' = "setExclude"
    /\ UNCHANGED <<settings, main, cam, loaded, unit, subscriptions, local, connVars, sio,
                   serverVars, g_terminate_flag, missed>>

SetExclude ==
    /\ InLoop /\ step = "setExclude"
    /\ local' = IF exclude_data_opt = NoOpt THEN local
                ELSE [local EXCEPT !["exclude"][cam] = exclude_data_opt]
    /\ exclude_data_opt' = NoOpt
    /\ step' = "readSchedule"
    /\ UNCHANGED <<settings, main, cam, loaded, unit, subscriptions, connVars, sio, serverVars,
                   g_terminate_flag, missed>>

\* the unit's mutex is held from the read to the assignment
ReadSchedule ==
    /\ InLoop /\ step = "readSchedule"
    /\ local' = IF HasSetting("schedule", cam)
                THEN [local EXCEPT !["schedule"][cam] = GetSetting("schedule", cam)] ELSE local
    /\ step' = "subExclude"
    /\ UNCHANGED <<settings, main, cam, exclude_data_opt, loaded, unit, subscriptions, connVars,
                   sio, serverVars, g_terminate_flag, missed>>

SubscribeSetting(k) ==
    /\ RegisterCallback(k, cam)
    /\ subscriptions' = [subscriptions EXCEPT ![cam] = @ \cup {k}]

SubscribeExclude ==
    /\ InLoop /\ step = "subExclude"
    /\ SubscribeSetting("exclude")
    /\ step' = "subSchedule"
    /\ UNCHANGED <<main, cam, exclude_data_opt, loaded, unit, local, connVars, sio, serverVars,
                   g_terminate_flag, missed>>

SubscribeSchedule ==
    /\ InLoop /\ step = "subSchedule"
    /\ SubscribeSetting("schedule")
    /\ unit' = [unit EXCEPT ![cam] = "initialized"]
    /\ NextUnit(unit')
    /\ UNCHANGED <<exclude_data_opt, loaded, local, connVars, sio, serverVars, g_terminate_flag,
                   missed>>


RunRTSP ==
    /\ main = "run"
    /\ main' = "start"
    /\ UNCHANGED <<settings, cam, step, exclude_data_opt, loaded, unit, subscriptions, local,
                   connVars, sio, serverVars, g_terminate_flag, missed>>

StartUnit ==
    /\ main = "start" /\ unit[cam] = "initialized"
    /\ NextUnit(unit)
    /\ UNCHANGED <<settings, exclude_data_opt, loaded, unit, subscriptions, local, connVars, sio,
                   serverVars, g_terminate_flag, missed>>

-----------------------------------------------------------------------------
(***************************************************************************)
(* WaitUntilQuitSignal and Quit.  Engines, load balancer and units stop    *)
(* first (module InferenceService); the units stay alive.  CloseNetworkAll *)
(* then runs TerminateSocketIO, where sync_close joins the network thread  *)
(* and so waits for the handler in progress; StopRTSP; CloseGrpcClients.   *)
(***************************************************************************)
WaitUntilQuitSignal ==
    /\ main = "wait" /\ g_terminate_flag
    /\ main' = "quit"
    /\ UNCHANGED <<settings, cam, step, exclude_data_opt, loaded, unit, subscriptions, local,
                   connVars, sio, serverVars, g_terminate_flag, missed>>

QuitService ==
    /\ main = "quit"
    /\ main' = "close"
    /\ UNCHANGED <<settings, cam, step, exclude_data_opt, loaded, unit, subscriptions, local,
                   connVars, sio, serverVars, g_terminate_flag, missed>>

AsyncTerminateSocketIO == \* mutant: close instead of sync_close
    /\ main = "close"
    /\ conn' = "closed"
    /\ LoseWire
    /\ main' = "stopRtsp"
    /\ UNCHANGED <<settings, cam, step, exclude_data_opt, loaded, unit, subscriptions, local,
                   bound, sio, serverVars, g_terminate_flag>>

TerminateSocketIO ==
    /\ main = "close" /\ sio.pc = "idle"
    /\ conn' = "closed"
    /\ LoseWire
    /\ main' = "stopRtsp"
    /\ UNCHANGED <<settings, cam, step, exclude_data_opt, loaded, unit, subscriptions, local,
                   bound, sio, serverVars, g_terminate_flag>>

(***************************************************************************)
(* StopRTSP joins the threads of every client and stops the proxy server   *)
(* (modules RtspClient and RtspProxy).  The threads of an initialised unit *)
(* start a client; its Stop may never return, when the quit of the         *)
(* receiver's loop is lost, or end the process.  CloseGrpcClients catches  *)
(* what the clients throw and always returns.                              *)
(***************************************************************************)
HasClient == \E c \in Cams : unit[c] = "initialized"

StopRTSP ==
    /\ main = "stopRtsp"
    /\ \/ main' = "destroy" /\ cam' = 1
       \/ HasClient /\ main' = "hung" /\ UNCHANGED cam
    /\ UNCHANGED <<settings, step, exclude_data_opt, loaded, unit, subscriptions, local,
                   connVars, sio, serverVars, g_terminate_flag, missed>>

(***************************************************************************)
(* ~RtspDetectorUnit: ClearAllSubscriptions, then the members.             *)
(***************************************************************************)
ClearSubscription(k) ==
    /\ main = "destroy" /\ k \in subscriptions[cam]
    /\ UnregisterCallback(k, cam)
    /\ subscriptions' = [subscriptions EXCEPT ![cam] = @ \ {k}]
    /\ UNCHANGED <<main, cam, step, exclude_data_opt, loaded, unit, local, connVars, sio,
                   serverVars, g_terminate_flag, missed>>

DestroyUnit ==
    /\ main = "destroy" /\ subscriptions[cam] = {}
    /\ unit' = [unit EXCEPT ![cam] = IF @ = "none" THEN @ ELSE "destroyed"]
    /\ IF cam < NumCams THEN cam' = cam + 1 /\ UNCHANGED main
                        ELSE main' = "exited" /\ UNCHANGED cam
    /\ UNCHANGED <<settings, step, exclude_data_opt, loaded, subscriptions, local, connVars, sio,
                   serverVars, g_terminate_flag, missed>>

MainThread ==
    \/ Boot \/ LoadSettings \/ LoadThrows \/ ConnectSocketIO \/ BindEvent \/ StageFails
    \/ UnitInitFails \/ GetExclude \/ SetExclude \/ ReadSchedule
    \/ SubscribeExclude \/ SubscribeSchedule \/ RunRTSP \/ StartUnit
    \/ WaitUntilQuitSignal \/ QuitService
    \/ TerminateSocketIO \/ StopRTSP
    \/ (\E k \in Kinds : ClearSubscription(k)) \/ DestroyUnit

(***************************************************************************)
(* SIGINT.  While the program loads the first five are ignored, which      *)
(* changes nothing here; from the sixth on, and later from the first, the  *)
(* flag is set.                                                            *)
(***************************************************************************)
ExitSignalHandler ==
    /\ main # "exited" /\ ~g_terminate_flag
    /\ g_terminate_flag' = TRUE
    /\ UNCHANGED <<settings, mainVars, local, connVars, sio, serverVars, missed>>

Environment ==
    \/ \E k \in Kinds, S \in (SUBSET Cams) \ {{}}, rows \in Rows : ServerChange(k, S, rows)
    \/ ConnectionDrops \/ Reconnects
    \/ ExitSignalHandler

Moves == NetworkThread \/ MainThread \/ Environment

(***************************************************************************)
(* The process ends at once: a lookup of a binder meets the insertion      *)
(* (BinderNotFound), nobody catches what a handler throws, or StopRTSP     *)
(* meets a callback of a receiver that is gone.                            *)
(***************************************************************************)
ProcessEnds ==
    /\ ~crashed
    /\ \/ BinderLookup /\ main = "bind"
       \/ sio.pc = "fetch"
       \/ \E c \in Cams : ScheduleThrows(c)
       \/ main = "stopRtsp" /\ HasClient
    /\ crashed' = TRUE
    /\ UNCHANGED live

Alive(A) == A /\ ~crashed /\ UNCHANGED crashed

Next == Alive(Moves) \/ ProcessEnds

Spec == Init /\ [][Next]_vars

(***************************************************************************)
(* Both threads keep running: the REST call and the connection attempt     *)
(* have time limits, and the locks are held for a few instructions; where  *)
(* StopRTSP may wait for good it has a stage of its own.  Nothing is       *)
(* assumed of the server, the connection and the operator.                 *)
(***************************************************************************)
FairSpec == Spec /\ WF_vars(Alive(NetworkThread)) /\ WF_vars(Alive(MainThread))

-----------------------------------------------------------------------------
Events == [kind: Kinds, cams: (SUBSET Cams) \ {{}}]

(***************************************************************************)
(* Every variable keeps its type, and the counters their bounds.           *)
(***************************************************************************)
TypeOK ==
    /\ settings \in [Kinds -> [Cams -> Setter]]
    /\ main \in {"boot", "load", "connect", "bind", "init", "run", "start", "wait", "quit",
                 "close", "stopRtsp", "hung", "destroy", "exited"}
    /\ cam \in Cams
    /\ step \in {"none", "getExclude", "setExclude", "readSchedule", "subExclude", "subSchedule"}
    /\ exclude_data_opt \in Rows \cup {NoOpt}
    /\ loaded \subseteq Kinds /\ bound \subseteq Kinds
    /\ unit \in [Cams -> {"none", "built", "initialized", "destroyed"}]
    /\ local \in [Kinds -> [Cams -> Rows]]
    /\ subscriptions \in [Cams -> SUBSET Kinds]
    /\ conn \in {"none", "up", "lost", "closed"}
    /\ wire \in Seq(Events)
    /\ sio \in [pc: {"idle", "fetch", "next", "collect", "invoke"}, kind: Kinds,
                todo: SUBSET Cams, code: {"good", "error"}, answer: [Cams -> Rows],
                cam: Cams, snapshot: Rows]
    /\ db \in [Kinds -> [Cams -> Rows]]
    /\ disturbances \in 0..MaxDisturbances
    /\ g_terminate_flag \in BOOLEAN
    /\ missed \in [Kinds -> SUBSET Cams]
    /\ crashed \in BOOLEAN

\* the unit of camera c does not have the rows of the server
Behind(k, c) == local[k][c] # UpdateFromJson(k, db[k][c])

\* an event about camera c is on its way or being handled
Pending(k, c) == \/ c \in OnWire(k)
                 \/ sio.pc # "idle" /\ sio.kind = k /\ c \in sio.todo

(***************************************************************************)
(* When nothing is on its way, a unit has the rows of the server, whatever *)
(* the order of changes, events, REST answers and the unit's own Init,     *)
(* unless the rows of that camera were lost in one of seven ways: the load *)
(* threw on some row, no one listened, the binder was not found, no answer *)
(* came, the answer was an error, the handler threw, or the callback was   *)
(* not registered yet although the unit had taken its first value (Init    *)
(* reads before it subscribes, RtspDetectorUnit.cpp:440-483).              *)
(***************************************************************************)
Converged == \A k \in Kinds, c \in Cams :
                 (unit[c] = "initialized" /\ c \notin missed[k] /\ ~Pending(k, c)) => ~Behind(k, c)

(***************************************************************************)
(* No callback runs on a unit that has been destroyed: the order of Quit   *)
(* protects the [this] of the callbacks, for the list of callbacks is      *)
(* copied before they are called and unregistering does not wait for them. *)
(* And the setting manager, a static object that outlives the units, holds *)
(* none of them when the program ends, however far Initialize got.         *)
(***************************************************************************)
NoDanglingCallback ==
    /\ sio.pc = "invoke" => unit[sio.cam] # "destroyed"
    /\ main = "exited" => /\ \A k \in Kinds, c \in Cams : ~settings[k][c].registered
                          /\ sio.pc = "idle"

\* some unit is behind although no change was lost
Late == \E k \in Kinds, c \in Cams :
            unit[c] = "initialized" /\ c \notin missed[k] /\ Behind(k, c)

(***************************************************************************)
(* The server makes finitely many changes, and then every unit gets the    *)
(* rows it is behind with, unless the change is lost or the process ends:  *)
(* no event stays on the wire or in the handler.                           *)
(***************************************************************************)
UpdatesReachUnits == Late ~> (~Late \/ crashed)


(***************************************************************************)
(* What the comments expect: an empty array means that the schedules were  *)
(* deleted, and a failed answer can be told from an empty one.  So the     *)
(* schedules of a unit vanish only through an answer with rows.            *)
(***************************************************************************)
ErrorErasesNothing ==
    [][\A c \in Cams : (local["schedule"][c] # 0 /\ local'["schedule"][c] = 0)
                           => sio.code = "good"]_vars
=============================================================================
