------------------------ MODULE SettingServiceProofs ------------------------
(***************************************************************************)
(* Proofs about SettingService, for any number of cameras, contents of the *)
(* rows and changes of the server.                                         *)
(***************************************************************************)
EXTENDS SettingService, TLAPS

SettersOK == settings \in [Kinds -> [Cams -> Setter]]

(***************************************************************************)
(* What an operation of the managers does to the setter of its camera, and *)
(* that it leaves the others alone.                                        *)
(***************************************************************************)
LEMMA ConvertType ==
  ASSUME NEW k \in Kinds, NEW rows \in Rows
  PROVE  UpdateFromJson(k, rows) \in Rows
  BY RowsAssumption DEF UpdateFromJson, Rows

LEMMA UpdateEffect ==
  ASSUME SettersOK, NEW k \in Kinds, NEW c \in Cams, NEW rows \in Rows, UpdateTargetUnit(k, c, rows)
  PROVE  /\ SettersOK'
         /\ settings'[k][c].exists /\ settings'[k][c].is_initialized
         /\ settings'[k][c].setting_data = UpdateFromJson(k, rows)
         /\ settings'[k][c].registered = settings[k][c].registered
         /\ \A j \in Kinds, d \in Cams : (j # k \/ d # c) => settings'[j][d] = settings[j][d]
<1> DEFINE s == [settings[k][c] EXCEPT !.exists = TRUE, !.is_initialized = TRUE,
                                       !.setting_data = UpdateFromJson(k, rows)]
<1>1. settings[k][c] \in Setter
  BY DEF SettersOK
<1>2. s \in Setter
  <2>1. UpdateFromJson(k, rows) \in Rows
    BY ConvertType
  <2>2. QED
    BY <1>1, <2>1 DEF Setter
<1>3. /\ s.exists /\ s.is_initialized /\ s.setting_data = UpdateFromJson(k, rows)
      /\ s.registered = settings[k][c].registered
  BY <1>1 DEF Setter
<1> HIDE DEF s
<1>4. settings' = [settings EXCEPT ![k][c] = s]
  BY DEF UpdateTargetUnit, s
<1>5. settings'[k][c] = s
  BY <1>4 DEF SettersOK
<1>6. SettersOK'
  BY <1>2, <1>4 DEF SettersOK
<1>7. \A j \in Kinds, d \in Cams : (j # k \/ d # c) => settings'[j][d] = settings[j][d]
  BY <1>4 DEF SettersOK
<1>8. QED
  BY <1>3, <1>5, <1>6, <1>7

LEMMA RegisterEffect ==
  ASSUME SettersOK, NEW k \in Kinds, NEW c \in Cams, RegisterCallback(k, c)
  PROVE  /\ SettersOK'
         /\ settings'[k][c].exists /\ settings'[k][c].registered
         /\ settings'[k][c].is_initialized = settings[k][c].is_initialized
         /\ settings'[k][c].setting_data = settings[k][c].setting_data
         /\ \A j \in Kinds, d \in Cams : (j # k \/ d # c) => settings'[j][d] = settings[j][d]
<1> DEFINE s == [settings[k][c] EXCEPT !.exists = TRUE, !.registered = TRUE]
<1>1. settings[k][c] \in Setter
  BY DEF SettersOK
<1>2. s \in Setter
  BY <1>1 DEF Setter
<1>3. /\ s.exists /\ s.registered /\ s.is_initialized = settings[k][c].is_initialized
      /\ s.setting_data = settings[k][c].setting_data
  BY <1>1 DEF Setter
<1>4. settings' = [settings EXCEPT ![k][c] = s]
  BY DEF RegisterCallback, SettersOK
<1> HIDE DEF s
<1>5. settings'[k][c] = s
  BY <1>4 DEF SettersOK
<1>6. SettersOK'
  BY <1>2, <1>4 DEF SettersOK
<1>7. \A j \in Kinds, d \in Cams : (j # k \/ d # c) => settings'[j][d] = settings[j][d]
  BY <1>4 DEF SettersOK
<1>8. QED
  BY <1>3, <1>5, <1>6, <1>7

LEMMA UnregisterEffect ==
  ASSUME SettersOK, NEW k \in Kinds, NEW c \in Cams, UnregisterCallback(k, c)
  PROVE  /\ SettersOK'
         /\ ~settings'[k][c].registered
         /\ settings'[k][c].exists = settings[k][c].exists
         /\ settings'[k][c].is_initialized = settings[k][c].is_initialized
         /\ settings'[k][c].setting_data = settings[k][c].setting_data
         /\ \A j \in Kinds, d \in Cams : (j # k \/ d # c) => settings'[j][d] = settings[j][d]
<1> DEFINE s == [settings[k][c] EXCEPT !.registered = FALSE]
<1>1. settings[k][c] \in Setter
  BY DEF SettersOK
<1>2. s \in Setter
  BY <1>1 DEF Setter
<1>3. /\ ~s.registered /\ s.is_initialized = settings[k][c].is_initialized
      /\ s.exists = settings[k][c].exists
      /\ s.setting_data = settings[k][c].setting_data
  BY <1>1 DEF Setter
<1>4. settings' = [settings EXCEPT ![k][c] = s]
  BY DEF UnregisterCallback, SettersOK
<1> HIDE DEF s
<1>5. settings'[k][c] = s
  BY <1>4 DEF SettersOK
<1>6. SettersOK'
  BY <1>2, <1>4 DEF SettersOK
<1>7. \A j \in Kinds, d \in Cams : (j # k \/ d # c) => settings'[j][d] = settings[j][d]
  BY <1>4 DEF SettersOK
<1>8. QED
  BY <1>3, <1>5, <1>6, <1>7

LEMMA ThrowEffect ==
  ASSUME SettersOK, NEW k \in Kinds, NEW c \in Cams, UpdateThrows(k, c)
  PROVE  /\ SettersOK'
         /\ settings'[k][c].exists
         /\ \A j \in Kinds, d \in Cams :
              /\ settings'[j][d].is_initialized = settings[j][d].is_initialized
              /\ settings'[j][d].setting_data = settings[j][d].setting_data
              /\ settings'[j][d].registered = settings[j][d].registered
              /\ settings[j][d].exists => settings'[j][d].exists
<1> DEFINE s == [settings[k][c] EXCEPT !.exists = TRUE]
<1>1. settings[k][c] \in Setter
  BY DEF SettersOK
<1>2. s \in Setter
  BY <1>1 DEF Setter
<1>3. /\ s.exists /\ s.is_initialized = settings[k][c].is_initialized
      /\ s.setting_data = settings[k][c].setting_data
      /\ s.registered = settings[k][c].registered
  BY <1>1 DEF Setter
<1>4. settings' = [settings EXCEPT ![k][c] = s]
  BY DEF UpdateThrows, SettersOK
<1> HIDE DEF s
<1>5. settings'[k][c] = s
  BY <1>4 DEF SettersOK
<1>6. SettersOK'
  BY <1>2, <1>4 DEF SettersOK
<1>7. \A j \in Kinds, d \in Cams : (j # k \/ d # c) => settings'[j][d] = settings[j][d]
  BY <1>4 DEF SettersOK
<1>8. QED
  BY <1>3, <1>5, <1>6, <1>7

LEMMA RenewEffect ==
  ASSUME SettersOK, NEW k \in Kinds, NEW answer \in [Cams -> Rows], RenewAfterReset(k, answer)
  PROVE  /\ SettersOK'
         /\ \A c \in Cams :
              /\ ~settings'[k][c].registered
              /\ settings'[k][c].is_initialized => settings'[k][c].exists
              /\ ~settings'[k][c].is_initialized => settings'[k][c].setting_data = 0
              /\ settings'[k][c].setting_data = UpdateFromJson(k, answer[c])
         /\ \A j \in Kinds, d \in Cams : j # k => settings'[j][d] = settings[j][d]
<1> DEFINE s(c) == IF answer[c] = 0 THEN NoSetter
                   ELSE [NoSetter EXCEPT !.exists = TRUE, !.is_initialized = TRUE,
                                         !.setting_data = UpdateFromJson(k, answer[c])]
<1>1. ASSUME NEW c \in Cams
      PROVE  /\ s(c) \in Setter
             /\ ~s(c).registered
             /\ s(c).is_initialized => s(c).exists
             /\ ~s(c).is_initialized => s(c).setting_data = 0
             /\ s(c).setting_data = UpdateFromJson(k, answer[c])
  <2>1. answer[c] \in Rows /\ UpdateFromJson(k, answer[c]) \in Rows
    BY ConvertType
  <2>2. CASE answer[c] = 0
    <3>1. UpdateFromJson(k, answer[c]) = 0
      BY <2>2 DEF UpdateFromJson
    <3>2. s(c) = NoSetter
      BY <2>2
    <3>3. QED
      BY <3>1, <3>2, RowsAssumption DEF NoSetter, Setter, Rows
  <2>3. CASE answer[c] # 0
    BY <2>1, <2>3 DEF NoSetter, Setter
  <2>4. QED
    BY <2>2, <2>3
<1>2. settings' = [settings EXCEPT ![k] = [c \in Cams |-> s(c)]]
  BY DEF RenewAfterReset
<1> HIDE DEF s
<1>3. \A c \in Cams : settings'[k][c] = s(c)
  BY <1>2 DEF SettersOK
<1>4. SettersOK'
  BY <1>1, <1>2 DEF SettersOK
<1>5. \A j \in Kinds, d \in Cams : j # k => settings'[j][d] = settings[j][d]
  BY <1>2 DEF SettersOK
<1>6. QED
  BY <1>1, <1>3, <1>4, <1>5

-----------------------------------------------------------------------------
(***************************************************************************)
(* The type invariant in parts: the setters, the main thread, the rows of  *)
(* the units and the server, the events, the handler, and the flag.        *)
(***************************************************************************)
Stages == {"boot", "load", "connect", "bind", "init", "run", "start", "wait", "quit", "close",
           "stopRtsp", "hung", "destroy", "exited"}

MainOK == /\ main \in Stages
          /\ cam \in Cams
          /\ step \in {"none", "getExclude", "setExclude", "readSchedule", "subExclude",
                       "subSchedule"}
          /\ loaded \subseteq Kinds /\ bound \subseteq Kinds
          /\ unit \in [Cams -> {"none", "built", "initialized", "destroyed"}]
          /\ subscriptions \in [Cams -> SUBSET Kinds]
          /\ conn \in {"none", "up", "lost", "closed"}

RowsOK == /\ exclude_data_opt \in Rows \cup {NoOpt}
          /\ local \in [Kinds -> [Cams -> Rows]]
          /\ db \in [Kinds -> [Cams -> Rows]]

WireOK == /\ wire \in Seq(Events)
          /\ disturbances \in 0..MaxDisturbances
          /\ missed \in [Kinds -> SUBSET Cams]

HandlerOK == sio \in [pc: {"idle", "fetch", "next", "collect", "invoke"}, kind: Kinds,
                      todo: SUBSET Cams, code: {"good", "error"}, answer: [Cams -> Rows],
                      cam: Cams, snapshot: Rows]

FlagOK == g_terminate_flag \in BOOLEAN

PartsOK == SettersOK /\ MainOK /\ RowsOK /\ WireOK /\ HandlerOK /\ FlagOK

EndOK == crashed \in BOOLEAN

LEMMA TypeParts == TypeOK <=> PartsOK /\ EndOK
  BY Zenon DEF TypeOK, EndOK, PartsOK, SettersOK, MainOK, RowsOK, WireOK, HandlerOK, FlagOK,
     Stages

(***************************************************************************)
(* Facts about sequences.                                                  *)
(***************************************************************************)
LEMMA SeqFacts ==
  ASSUME NEW S
  PROVE  /\ <<>> \in Seq(S)
         /\ \A q \in Seq(S) : q # <<>> => Head(q) \in S /\ Tail(q) \in Seq(S)
         /\ \A q \in Seq(S), x \in S : Append(q, x) \in Seq(S)
  OBVIOUS

(***************************************************************************)
(* A camera is on the wire when some event on it names the camera.         *)
(***************************************************************************)
LEMMA OnWireMember ==
  ASSUME NEW k, NEW c
  PROVE  c \in OnWire(k) <=> \E i \in 1..Len(wire) : wire[i].kind = k /\ c \in wire[i].cams
  BY Zenon DEF OnWire

LEMMA OnWireType ==
  ASSUME WireOK, NEW k
  PROVE  OnWire(k) \subseteq Cams
<1> SUFFICES ASSUME NEW c \in OnWire(k) PROVE c \in Cams
  OBVIOUS
<1>1. PICK i \in 1..Len(wire) : c \in wire[i].cams
  BY OnWireMember
<1>2. wire[i] \in Events
  BY DEF WireOK
<1>3. QED
  BY <1>1, <1>2 DEF Events

(***************************************************************************)
(* A step of the program, or none: the end of the process changes nothing  *)
(* else.                                                                   *)
(***************************************************************************)
LEMMA StepMoves == [Next]_vars => [Moves]_live
  BY DEF Next, Alive, ProcessEnds, vars

(***************************************************************************)
(* A load makes the manager of one kind, with the rows of the server or,   *)
(* when it throws, empty; the cameras with rows are then missed.           *)
(***************************************************************************)
Loads == LoadSettings \/ LoadThrows

LEMMA LoadEffect ==
  ASSUME PartsOK, Loads
  PROVE  /\ SettersOK'
         /\ \E k \in Kinds :
              /\ loaded' = loaded \cup {k}
              /\ \A c \in Cams :
                   /\ ~settings'[k][c].registered
                   /\ settings'[k][c].is_initialized => settings'[k][c].exists
                   /\ ~settings'[k][c].is_initialized => settings'[k][c].setting_data = 0
                   /\ \/ settings'[k][c].setting_data = UpdateFromJson(k, db[k][c])
                      \/ c \in missed'[k]
              /\ \A j \in Kinds, d \in Cams : j # k => settings'[j][d] = settings[j][d]
         /\ missed' \in [Kinds -> SUBSET Cams]
         /\ \A j \in Kinds : missed[j] \subseteq missed'[j]
<1> DEFINE k == FirstNotIn(loaded)
<1>1. SettersOK /\ db[k] \in [Cams -> Rows] /\ missed \in [Kinds -> SUBSET Cams] /\ k \in Kinds
  BY DEF PartsOK, RowsOK, WireOK, FirstNotIn, Kinds
<1>2. CASE LoadSettings
  <2>1. RenewAfterReset(k, db[k]) /\ loaded' = loaded \cup {k} /\ missed' = missed
    BY <1>2 DEF LoadSettings
  <2> HIDE DEF k
  <2>2. QED
    BY <1>1, <2>1, RenewEffect
<1>3. CASE LoadThrows
  <2> DEFINE none == [c \in Cams |-> 0]
  <2>1. /\ RenewAfterReset(k, none) /\ loaded' = loaded \cup {k}
        /\ missed' = [missed EXCEPT ![k] = @ \cup {c \in Cams : db[k][c] # 0}]
    BY <1>3 DEF LoadThrows, RenewThrows
  <2> HIDE DEF k
  <2>2. none \in [Cams -> Rows] /\ \A c \in Cams : none[c] = 0
    BY RowsAssumption DEF Rows
  <2> HIDE DEF none
  <2>3. ASSUME NEW c \in Cams
        PROVE  settings'[k][c].setting_data = UpdateFromJson(k, db[k][c]) \/ c \in missed'[k]
    <3>1. settings'[k][c].setting_data = UpdateFromJson(k, none[c])
      BY <1>1, <2>1, <2>2, RenewEffect
    <3>2. QED
      BY <1>1, <2>1, <2>2, <3>1
  <2>4. /\ missed' \in [Kinds -> SUBSET Cams]
        /\ \A j \in Kinds : missed[j] \subseteq missed'[j]
    BY <1>1, <2>1
  <2>5. QED
    BY <1>1, <2>1, <2>2, <2>3, <2>4, RenewEffect
<1>4. QED
  BY <1>2, <1>3 DEF Loads

LEMMA SettersStep ==
  ASSUME PartsOK, [Moves]_live
  PROVE  SettersOK'
<1> USE DEF PartsOK
<1>1. CASE Loads
  BY <1>1, LoadEffect
<1>2. CASE \E c \in Cams : Apply(c) \/ ApplyThrows(c)
  <2>1. PICK c \in Cams : UpdateTargetUnit(sio.kind, c, sio.answer[c]) \/ UpdateThrows(sio.kind, c)
    BY <1>2 DEF Apply, ApplyThrows
  <2>2. sio.kind \in Kinds /\ sio.answer[c] \in Rows
    BY DEF HandlerOK
  <2>3. QED
    BY <2>1, <2>2, UpdateEffect, ThrowEffect
<1>3. CASE SubscribeExclude \/ SubscribeSchedule
  <2>1. PICK k \in Kinds : RegisterCallback(k, cam)
    BY <1>3 DEF SubscribeExclude, SubscribeSchedule, SubscribeSetting, Kinds
  <2>2. QED
    BY <2>1, RegisterEffect DEF MainOK
<1>4. CASE \E k \in Kinds : ClearSubscription(k)
  <2>1. PICK k \in Kinds : UnregisterCallback(k, cam)
    BY <1>4 DEF ClearSubscription
  <2>2. QED
    BY <2>1, UnregisterEffect DEF MainOK
<1>5. CASE UNCHANGED settings
  BY <1>5 DEF SettersOK
<1>6. QED
  <2>1. CASE NetworkThread
    BY <2>1, <1>2, <1>5 DEF NetworkThread, RecvEvent, BinderNotFound, FetchRows, FetchError,
       FetchFails, CollectCallback, CollectNone, InvokeCallback
  <2>2. CASE MainThread
    BY <2>2, <1>1, <1>3, <1>4, <1>5 DEF MainThread, Boot, ConnectSocketIO, BindEvent,
       StageFails, UnitInitFails, GetExclude, SetExclude, ReadSchedule, RunRTSP, StartUnit,
       WaitUntilQuitSignal, QuitService, TerminateSocketIO, StopRTSP, DestroyUnit, Loads
  <2>3. CASE Environment \/ UNCHANGED live
    BY <2>3, <1>5 DEF Environment, ServerChange, ConnectionDrops, Reconnects, ExitSignalHandler,
       live
  <2>4. QED
    BY <2>1, <2>2, <2>3 DEF Moves

LEMMA MainStep ==
  ASSUME PartsOK, [Moves]_live
  PROVE  MainOK'
<1> USE CamsAssumption DEF PartsOK, MainOK, Stages, Cams, Kinds
<1>1. CASE Boot \/ Loads \/ ConnectSocketIO \/ BindEvent \/ StageFails
  BY <1>1 DEF Boot, Loads, LoadSettings, LoadThrows, ConnectSocketIO, BindEvent, StageFails,
     FirstNotIn, connVars
<1>2. CASE UnitInitFails \/ GetExclude \/ SetExclude \/ ReadSchedule
  BY <1>2 DEF UnitInitFails, GetExclude, SetExclude, ReadSchedule, NextUnit, InLoop, connVars
<1>3. CASE SubscribeExclude \/ SubscribeSchedule
  BY <1>3 DEF SubscribeExclude, SubscribeSchedule, SubscribeSetting, NextUnit, InLoop, connVars
<1>4. CASE RunRTSP \/ StartUnit \/ WaitUntilQuitSignal \/ QuitService
  BY <1>4 DEF RunRTSP, StartUnit, WaitUntilQuitSignal, QuitService, NextUnit, connVars
<1>5. CASE TerminateSocketIO
  BY <1>5 DEF TerminateSocketIO
<1>6. CASE StopRTSP
  <2>1. main' \in {"destroy", "hung"} /\ cam' \in {cam, 1} /\ 1 \in Cams
    BY <1>6 DEF StopRTSP
  <2>2. UNCHANGED <<step, loaded, bound, unit, subscriptions, conn>>
    BY <1>6 DEF StopRTSP, connVars
  <2>3. QED
    BY <2>1, <2>2
<1>7. CASE (\E k \in Kinds : ClearSubscription(k)) \/ DestroyUnit
  <2>1. subscriptions' \in [Cams -> SUBSET Kinds]
    BY <1>7 DEF ClearSubscription, DestroyUnit
  <2>2. unit' \in [Cams -> {"none", "built", "initialized", "destroyed"}]
    BY <1>7 DEF ClearSubscription, DestroyUnit
  <2>3. main' \in Stages /\ cam' \in Cams /\ UNCHANGED <<step, loaded, bound, conn>>
    BY <1>7 DEF ClearSubscription, DestroyUnit, connVars
  <2>4. QED
    BY <2>1, <2>2, <2>3
<1>8. CASE NetworkThread
  BY <1>8, ZenonT(60) DEF NetworkThread, RecvEvent, BinderNotFound, FetchRows, FetchError,
     FetchFails, Apply, ApplyThrows, CollectCallback, CollectNone, InvokeCallback, mainVars,
     connVars
<1>9. CASE Environment \/ UNCHANGED live
  <2>1. UNCHANGED <<mainVars, bound>> /\ conn' \in {conn, "lost", "up"}
    BY <1>9 DEF Environment, ServerChange, ConnectionDrops, Reconnects, ExitSignalHandler, live,
       connVars
  <2>2. QED
    BY <2>1 DEF mainVars
<1>10. QED
  BY <1>1, <1>2, <1>3, <1>4, <1>5, <1>6, <1>7, <1>8, <1>9 DEF Moves, MainThread, Loads

LEMMA RowsStep ==
  ASSUME PartsOK, [Moves]_live
  PROVE  RowsOK'
<1> USE DEF PartsOK, RowsOK
<1>1. CASE GetExclude
  <2>1. settings["exclude"][cam] \in Setter
    BY DEF SettersOK, MainOK, Kinds
  <2>2. GetSetting("exclude", cam) \in Rows
    BY <2>1 DEF GetSetting, Setter
  <2>3. QED
    BY <1>1, <2>2 DEF GetExclude, serverVars
<1>2. CASE SetExclude
  BY <1>2 DEF SetExclude, serverVars, MainOK, Kinds
<1>3. CASE ReadSchedule
  <2>1. settings["schedule"][cam] \in Setter
    BY DEF SettersOK, MainOK, Kinds
  <2>2. GetSetting("schedule", cam) \in Rows
    BY <2>1 DEF GetSetting, Setter
  <2>3. QED
    BY <1>3, <2>2 DEF ReadSchedule, serverVars, MainOK, Kinds
<1>4. CASE InvokeCallback
  BY <1>4 DEF InvokeCallback, HandlerOK, mainVars, serverVars
<1>5. CASE NetworkThread /\ ~InvokeCallback
  BY <1>5 DEF NetworkThread, RecvEvent, BinderNotFound, FetchRows, FetchError, FetchFails,
     Apply, ApplyThrows, CollectCallback, CollectNone, mainVars, serverVars
<1>6. CASE MainThread /\ ~GetExclude /\ ~SetExclude /\ ~ReadSchedule
  BY <1>6 DEF MainThread, Boot, LoadSettings, LoadThrows, ConnectSocketIO, BindEvent,
     StageFails, UnitInitFails, SubscribeExclude, SubscribeSchedule, RunRTSP, StartUnit,
     WaitUntilQuitSignal, QuitService, TerminateSocketIO, StopRTSP, ClearSubscription,
     DestroyUnit, serverVars
<1>7. CASE \E k \in Kinds, S \in (SUBSET Cams) \ {{}}, rows \in Rows : ServerChange(k, S, rows)
  BY <1>7 DEF ServerChange, mainVars
<1>8. CASE ConnectionDrops \/ Reconnects \/ ExitSignalHandler \/ UNCHANGED live
  BY <1>8 DEF ConnectionDrops, Reconnects, ExitSignalHandler, live, mainVars, serverVars
<1>9. QED
  BY <1>1, <1>2, <1>3, <1>4, <1>5, <1>6, <1>7, <1>8 DEF Moves, Environment

LEMMA WireStep ==
  ASSUME PartsOK, [Moves]_live
  PROVE  WireOK'
<1> USE DEF PartsOK, WireOK
<1>1. CASE RecvEvent
  BY <1>1, SeqFacts DEF RecvEvent, BinderLookup, serverVars
<1>2. CASE BinderNotFound
  <2>1. Head(wire) \in Events /\ Tail(wire) \in Seq(Events)
    BY <1>2, SeqFacts DEF BinderNotFound, BinderLookup
  <2>2. missed' \in [Kinds -> SUBSET Cams]
    BY <1>2, <2>1 DEF BinderNotFound, Events
  <2>3. QED
    BY <1>2, <2>1, <2>2 DEF BinderNotFound, serverVars
<1>3. CASE FetchRows \/ FetchError \/ FetchFails \/ CollectNone \/ \E c \in Cams : ApplyThrows(c)
  <2>1. missed' \in [Kinds -> SUBSET Cams]
    BY <1>3 DEF FetchRows, FetchError, FetchFails, CollectNone, ApplyThrows, HandlerOK
  <2>2. QED
    BY <1>3, <2>1 DEF FetchRows, FetchError, FetchFails, CollectNone, ApplyThrows, connVars,
       serverVars
<1>4. CASE (\E c \in Cams : Apply(c)) \/ CollectCallback \/ InvokeCallback
  BY <1>4 DEF Apply, CollectCallback, InvokeCallback, connVars, serverVars
<1>5. CASE \E k \in Kinds, S \in (SUBSET Cams) \ {{}}, rows \in Rows : ServerChange(k, S, rows)
  <2>1. PICK k \in Kinds, S \in (SUBSET Cams) \ {{}}, rows \in Rows : ServerChange(k, S, rows)
    BY <1>5
  <2>2. [kind |-> k, cams |-> S] \in Events
    BY DEF Events
  <2>3. wire' \in Seq(Events)
    BY <2>1, <2>2, SeqFacts DEF ServerChange
  <2>4. QED
    BY <2>1, <2>3, BoundsAssumption DEF ServerChange
<1>6. CASE ConnectionDrops
  <2>1. <<>> \in Seq(Events)
    BY SeqFacts
  <2>2. ASSUME NEW k \in Kinds PROVE OnWire(k) \subseteq Cams
    BY OnWireType
  <2>3. QED
    BY <1>6, <2>1, <2>2, BoundsAssumption DEF ConnectionDrops, LoseWire
<1>7. CASE TerminateSocketIO
  <2>1. <<>> \in Seq(Events)
    BY SeqFacts
  <2>2. ASSUME NEW k \in Kinds PROVE OnWire(k) \subseteq Cams
    BY OnWireType
  <2>3. QED
    BY <1>7, <2>1, <2>2 DEF TerminateSocketIO, LoseWire, serverVars
<1>8. CASE MainThread /\ ~TerminateSocketIO /\ ~Loads
  BY <1>8 DEF MainThread, Loads, Boot, ConnectSocketIO, BindEvent, StageFails, UnitInitFails,
     GetExclude, SetExclude, ReadSchedule, SubscribeExclude, SubscribeSchedule, RunRTSP,
     StartUnit, WaitUntilQuitSignal, QuitService, StopRTSP, ClearSubscription, DestroyUnit,
     connVars, serverVars
<1>9. CASE Loads
  <2>1. wire' = wire /\ disturbances' \in 0..MaxDisturbances
    BY <1>9, BoundsAssumption DEF Loads, LoadSettings, LoadThrows, connVars, serverVars
  <2>2. QED
    BY <1>9, <2>1, LoadEffect
<1>10. CASE Reconnects \/ ExitSignalHandler \/ UNCHANGED live
  BY <1>10 DEF Reconnects, ExitSignalHandler, live, connVars, serverVars
<1>11. QED
  BY <1>1, <1>2, <1>3, <1>4, <1>5, <1>6, <1>7, <1>8, <1>9, <1>10 DEF Moves, NetworkThread,
     Environment

LEMMA HandlerStep ==
  ASSUME PartsOK, [Moves]_live
  PROVE  HandlerOK'
<1> USE DEF PartsOK, HandlerOK
<1>0. Idle \in [pc: {"idle", "fetch", "next", "collect", "invoke"}, kind: Kinds,
                todo: SUBSET Cams, code: {"good", "error"}, answer: [Cams -> Rows],
                cam: Cams, snapshot: Rows]
  BY CamsAssumption, RowsAssumption DEF Idle, Kinds, Cams, Rows
<1>1. CASE RecvEvent
  <2>1. Head(wire) \in Events
    BY <1>1, SeqFacts DEF RecvEvent, BinderLookup, WireOK
  <2>2. QED
    BY <1>0, <1>1, <2>1 DEF RecvEvent, Events
<1>2. CASE FetchRows \/ FetchError
  <2>1. PICK code \in {"good", "error"}, answer \in [Cams -> Rows] : Fetched(code, answer)
    BY <1>2, RowsAssumption DEF FetchRows, FetchError, RowsOK, Rows
  <2>2. [c \in Cams |-> IF c \in sio.todo THEN answer[c] ELSE 0] \in [Cams -> Rows]
    BY RowsAssumption DEF Rows
  <2>3. QED
    BY <2>1, <2>2 DEF Fetched
<1>3. CASE FetchFails \/ \E c \in Cams : ApplyThrows(c)
  BY <1>0, <1>3 DEF FetchFails, ApplyThrows
<1>4. CASE \E c \in Cams : Apply(c)
  <2>1. PICK c \in Cams : Apply(c)
    BY <1>4
  <2>2. UpdateFromJson(sio.kind, sio.answer[c]) \in Rows
    BY ConvertType
  <2>3. QED
    BY <2>1, <2>2 DEF Apply
<1>5. CASE CollectCallback
  BY <1>5 DEF CollectCallback
<1>6. CASE CollectNone \/ InvokeCallback
  <2>1. UnitDone
    BY <1>6 DEF CollectNone, InvokeCallback
  <2>2. QED
    <3> DEFINE rest == sio.todo \ {sio.cam}
               a    == [sio.answer EXCEPT ![sio.cam] = 0]
    <3>1. 0 \in Rows /\ 1 \in Cams
      BY CamsAssumption, RowsAssumption DEF Rows, Cams
    <3>2. a \in [Cams -> Rows] /\ rest \in SUBSET Cams
      BY <3>1
    <3>3. sio' = Idle \/ sio' = [sio EXCEPT !.pc = "next", !.todo = rest, !.answer = a, !.cam = 1,
                                            !.snapshot = 0]
      BY <2>1 DEF UnitDone
    <3> HIDE DEF rest, a
    <3>4. QED
      BY <1>0, <3>1, <3>2, <3>3
<1>7. CASE BinderNotFound \/ Environment \/ UNCHANGED live
  BY <1>7 DEF BinderNotFound, Environment, ServerChange, ConnectionDrops, Reconnects,
     ExitSignalHandler, live
<1>8. CASE MainThread
  BY <1>8 DEF MainThread, Boot, LoadSettings, LoadThrows, ConnectSocketIO, BindEvent,
     StageFails, UnitInitFails, GetExclude, SetExclude, ReadSchedule, SubscribeExclude,
     SubscribeSchedule, RunRTSP, StartUnit, WaitUntilQuitSignal, QuitService,
     TerminateSocketIO, StopRTSP, ClearSubscription, DestroyUnit
<1>9. QED
  BY <1>1, <1>2, <1>3, <1>4, <1>5, <1>6, <1>7, <1>8 DEF Moves, NetworkThread

LEMMA FlagStep ==
  ASSUME PartsOK, [Moves]_live
  PROVE  FlagOK'
<1>1. UNCHANGED g_terminate_flag \/ ExitSignalHandler
  BY DEF Moves, NetworkThread, RecvEvent, BinderNotFound, FetchRows, FetchError, FetchFails,
     Apply, ApplyThrows, CollectCallback, CollectNone, InvokeCallback, MainThread, Boot,
     LoadSettings, LoadThrows, ConnectSocketIO, BindEvent, StageFails, UnitInitFails,
     GetExclude, SetExclude, ReadSchedule, SubscribeExclude, SubscribeSchedule, RunRTSP,
     StartUnit, WaitUntilQuitSignal, QuitService, TerminateSocketIO, StopRTSP,
     ClearSubscription, DestroyUnit, Environment, ServerChange, ConnectionDrops, Reconnects,
     live
<1>2. QED
  BY Zenon, <1>1 DEF PartsOK, FlagOK, ExitSignalHandler

LEMMA PartsStep == PartsOK /\ [Moves]_live => PartsOK'
  BY SettersStep, MainStep, RowsStep, WireStep, HandlerStep, FlagStep DEF PartsOK

LEMMA InitParts == Init => PartsOK
<1> SUFFICES ASSUME Init PROVE PartsOK
  OBVIOUS
<1> USE CamsAssumption, RowsAssumption, BoundsAssumption
<1>1. SettersOK
  <2>1. NoSetter \in Setter
    BY DEF NoSetter, Setter, Rows
  <2>2. QED
    BY <2>1 DEF Init, SettersOK
<1>2. MainOK
  BY DEF Init, MainOK, Stages, Cams
<1>3. RowsOK
  BY DEF Init, RowsOK, Rows
<1>4. WireOK
  BY SeqFacts DEF Init, WireOK
<1>5. HandlerOK
  BY DEF Init, HandlerOK, Idle, Kinds, Cams, Rows
<1>6. FlagOK
  BY Zenon DEF Init, FlagOK
<1>7. QED
  BY <1>1, <1>2, <1>3, <1>4, <1>5, <1>6 DEF PartsOK

LEMMA AlwaysParts == Spec => []PartsOK
  BY InitParts, PartsStep, StepMoves, PTL DEF Spec

(***************************************************************************)
(* Type correctness: however far Initialize gets, whatever the server      *)
(* sends and whenever the connection is lost, the managers, the units, the *)
(* events and the handler keep their types.                                *)
(***************************************************************************)
THEOREM TypeCorrect == Spec => []TypeOK
<1>1. Init => EndOK
  BY DEF Init, EndOK
<1>2. EndOK /\ [Next]_vars => EndOK'
  BY Zenon DEF EndOK, Next, Alive, ProcessEnds, vars
<1>3. Spec => []EndOK
  BY <1>1, <1>2, PTL DEF Spec
<1>4. QED
  BY <1>3, AlwaysParts, TypeParts, PTL

-----------------------------------------------------------------------------
(***************************************************************************)
(* The life of the program: what exists at each stage of the main thread.  *)
(* Nothing listens before both kinds are loaded; a unit is in the middle   *)
(* of its Init only inside the loops; the network thread is gone when      *)
(* StopRTSP begins, and so when the first unit is destroyed.               *)
(***************************************************************************)
BeforeUnits ==
    /\ main \in {"boot", "load", "connect", "bind"} =>
         step = "none" /\ \A c \in Cams : unit[c] = "none"
    /\ main \in {"boot", "load"} => loaded # Kinds
    /\ main \in {"boot", "load", "connect"} => conn = "none"

AllLoaded ==
    /\ main \in {"connect", "bind", "init", "run", "start", "wait"} => loaded = Kinds
    /\ (conn \in {"up", "lost"} \/ wire # <<>> \/ sio.pc # "idle") => loaded = Kinds
    /\ \A c \in Cams : unit[c] \in {"built", "initialized"} => loaded = Kinds

InsideInit == step \notin {"none", "getExclude"} => main \in {"init", "start"} /\ unit[cam] = "built"

AtTheEnd == /\ wire # <<>> => conn = "up"
            /\ \A c \in Cams : unit[c] = "destroyed" => main \in {"destroy", "exited"}
            /\ main \in {"stopRtsp", "hung", "destroy", "exited"} => conn = "closed" /\ sio.pc = "idle"

LifeCycle == BeforeUnits /\ AllLoaded /\ InsideInit /\ AtTheEnd

LEMMA LifeCycleStep ==
  ASSUME PartsOK, LifeCycle, [Moves]_live
  PROVE  LifeCycle'
<1>1. MainOK
  BY DEF PartsOK
<1> USE <1>1 DEF MainOK, Stages, LifeCycle, BeforeUnits, AllLoaded, InsideInit, AtTheEnd
<1>2. CASE Boot \/ StageFails
  BY <1>2 DEF Boot, StageFails, connVars
<1>3. CASE Loads
  <2>1. /\ main = "load" /\ main' = IF loaded' = Kinds THEN "connect" ELSE "load"
        /\ UNCHANGED <<cam, step, unit, wire, conn, sio>> /\ loaded \subseteq loaded'
    BY <1>3 DEF Loads, LoadSettings, LoadThrows, connVars
  <2>2. QED
    BY <2>1
<1>4. CASE ConnectSocketIO
  BY <1>4 DEF ConnectSocketIO
<1>5. CASE BindEvent
  BY <1>5 DEF BindEvent
<1>6. CASE UnitInitFails \/ StartUnit
  BY <1>6 DEF UnitInitFails, StartUnit, NextUnit, InLoop, connVars
<1>7. CASE GetExclude \/ SetExclude \/ ReadSchedule \/ SubscribeExclude
  BY <1>7 DEF GetExclude, SetExclude, ReadSchedule, SubscribeExclude, InLoop, connVars
<1>8. CASE SubscribeSchedule
  BY <1>8 DEF SubscribeSchedule, NextUnit, InLoop, connVars
<1>9. CASE RunRTSP \/ WaitUntilQuitSignal \/ QuitService
  BY <1>9 DEF RunRTSP, WaitUntilQuitSignal, QuitService, connVars
<1>10. CASE TerminateSocketIO \/ StopRTSP
  BY <1>10 DEF TerminateSocketIO, StopRTSP, LoseWire, connVars
<1>11. CASE \E k \in Kinds : ClearSubscription(k)
  BY <1>11 DEF ClearSubscription, connVars
<1>12. CASE DestroyUnit
  BY <1>12 DEF DestroyUnit, connVars
<1>13. CASE NetworkThread
  <2>1. UNCHANGED <<mainVars, conn>>
    BY <1>13 DEF NetworkThread, RecvEvent, BinderNotFound, FetchRows, FetchError, FetchFails,
       Apply, ApplyThrows, CollectCallback, CollectNone, InvokeCallback, connVars
  <2>2. /\ wire' # <<>> => wire # <<>>
        /\ sio.pc # "idle" \/ wire # <<>>
    BY <1>13 DEF NetworkThread, RecvEvent, BinderNotFound, BinderLookup, FetchRows, FetchError,
       FetchFails, Apply, ApplyThrows, ScheduleThrows, CollectCallback, CollectNone,
       InvokeCallback, connVars
  <2>3. QED
    BY <2>1, <2>2 DEF mainVars
<1>14. CASE \E k \in Kinds, S \in (SUBSET Cams) \ {{}}, rows \in Rows : ServerChange(k, S, rows)
  BY <1>14 DEF ServerChange, Listening, mainVars
<1>15. CASE ConnectionDrops \/ Reconnects
  BY <1>15 DEF ConnectionDrops, Reconnects, LoseWire, Serving, Closing, mainVars
<1>16. CASE ExitSignalHandler \/ UNCHANGED live
  BY <1>16 DEF ExitSignalHandler, live, mainVars, connVars
<1>17. QED
  BY <1>2, <1>3, <1>4, <1>5, <1>6, <1>7, <1>8, <1>9, <1>10, <1>11, <1>12, <1>13, <1>14, <1>15,
     <1>16 DEF Moves, MainThread, Loads, Environment

-----------------------------------------------------------------------------
(***************************************************************************)
(* The managers hold a callback only for a unit that lists it among its    *)
(* subscriptions.  A unit has subscriptions when it is initialised, or one *)
(* at the last step of its Init; the destructors take them back in order.  *)
(***************************************************************************)
Registration ==
    /\ \A k \in Kinds, c \in Cams : settings[k][c].registered => k \in subscriptions[c]
    /\ \A c \in Cams : subscriptions[c] # {} =>
         \/ unit[c] = "initialized"
         \/ cam = c /\ step = "subSchedule" /\ subscriptions[c] = {"exclude"}
    /\ main = "destroy" => \A c \in Cams : c < cam => subscriptions[c] = {}
    /\ main = "exited" => \A c \in Cams : subscriptions[c] = {}

LEMMA RegistrationStep ==
  ASSUME PartsOK, LifeCycle, Registration, [Moves]_live
  PROVE  Registration'
<1>1. MainOK /\ SettersOK /\ HandlerOK /\ RowsOK
  BY DEF PartsOK
<1> USE <1>1 DEF MainOK, Registration
<1>2. CASE Boot \/ StageFails \/ ConnectSocketIO \/ RunRTSP \/ WaitUntilQuitSignal \/ QuitService
  BY <1>2 DEF Boot, StageFails, ConnectSocketIO, RunRTSP, WaitUntilQuitSignal, QuitService
<1>3. CASE BindEvent
  BY <1>3 DEF BindEvent, LifeCycle, BeforeUnits
<1>4. CASE Loads
  <2>1. UNCHANGED <<subscriptions, unit, cam, step>> /\ main' \in {"load", "connect"}
    BY <1>4 DEF Loads, LoadSettings, LoadThrows
  <2>2. PICK k \in Kinds : /\ \A c \in Cams : ~settings'[k][c].registered
                           /\ \A j \in Kinds, d \in Cams : j # k => settings'[j][d] = settings[j][d]
    BY <1>4, LoadEffect
  <2>3. QED
    BY <2>1, <2>2
<1>5. CASE UnitInitFails \/ StartUnit
  BY <1>5 DEF UnitInitFails, StartUnit, NextUnit, InLoop
<1>6. CASE GetExclude \/ SetExclude \/ ReadSchedule
  BY <1>6 DEF GetExclude, SetExclude, ReadSchedule, InLoop
<1>7. CASE SubscribeExclude
  <2>1. /\ \A j \in Kinds, d \in Cams : (j # "exclude" \/ d # cam) => settings'[j][d] = settings[j][d]
        /\ "exclude" \in Kinds
    BY <1>7, RegisterEffect DEF SubscribeExclude, SubscribeSetting, Kinds
  <2>2. subscriptions[cam] = {} /\ main \in {"init", "start"}
    BY <1>7 DEF SubscribeExclude, InLoop, LifeCycle, InsideInit
  <2>3. /\ subscriptions'[cam] = {"exclude"}
        /\ \A d \in Cams : d # cam => subscriptions'[d] = subscriptions[d]
    BY <1>7, <2>2 DEF SubscribeExclude, SubscribeSetting
  <2>4. step' = "subSchedule" /\ UNCHANGED <<main, cam, unit>> /\ step = "subExclude"
    BY <1>7 DEF SubscribeExclude
  <2>5. QED
    BY <2>1, <2>2, <2>3, <2>4
<1>8. CASE SubscribeSchedule
  <2>1. /\ \A j \in Kinds, d \in Cams : (j # "schedule" \/ d # cam) => settings'[j][d] = settings[j][d]
        /\ "schedule" \in Kinds
    BY <1>8, RegisterEffect DEF SubscribeSchedule, SubscribeSetting, Kinds
  <2>2. /\ subscriptions' = [subscriptions EXCEPT ![cam] = @ \cup {"schedule"}]
        /\ unit' = [unit EXCEPT ![cam] = "initialized"]
        /\ step = "subSchedule"
    BY <1>8 DEF SubscribeSchedule, SubscribeSetting
  <2>3. main' \notin {"destroy", "exited"}
    BY <1>8 DEF SubscribeSchedule, NextUnit, InLoop
  <2>4. \A k \in Kinds, c \in Cams : settings'[k][c].registered => k \in subscriptions'[c]
    BY <2>1, <2>2
  <2>5. \A c \in Cams : subscriptions'[c] # {} => unit'[c] = "initialized"
    BY <2>2
  <2>6. QED
    BY <2>3, <2>4, <2>5
<1>9. CASE TerminateSocketIO \/ StopRTSP
  BY <1>9, CamsAssumption DEF TerminateSocketIO, StopRTSP, LifeCycle, InsideInit, Cams
<1>10. CASE \E k \in Kinds : ClearSubscription(k)
  <2>1. PICK k \in Kinds : ClearSubscription(k)
    BY <1>10
  <2>2. /\ ~settings'[k][cam].registered
        /\ \A j \in Kinds, d \in Cams : (j # k \/ d # cam) => settings'[j][d] = settings[j][d]
    BY <2>1, UnregisterEffect DEF ClearSubscription
  <2>3. /\ subscriptions' = [subscriptions EXCEPT ![cam] = @ \ {k}]
        /\ main = "destroy" /\ UNCHANGED <<main, cam, step, unit>>
    BY <2>1 DEF ClearSubscription
  <2>4. \A j \in Kinds, c \in Cams : settings'[j][c].registered => j \in subscriptions'[c]
    BY <2>2, <2>3
  <2>5. \A c \in Cams : subscriptions[c] # {} => unit[c] = "initialized"
    BY <2>3 DEF LifeCycle, InsideInit
  <2>6. \A c \in Cams : subscriptions'[c] # {} => subscriptions[c] # {}
    BY <2>3
  <2>7. QED
    BY <2>3, <2>4, <2>5, <2>6
<1>11. CASE DestroyUnit
  BY <1>11, CamsAssumption DEF DestroyUnit, Cams, LifeCycle, InsideInit
<1>12. CASE \E c \in Cams : Apply(c)
  <2>1. PICK c \in Cams : Apply(c)
    BY <1>12
  <2>2. sio.kind \in Kinds /\ sio.answer[c] \in Rows
    BY DEF HandlerOK
  <2>3. /\ settings'[sio.kind][c].registered = settings[sio.kind][c].registered
        /\ \A j \in Kinds, d \in Cams : (j # sio.kind \/ d # c) => settings'[j][d] = settings[j][d]
    BY <2>1, <2>2, UpdateEffect DEF Apply
  <2>4. QED
    BY <2>1, <2>2, <2>3 DEF Apply, mainVars
<1>13. CASE \E c \in Cams : ApplyThrows(c)
  <2>1. PICK c \in Cams : ApplyThrows(c)
    BY <1>13
  <2>2. sio.kind \in Kinds
    BY DEF HandlerOK
  <2>3. \A j \in Kinds, d \in Cams : settings'[j][d].registered = settings[j][d].registered
    BY <2>1, <2>2, ThrowEffect DEF ApplyThrows
  <2>4. QED
    BY <2>1, <2>3 DEF ApplyThrows, mainVars
<1>14. CASE NetworkThread /\ ~(\E c \in Cams : Apply(c) \/ ApplyThrows(c))
  BY <1>14 DEF NetworkThread, RecvEvent, BinderNotFound, FetchRows, FetchError, FetchFails,
     CollectCallback, CollectNone, InvokeCallback, mainVars
<1>15. CASE Environment \/ UNCHANGED live
  BY <1>15 DEF Environment, ServerChange, ConnectionDrops, Reconnects, ExitSignalHandler, live,
     mainVars
<1>16. QED
  BY <1>2, <1>3, <1>4, <1>5, <1>6, <1>7, <1>8, <1>9, <1>10, <1>11, <1>12, <1>14, <1>15,
     <1>13 DEF Moves, MainThread, Loads

LEMMA InitLife == Init => LifeCycle /\ Registration
  BY DEF Init, LifeCycle, BeforeUnits, AllLoaded, InsideInit, AtTheEnd, Registration, Idle,
     NoSetter, Kinds

LEMMA AlwaysLife == Spec => [](LifeCycle /\ Registration)
<1>1. PartsOK /\ LifeCycle /\ Registration /\ [Moves]_live => LifeCycle' /\ Registration'
  BY LifeCycleStep, RegistrationStep
<1>2. QED
  BY <1>1, InitLife, AlwaysParts, StepMoves, PTL DEF Spec

(***************************************************************************)
(* No callback runs on a destroyed unit and none is registered when the    *)
(* program has ended, for any number of cameras and at whatever stage      *)
(* Initialize or Run stopped.                                              *)
(***************************************************************************)
THEOREM CallbacksNeverDangle == Spec => []NoDanglingCallback
<1>1. PartsOK /\ LifeCycle /\ Registration => NoDanglingCallback
  <2> SUFFICES ASSUME PartsOK, LifeCycle, Registration PROVE NoDanglingCallback
    OBVIOUS
  <2>1. sio.cam \in Cams
    BY DEF PartsOK, HandlerOK
  <2>2. QED
    BY <2>1 DEF LifeCycle, AtTheEnd, Registration, NoDanglingCallback
<1>2. QED
  BY <1>1, AlwaysParts, AlwaysLife, PTL

-----------------------------------------------------------------------------
(***************************************************************************)
(* From the rows of the server to the units.  Converged speaks of the two  *)
(* ends only; the invariant follows a value through the handler and the    *)
(* setting manager.                                                        *)
(*                                                                         *)
(* A setter without a value holds none.                                    *)
(***************************************************************************)
EmptyUntilSet == \A k \in Kinds, c \in Cams :
    /\ settings[k][c].is_initialized => settings[k][c].exists
    /\ ~settings[k][c].is_initialized => settings[k][c].setting_data = 0

(***************************************************************************)
(* The handler has fetched the rows of its cameras; they are still those   *)
(* of the server unless a newer change is on the wire or was lost.  Its    *)
(* snapshot is what it has just put into the manager.                      *)
(***************************************************************************)
HandlerHolds ==
    /\ sio.pc \in {"collect", "invoke"} =>
         /\ sio.cam \in sio.todo
         /\ sio.snapshot = settings[sio.kind][sio.cam].setting_data
         /\ sio.snapshot = UpdateFromJson(sio.kind, sio.answer[sio.cam])
    /\ sio.pc = "invoke" => settings[sio.kind][sio.cam].registered
    /\ sio.pc \in {"next", "collect", "invoke"} =>
         \A c \in sio.todo : (c \notin missed[sio.kind] /\ c \notin OnWire(sio.kind)) =>
            sio.answer[c] = db[sio.kind][c]

(***************************************************************************)
(* The manager has the rows of the server unless a change is on its way or *)
(* was lost.                                                               *)
(***************************************************************************)
Sure(k, c) == c \notin missed[k] /\ ~Pending(k, c)

ManagerFollows == \A k \in Kinds, c \in Cams :
    (k \in loaded /\ Sure(k, c)) => settings[k][c].setting_data = UpdateFromJson(k, db[k][c])

(***************************************************************************)
(* A unit that has taken its first value has that of the manager, unless   *)
(* the handler is about to bring another or one was lost.  Between the     *)
(* read of the excluded cameras and the assignment it is in the local      *)
(* variable.                                                               *)
(***************************************************************************)
Handling(k, c) == sio.pc # "idle" /\ sio.kind = k /\ c \in sio.todo

AtSetExclude(k, c) == k = "exclude" /\ cam = c /\ step = "setExclude"

Taken(k, c) == IF AtSetExclude(k, c) /\ exclude_data_opt # NoOpt THEN exclude_data_opt
               ELSE local[k][c]

UnitFollows == \A k \in Kinds, c \in Cams :
    /\ (HasRead(k, c) /\ c \notin missed[k] /\ ~Handling(k, c)) =>
         Taken(k, c) = settings[k][c].setting_data
    /\ (~HasRead(k, c) /\ unit[c] # "destroyed") => local[k][c] = 0
    /\ AtSetExclude(k, c) => local[k][c] = 0

Chain == EmptyUntilSet /\ HandlerHolds /\ ManagerFollows /\ UnitFollows

(***************************************************************************)
(* Which steps change what the managers hold.                              *)
(***************************************************************************)
SameData == \A k \in Kinds, c \in Cams :
    /\ settings'[k][c].setting_data = settings[k][c].setting_data
    /\ settings'[k][c].is_initialized = settings[k][c].is_initialized
    /\ settings[k][c].exists => settings'[k][c].exists

LEMMA MainKeepsData ==
  ASSUME PartsOK, MainThread, ~Loads
  PROVE  /\ SameData
         /\ main # "destroy" => \A k \in Kinds, c \in Cams :
                                   settings[k][c].registered => settings'[k][c].registered
<1>1. SettersOK /\ cam \in Cams
  BY DEF PartsOK, MainOK
<1>2. CASE SubscribeExclude \/ SubscribeSchedule
  <2>1. PICK k \in Kinds : RegisterCallback(k, cam)
    BY <1>2 DEF SubscribeExclude, SubscribeSchedule, SubscribeSetting, Kinds
  <2>2. QED
    BY <1>1, <2>1, RegisterEffect DEF SameData
<1>3. CASE \E k \in Kinds : ClearSubscription(k)
  <2>1. PICK k \in Kinds : UnregisterCallback(k, cam) /\ main = "destroy"
    BY <1>3 DEF ClearSubscription
  <2>2. QED
    BY <1>1, <2>1, UnregisterEffect DEF SameData
<1>4. CASE UNCHANGED settings
  BY <1>4 DEF SameData
<1>5. QED
  BY <1>2, <1>3, <1>4 DEF MainThread, Boot, ConnectSocketIO, BindEvent, StageFails,
     UnitInitFails, GetExclude, SetExclude, ReadSchedule, RunRTSP, StartUnit,
     WaitUntilQuitSignal, QuitService, TerminateSocketIO, StopRTSP, DestroyUnit, Loads

LEMMA EmptyUntilSetStep ==
  ASSUME PartsOK, EmptyUntilSet, [Moves]_live
  PROVE  EmptyUntilSet'
<1>1. SettersOK /\ HandlerOK /\ RowsOK
  BY DEF PartsOK
<1>2. CASE Loads
  <2>1. PICK k \in Kinds :
          /\ \A c \in Cams :
                /\ settings'[k][c].is_initialized => settings'[k][c].exists
                /\ ~settings'[k][c].is_initialized => settings'[k][c].setting_data = 0
          /\ \A j \in Kinds, d \in Cams : j # k => settings'[j][d] = settings[j][d]
    BY <1>2, LoadEffect
  <2>2. ASSUME NEW j \in Kinds, NEW c \in Cams
        PROVE  /\ settings'[j][c].is_initialized => settings'[j][c].exists
               /\ ~settings'[j][c].is_initialized => settings'[j][c].setting_data = 0
    <3>1. CASE j = k
      BY <2>1, <3>1
    <3>2. CASE j # k
      BY <2>1, <3>2 DEF EmptyUntilSet
    <3>3. QED
      BY <3>1, <3>2
  <2>3. QED
    BY <2>2 DEF EmptyUntilSet
<1>3. CASE MainThread /\ ~Loads
  BY <1>3, MainKeepsData DEF EmptyUntilSet, SameData
<1>4. CASE \E c \in Cams : Apply(c)
  <2>1. PICK c \in Cams : UpdateTargetUnit(sio.kind, c, sio.answer[c])
    BY <1>4 DEF Apply
  <2>2. sio.kind \in Kinds /\ sio.answer[c] \in Rows
    BY <1>1 DEF HandlerOK
  <2>3. QED
    BY <1>1, <2>1, <2>2, UpdateEffect DEF EmptyUntilSet
<1>5. CASE \E c \in Cams : ApplyThrows(c)
  <2>1. PICK c \in Cams : UpdateThrows(sio.kind, c)
    BY <1>5 DEF ApplyThrows
  <2>2. sio.kind \in Kinds
    BY <1>1 DEF HandlerOK
  <2>3. QED
    BY <1>1, <2>1, <2>2, ThrowEffect DEF EmptyUntilSet
<1>6. CASE \/ NetworkThread /\ ~(\E c \in Cams : Apply(c) \/ ApplyThrows(c))
           \/ Environment \/ UNCHANGED live
  <2>1. UNCHANGED settings
    BY <1>6 DEF NetworkThread, RecvEvent, BinderNotFound, FetchRows, FetchError, FetchFails,
       CollectCallback, CollectNone, InvokeCallback, Environment, ServerChange, ConnectionDrops,
       Reconnects, ExitSignalHandler, live
  <2>2. QED
    BY <2>1 DEF EmptyUntilSet
<1>7. QED
  BY <1>2, <1>3, <1>4, <1>6, <1>5 DEF Moves, MainThread, Loads

(***************************************************************************)
(* What the network and the server do to the events on the wire.           *)
(***************************************************************************)
LEMMA WireTail ==
  ASSUME WireOK, wire # <<>>, wire' = Tail(wire), NEW k, NEW c \in OnWire(k)
  PROVE  c \in OnWire(k)' \/ (Head(wire).kind = k /\ c \in Head(wire).cams)
<1>1. PICK i \in 1..Len(wire) : wire[i].kind = k /\ c \in wire[i].cams
  BY OnWireMember
<1>2. CASE i = 1
  BY <1>1, <1>2 DEF WireOK
<1>3. CASE i # 1
  <2>1. i - 1 \in 1..Len(Tail(wire)) /\ Tail(wire)[i - 1] = wire[i]
    BY <1>3 DEF WireOK
  <2>2. i - 1 \in 1..Len(wire') /\ wire'[i - 1] = wire[i]
    BY <2>1
  <2>3. QED
    BY Zenon, <1>1, <2>2 DEF OnWire
<1>4. QED
  BY <1>2, <1>3

LEMMA WireAppend ==
  ASSUME WireOK, NEW e, wire' = Append(wire, e)
  PROVE  /\ \A k, c : c \in OnWire(k) => c \in OnWire(k)'
         /\ \A c \in e.cams : c \in OnWire(e.kind)'
<1>1. /\ Len(wire') = Len(wire) + 1 /\ wire'[Len(wire) + 1] = e
      /\ \A i \in 1..Len(wire) : wire'[i] = wire[i]
      /\ Len(wire) \in Nat
  BY DEF WireOK
<1>2. ASSUME NEW k, NEW c \in OnWire(k) PROVE c \in OnWire(k)'
  <2>1. PICK i \in 1..Len(wire) : wire[i].kind = k /\ c \in wire[i].cams
    BY OnWireMember
  <2>2. i \in 1..Len(wire') /\ wire'[i] = wire[i]
    BY <1>1
  <2>3. QED
    BY Zenon, <2>1, <2>2 DEF OnWire
<1>3. ASSUME NEW c \in e.cams PROVE c \in OnWire(e.kind)'
  <2>1. Len(wire) + 1 \in 1..Len(wire')
    BY <1>1
  <2>2. QED
    BY Zenon, <1>1, <1>3, <2>1 DEF OnWire
<1>4. QED
  BY <1>2, <1>3

LEMMA ServerEffect ==
  ASSUME PartsOK, NEW k \in Kinds, NEW S \in SUBSET Cams, NEW rows \in Rows,
         ServerChange(k, S, rows)
  PROVE  /\ \A j \in Kinds, c \in Cams : (j # k \/ c \notin S) => db'[j][c] = db[j][c]
         /\ \A j \in Kinds : missed[j] \subseteq missed'[j]
         /\ \A j, c : c \in OnWire(j) => c \in OnWire(j)'
         /\ k \in loaded => \A c \in S : c \in missed'[k] \/ c \in OnWire(k)'
<1>1. db \in [Kinds -> [Cams -> Rows]] /\ missed \in [Kinds -> SUBSET Cams] /\ WireOK
  BY DEF PartsOK, RowsOK, WireOK
<1>2. \A j \in Kinds, c \in Cams : (j # k \/ c \notin S) => db'[j][c] = db[j][c]
  BY <1>1 DEF ServerChange
<1>3. \A j \in Kinds : missed[j] \subseteq missed'[j]
  BY <1>1 DEF ServerChange
<1> DEFINE e == [kind |-> k, cams |-> S]
<1>4. CASE Listening(k)
  <2>1. wire' = Append(wire, e)
    BY <1>4 DEF ServerChange
  <2>2. e.kind = k /\ e.cams = S
    OBVIOUS
  <2> HIDE DEF e
  <2>3. QED
    BY <1>1, <1>2, <1>3, <2>1, <2>2, WireAppend
<1>5. CASE ~Listening(k)
  <2>1. wire' = wire
    BY <1>5 DEF ServerChange
  <2>2. \A j, c : c \in OnWire(j) => c \in OnWire(j)'
    BY Zenon, <2>1 DEF OnWire
  <2>3. k \in loaded => \A c \in S : c \in missed'[k]
    BY <1>1, <1>5 DEF ServerChange
  <2>4. QED
    BY <1>2, <1>3, <2>2, <2>3
<1>6. QED
  BY <1>4, <1>5

LEMMA WireUnchanged ==
  ASSUME wire' = wire
  PROVE  \A j : OnWire(j)' = OnWire(j)
  BY DEF OnWire

(***************************************************************************)
(* When a camera is done, it leaves the handler; the rest stay.            *)
(***************************************************************************)
LEMMA UnitDoneEffect ==
  ASSUME HandlerOK, UnitDone
  PROVE  \/ sio'.pc = "idle" /\ sio.todo \subseteq {sio.cam}
         \/ /\ sio'.pc = "next" /\ sio'.kind = sio.kind
            /\ sio'.todo = sio.todo \ {sio.cam}
            /\ \A c \in sio'.todo : sio'.answer[c] = sio.answer[c]
<1>1. CASE sio.todo \ {sio.cam} = {}
  BY <1>1 DEF UnitDone, Idle
<1>2. CASE sio.todo \ {sio.cam} # {}
  <2> DEFINE a == [sio.answer EXCEPT ![sio.cam] = 0]
  <2>1. \A c \in sio.todo \ {sio.cam} : a[c] = sio.answer[c]
    BY DEF HandlerOK
  <2>2. sio' = [sio EXCEPT !.pc = "next", !.todo = sio.todo \ {sio.cam}, !.answer = a, !.cam = 1,
                           !.snapshot = 0]
    BY <1>2 DEF UnitDone
  <2> HIDE DEF a
  <2>3. /\ sio'.pc = "next" /\ sio'.kind = sio.kind /\ sio'.todo = sio.todo \ {sio.cam}
        /\ sio'.answer = a
    BY <2>2 DEF HandlerOK
  <2>4. QED
    BY <2>1, <2>3
<1>3. QED
  BY <1>1, <1>2

(***************************************************************************)
(* What each step of the network thread does to the handler.               *)
(***************************************************************************)
LEMMA HandlerHoldsStep ==
  ASSUME PartsOK, LifeCycle, HandlerHolds, [Moves]_live
  PROVE  HandlerHolds'
<1>1. SettersOK /\ HandlerOK /\ RowsOK /\ WireOK
  BY DEF PartsOK
<1>2. sio.kind \in Kinds /\ sio.cam \in Cams /\ sio.todo \subseteq Cams
  BY <1>1 DEF HandlerOK
<1>3. CASE RecvEvent \/ BinderNotFound \/ FetchFails \/ \E c \in Cams : ApplyThrows(c)
  <2>1. RecvEvent => sio'.pc = "fetch"
    BY DEF RecvEvent, Idle
  <2>2. BinderNotFound \/ FetchFails \/ (\E c \in Cams : ApplyThrows(c)) => sio'.pc = "idle"
    BY DEF BinderNotFound, BinderLookup, FetchFails, ApplyThrows, Idle
  <2>3. QED
    BY <1>3, <2>1, <2>2 DEF HandlerHolds
<1>4. CASE FetchRows
  <2>1. /\ sio'.pc = "next" /\ sio'.kind = sio.kind /\ sio'.todo = sio.todo
        /\ \A c \in sio.todo : sio'.answer[c] = db[sio.kind][c]
    BY <1>1, <1>4 DEF FetchRows, Fetched, HandlerOK
  <2>2. db' = db
    BY <1>4 DEF FetchRows, serverVars
  <2>3. QED
    BY <2>1, <2>2 DEF HandlerHolds
<1>5. CASE FetchError
  <2>1. sio'.pc = "next" /\ sio'.kind = sio.kind /\ sio'.todo = sio.todo
    BY <1>1, <1>5 DEF FetchError, Fetched, HandlerOK
  <2>2. sio.todo \subseteq missed'[sio.kind]
    BY <1>1, <1>2, <1>5 DEF FetchError, WireOK
  <2>3. QED
    BY <2>1, <2>2 DEF HandlerHolds
<1>6. CASE \E c \in Cams : Apply(c)
  <2>1. PICK c \in Cams : Apply(c)
    BY <1>6
  <2>2. /\ sio.pc = "next" /\ sio'.pc = "collect" /\ sio'.kind = sio.kind /\ sio'.todo = sio.todo
        /\ sio'.answer = sio.answer /\ sio'.cam = c /\ c \in sio.todo
        /\ sio'.snapshot = UpdateFromJson(sio.kind, sio.answer[c])
    BY <1>1, <2>1 DEF Apply, HandlerOK
  <2>3. settings'[sio.kind][c].setting_data = UpdateFromJson(sio.kind, sio.answer[c])
    <3>1. sio.answer[c] \in Rows
      BY <1>1 DEF HandlerOK
    <3>2. QED
      BY <1>1, <1>2, <2>1, <3>1, UpdateEffect DEF Apply
  <2>4. UNCHANGED <<db, missed, wire>> /\ OnWire(sio.kind)' = OnWire(sio.kind)
    BY <2>1, <2>2, WireUnchanged DEF Apply, connVars, serverVars, OnWire
  <2>5. QED
    BY <2>2, <2>3, <2>4 DEF HandlerHolds
<1>7. CASE CollectCallback
  <2>1. /\ sio.pc = "collect" /\ sio'.pc = "invoke" /\ sio'.kind = sio.kind /\ sio'.todo = sio.todo
        /\ sio'.answer = sio.answer /\ sio'.cam = sio.cam /\ sio'.snapshot = sio.snapshot
        /\ settings[sio.kind][sio.cam].registered
    BY <1>1, <1>7 DEF CollectCallback, HandlerOK
  <2>2. UNCHANGED <<settings, db, missed, wire>> /\ OnWire(sio.kind)' = OnWire(sio.kind)
    BY <1>7, <2>1, WireUnchanged DEF CollectCallback, connVars, serverVars, OnWire
  <2>3. QED
    BY <2>1, <2>2 DEF HandlerHolds
<1>8. CASE CollectNone \/ InvokeCallback
  <2>1. UnitDone /\ sio.pc \in {"collect", "invoke"} /\ UNCHANGED <<db, wire>>
    BY <1>8 DEF CollectNone, InvokeCallback, connVars, serverVars
  <2>2. missed[sio.kind] \subseteq missed'[sio.kind]
    BY <1>1, <1>2, <1>8 DEF CollectNone, InvokeCallback, WireOK
  <2>3. CASE sio'.pc = "idle"
    BY <2>3 DEF HandlerHolds
  <2>4. CASE /\ sio'.pc = "next" /\ sio'.kind = sio.kind
             /\ sio'.todo = sio.todo \ {sio.cam}
             /\ \A c \in sio'.todo : sio'.answer[c] = sio.answer[c]
    <3>1. OnWire(sio.kind)' = OnWire(sio.kind)
      BY <2>1, <2>4 DEF OnWire
    <3>2. QED
      BY <2>1, <2>2, <2>4, <3>1 DEF HandlerHolds
  <2>5. QED
    BY <1>1, <2>1, <2>3, <2>4, UnitDoneEffect
<1>9. CASE \E k \in Kinds, S \in (SUBSET Cams) \ {{}}, rows \in Rows : ServerChange(k, S, rows)
  <2>1. PICK k \in Kinds, S \in SUBSET Cams, rows \in Rows : ServerChange(k, S, rows)
    BY <1>9
  <2>2. UNCHANGED <<sio, settings>>
    BY <2>1 DEF ServerChange
  <2>3. sio.pc # "idle" => k \in loaded
    BY DEF LifeCycle, AllLoaded
  <2>4. ASSUME sio.pc # "idle", NEW c \in sio.todo,
               c \notin missed'[sio.kind], c \notin OnWire(sio.kind)'
        PROVE  /\ c \notin missed[sio.kind] /\ c \notin OnWire(sio.kind)
               /\ db'[sio.kind][c] = db[sio.kind][c]
    <3>1. sio'.kind = sio.kind
      BY <2>2
    <3>2. \A j, d : d \in OnWire(j) => d \in OnWire(j)'
      BY <2>1, ServerEffect
    <3>3. c \notin OnWire(sio.kind)
      <4>1. ASSUME NEW j, j = sio.kind PROVE OnWire(sio.kind)' = OnWire(j)'
        BY <3>1, <4>1 DEF OnWire
      <4>2. QED
        BY <2>4, <3>2, <4>1
    <3>4. c \notin missed[sio.kind] /\ (sio.kind # k \/ c \notin S)
      <4>1. sio.kind = k => OnWire(sio.kind)' = OnWire(k)'
        BY <3>1 DEF OnWire
      <4>2. QED
        BY <1>2, <2>1, <2>3, <2>4, <4>1, ServerEffect
    <3>5. QED
      BY <1>2, <2>1, <3>3, <3>4, ServerEffect, SMTT(60)
  <2>5. QED
    BY <2>2, <2>4 DEF HandlerHolds
<1>10. CASE ConnectionDrops \/ TerminateSocketIO
  <2>1. UNCHANGED <<sio, settings, db>> /\ LoseWire
    BY <1>10 DEF ConnectionDrops, TerminateSocketIO, serverVars
  <2>2. missed'[sio.kind] = missed[sio.kind] \cup OnWire(sio.kind)
    BY <1>2, <2>1 DEF LoseWire
  <2>3. QED
    BY <2>1, <2>2 DEF HandlerHolds
<1>11. CASE Loads
  <2>1. sio.pc = "idle" /\ sio' = sio
    BY <1>11 DEF Loads, LoadSettings, LoadThrows, LifeCycle, BeforeUnits, AllLoaded
  <2>2. QED
    BY <2>1 DEF HandlerHolds
<1>12. CASE MainThread /\ ~Loads /\ ~TerminateSocketIO
  <2>1. UNCHANGED <<sio, db, missed, wire>>
    BY <1>12 DEF MainThread, Boot, ConnectSocketIO, BindEvent, StageFails, UnitInitFails,
       GetExclude, SetExclude, ReadSchedule, SubscribeExclude, SubscribeSchedule, RunRTSP,
       StartUnit, WaitUntilQuitSignal, QuitService, StopRTSP, ClearSubscription, DestroyUnit,
       connVars, serverVars, Loads
  <2>2. OnWire(sio.kind)' = OnWire(sio.kind)
    BY <2>1 DEF OnWire
  <2>3. main = "destroy" => sio.pc = "idle"
    BY DEF LifeCycle, AtTheEnd
  <2>4. QED
    BY <1>2, <1>12, <2>1, <2>2, <2>3, MainKeepsData DEF HandlerHolds, SameData
<1>13. CASE Reconnects \/ ExitSignalHandler \/ UNCHANGED live
  <2>1. UNCHANGED <<sio, settings, db, missed, wire>>
    BY <1>13 DEF Reconnects, ExitSignalHandler, live, connVars, serverVars
  <2>2. OnWire(sio.kind)' = OnWire(sio.kind)
    BY <2>1 DEF OnWire
  <2>3. QED
    BY <2>1, <2>2 DEF HandlerHolds
<1>14. QED
  BY <1>3, <1>4, <1>5, <1>6, <1>7, <1>8, <1>9, <1>10, <1>11, <1>12, <1>13
     DEF Moves, NetworkThread, MainThread, Loads, Environment

(***************************************************************************)
(* A camera of which nothing is on its way after a step was so before it,  *)
(* unless the handler has just finished with it.                           *)
(***************************************************************************)
Finishing(k, c) == /\ sio.pc \in {"collect", "invoke"} /\ sio.kind = k /\ sio.cam = c
                   /\ c \notin missed[k] /\ c \notin OnWire(k)

LEMMA SureBefore ==
  ASSUME PartsOK, LifeCycle, [Moves]_live, NEW k \in Kinds, NEW c \in Cams, Sure(k, c)'
  PROVE  Sure(k, c) \/ Finishing(k, c)
<1>1. HandlerOK /\ WireOK
  BY DEF PartsOK
<1>2. /\ c \notin missed'[k] /\ c \notin OnWire(k)'
      /\ ~(sio'.pc # "idle" /\ sio'.kind = k /\ c \in sio'.todo)
  BY DEF Sure, Pending
<1> SUFFICES /\ c \notin missed[k] /\ c \notin OnWire(k)
             /\ (sio.pc # "idle" /\ sio.kind = k /\ c \in sio.todo) => Finishing(k, c)
  BY DEF Sure, Pending
<1>3. CASE RecvEvent
  <2>1. wire # <<>> /\ wire' = Tail(wire) /\ sio.pc = "idle" /\ missed' = missed
    BY <1>3 DEF RecvEvent, BinderLookup
  <2>2. sio'.pc = "fetch" /\ sio'.kind = Head(wire).kind /\ sio'.todo = Head(wire).cams
    BY <1>3 DEF RecvEvent, Idle
  <2>3. c \notin OnWire(k)
    BY <1>1, <1>2, <2>1, <2>2, WireTail
  <2>4. QED
    BY <1>2, <2>1, <2>3
<1>4. CASE BinderNotFound
  <2>1. /\ wire # <<>> /\ wire' = Tail(wire) /\ sio.pc = "idle"
        /\ missed' = [missed EXCEPT ![Head(wire).kind] = @ \cup Head(wire).cams]
    BY <1>4 DEF BinderNotFound, BinderLookup
  <2>2. c \notin missed[k] /\ ~(Head(wire).kind = k /\ c \in Head(wire).cams)
    BY <1>1, <1>2, <2>1 DEF WireOK
  <2>3. c \notin OnWire(k)
    BY <1>1, <1>2, <2>1, <2>2, WireTail
  <2>4. QED
    BY <2>1, <2>2, <2>3
<1>5. CASE FetchRows \/ FetchError
  <2>1. sio'.pc = "next" /\ sio'.kind = sio.kind /\ sio'.todo = sio.todo /\ wire' = wire
    BY <1>1, <1>5 DEF FetchRows, FetchError, Fetched, HandlerOK, connVars
  <2>2. /\ sio.pc = "fetch" /\ sio.kind \in Kinds
        /\ \/ missed' = [missed EXCEPT ![sio.kind] = @ \ sio.todo]
           \/ missed' = [missed EXCEPT ![sio.kind] = @ \cup sio.todo]
    BY <1>1, <1>5 DEF FetchRows, FetchError, HandlerOK
  <2>3. c \notin missed[k]
    BY <1>1, <1>2, <2>1, <2>2 DEF WireOK
  <2>4. QED
    BY <1>2, <2>1, <2>2, <2>3, WireUnchanged
<1>6. CASE FetchFails \/ \E d \in Cams : ApplyThrows(d)
  <2>1. /\ sio.kind \in Kinds /\ wire' = wire
        /\ missed' = [missed EXCEPT ![sio.kind] = @ \cup sio.todo]
    BY <1>1, <1>6 DEF FetchFails, ApplyThrows, HandlerOK, connVars
  <2>2. QED
    BY <1>1, <1>2, <2>1, WireUnchanged DEF WireOK
<1>7. CASE (\E d \in Cams : Apply(d)) \/ CollectCallback
  <2>1. /\ sio'.pc # "idle" /\ sio'.kind = sio.kind /\ sio'.todo = sio.todo
        /\ UNCHANGED <<missed, wire>>
    BY <1>1, <1>7 DEF Apply, CollectCallback, HandlerOK, connVars
  <2>2. QED
    BY <1>2, <2>1, WireUnchanged
<1>8. CASE CollectNone \/ InvokeCallback
  <2>1. UnitDone /\ sio.pc \in {"collect", "invoke"} /\ wire' = wire /\ sio.kind \in Kinds
    BY <1>1, <1>8 DEF CollectNone, InvokeCallback, connVars, HandlerOK
  <2>2. c \notin missed[k]
    BY <1>1, <1>2, <1>8 DEF CollectNone, InvokeCallback, WireOK, HandlerOK
  <2>3. c \notin OnWire(k)
    BY <1>2, <2>1, WireUnchanged
  <2>4. (sio.kind = k /\ c \in sio.todo) => c = sio.cam
    BY <1>1, <1>2, <2>1, UnitDoneEffect
  <2>5. QED
    BY <2>1, <2>2, <2>3, <2>4 DEF Finishing
<1>9. CASE \E j \in Kinds, S \in (SUBSET Cams) \ {{}}, rows \in Rows : ServerChange(j, S, rows)
  <2>1. PICK j \in Kinds, S \in SUBSET Cams, rows \in Rows : ServerChange(j, S, rows)
    BY <1>9
  <2>2. sio' = sio
    BY <2>1 DEF ServerChange
  <2>3. c \notin missed[k] /\ c \notin OnWire(k)
    BY <1>2, <2>1, ServerEffect
  <2>4. QED
    BY <1>2, <2>2, <2>3
<1>10. CASE ConnectionDrops \/ TerminateSocketIO
  <2>1. sio' = sio /\ LoseWire
    BY <1>10 DEF ConnectionDrops, TerminateSocketIO
  <2>2. missed'[k] = missed[k] \cup OnWire(k)
    BY <2>1 DEF LoseWire
  <2>3. QED
    BY <1>2, <2>1, <2>2
<1>11. CASE Loads
  <2>1. UNCHANGED <<sio, wire>>
    BY <1>11 DEF Loads, LoadSettings, LoadThrows, connVars
  <2>2. missed[k] \subseteq missed'[k]
    BY <1>11, LoadEffect
  <2>3. QED
    BY <1>2, <2>1, <2>2, WireUnchanged
<1>12. CASE (MainThread /\ ~TerminateSocketIO /\ ~Loads) \/ Reconnects \/ ExitSignalHandler \/ UNCHANGED live
  <2>1. UNCHANGED <<sio, missed, wire>>
    BY <1>12 DEF MainThread, Loads, Boot, ConnectSocketIO, BindEvent, StageFails,
       UnitInitFails, GetExclude, SetExclude, ReadSchedule, SubscribeExclude, SubscribeSchedule,
       RunRTSP, StartUnit, WaitUntilQuitSignal, QuitService, StopRTSP, ClearSubscription,
       DestroyUnit, Reconnects, ExitSignalHandler, live, connVars
  <2>2. QED
    BY <1>2, <2>1, WireUnchanged
<1>13. QED
  BY <1>3, <1>4, <1>5, <1>6, <1>7, <1>8, <1>9, <1>10, <1>12, <1>11
     DEF Moves, NetworkThread, Environment

(***************************************************************************)
(* The manager follows the server.                                         *)
(***************************************************************************)
LEMMA ManagerFollowsStep ==
  ASSUME PartsOK, LifeCycle, HandlerHolds, ManagerFollows, [Moves]_live
  PROVE  ManagerFollows'
<1>1. SettersOK /\ HandlerOK /\ RowsOK /\ MainOK
  BY DEF PartsOK
<1> SUFFICES ASSUME NEW k \in Kinds, NEW c \in Cams, k \in loaded', Sure(k, c)'
             PROVE  settings'[k][c].setting_data = UpdateFromJson(k, db'[k][c])
  BY DEF ManagerFollows
<1>2. Sure(k, c) \/ Finishing(k, c)
  BY SureBefore
<1>3. k \in loaded => settings[k][c].setting_data = UpdateFromJson(k, db[k][c])
  <2>1. Sure(k, c) => (k \in loaded => settings[k][c].setting_data = UpdateFromJson(k, db[k][c]))
    BY DEF ManagerFollows
  <2>2. Finishing(k, c) => settings[k][c].setting_data = UpdateFromJson(k, db[k][c])
    BY DEF Finishing, HandlerHolds
  <2>3. QED
    BY <1>2, <2>1, <2>2
<1>4. CASE Loads
  <2>1. PICK j \in Kinds :
          /\ loaded' = loaded \cup {j}
          /\ \A d \in Cams : \/ settings'[j][d].setting_data = UpdateFromJson(j, db[j][d])
                              \/ d \in missed'[j]
          /\ \A i \in Kinds, d \in Cams : i # j => settings'[i][d] = settings[i][d]
    BY <1>4, LoadEffect
  <2>2. c \notin missed'[k]
    BY DEF Sure
  <2>3. db' = db
    BY <1>4 DEF Loads, LoadSettings, LoadThrows, serverVars
  <2>4. QED
    BY <1>3, <2>1, <2>2, <2>3
<1>5. CASE MainThread /\ ~Loads
  <2>1. settings'[k][c].setting_data = settings[k][c].setting_data
    BY <1>5, MainKeepsData DEF SameData
  <2>2. loaded' = loaded /\ db' = db
    BY <1>5 DEF MainThread, Boot, ConnectSocketIO, BindEvent, StageFails, UnitInitFails,
       GetExclude, SetExclude, ReadSchedule, SubscribeExclude, SubscribeSchedule, RunRTSP,
       StartUnit, WaitUntilQuitSignal, QuitService, TerminateSocketIO, StopRTSP,
       ClearSubscription, DestroyUnit, serverVars, Loads
  <2>3. QED
    BY <1>3, <2>1, <2>2
<1>6. CASE \E d \in Cams : Apply(d)
  <2>1. PICK d \in Cams : Apply(d)
    BY <1>6
  <2>2. sio.kind \in Kinds /\ sio.answer[d] \in Rows
    BY <1>1 DEF HandlerOK
  <2>3. sio'.pc = "collect" /\ sio'.kind = sio.kind /\ d \in sio'.todo
    BY <1>1, <2>1 DEF Apply, HandlerOK
  <2>4. k # sio.kind \/ c # d
    BY <2>3 DEF Sure, Pending
  <2>5. settings'[k][c] = settings[k][c]
    BY <1>1, <2>1, <2>2, <2>4, UpdateEffect DEF Apply
  <2>6. loaded' = loaded /\ db' = db
    BY <2>1 DEF Apply, mainVars, serverVars
  <2>7. QED
    BY <1>3, <2>5, <2>6
<1>7. CASE \E j \in Kinds, S \in (SUBSET Cams) \ {{}}, rows \in Rows : ServerChange(j, S, rows)
  <2>1. PICK j \in Kinds, S \in SUBSET Cams, rows \in Rows : ServerChange(j, S, rows)
    BY <1>7
  <2>2. UNCHANGED <<settings, loaded>>
    BY <2>1 DEF ServerChange, mainVars
  <2>3. c \notin missed'[k] /\ c \notin OnWire(k)'
    BY DEF Sure, Pending
  <2>4. db'[k][c] = db[k][c]
    BY <2>1, <2>2, <2>3, ServerEffect
  <2>5. QED
    BY <1>3, <2>2, <2>4
<1>8. CASE \E d \in Cams : ApplyThrows(d)
  <2>1. PICK d \in Cams : ApplyThrows(d)
    BY <1>8
  <2>2. sio.kind \in Kinds
    BY <1>1 DEF HandlerOK
  <2>3. settings'[k][c].setting_data = settings[k][c].setting_data
    BY <1>1, <2>1, <2>2, ThrowEffect DEF ApplyThrows
  <2>4. loaded' = loaded /\ db' = db
    BY <2>1 DEF ApplyThrows, mainVars, serverVars
  <2>5. QED
    BY <1>3, <2>3, <2>4
<1>9. CASE \/ NetworkThread /\ ~(\E d \in Cams : Apply(d) \/ ApplyThrows(d))
           \/ ConnectionDrops \/ Reconnects \/ ExitSignalHandler \/ UNCHANGED live
  <2>1. UNCHANGED <<settings, loaded, db>>
    BY <1>9 DEF NetworkThread, RecvEvent, BinderNotFound, FetchRows, FetchError, FetchFails,
       CollectCallback, CollectNone, InvokeCallback, ConnectionDrops, Reconnects,
       ExitSignalHandler, live, mainVars, serverVars
  <2>2. QED
    BY <1>3, <2>1
<1>10. QED
  BY <1>4, <1>5, <1>6, <1>7, <1>9, <1>8 DEF Moves, Environment

(***************************************************************************)
(* The units follow the manager: first the steps of the network thread and *)
(* of the environment, which leave the stages of the units alone.          *)
(***************************************************************************)
LEMMA UnitFollowsNetwork ==
  ASSUME PartsOK, LifeCycle, Registration, HandlerHolds, UnitFollows,
         NetworkThread \/ Environment \/ UNCHANGED live
  PROVE  UnitFollows'
<1>1. SettersOK /\ HandlerOK /\ RowsOK /\ WireOK /\ MainOK
  BY DEF PartsOK
<1>2. UNCHANGED mainVars
  BY DEF NetworkThread, RecvEvent, BinderNotFound, FetchRows, FetchError, FetchFails, Apply,
     ApplyThrows, CollectCallback, CollectNone, InvokeCallback, Environment, ServerChange,
     ConnectionDrops, Reconnects, ExitSignalHandler, live
<1> SUFFICES ASSUME NEW k \in Kinds, NEW c \in Cams
             PROVE  /\ (HasRead(k, c)' /\ c \notin missed'[k] /\ ~Handling(k, c)') =>
                         Taken(k, c)' = settings'[k][c].setting_data
                    /\ (~HasRead(k, c)' /\ unit'[c] # "destroyed") => local'[k][c] = 0
                    /\ AtSetExclude(k, c)' => local'[k][c] = 0
  BY DEF UnitFollows
<1>3. /\ HasRead(k, c)' = HasRead(k, c) /\ AtSetExclude(k, c)' = AtSetExclude(k, c)
      /\ unit' = unit /\ exclude_data_opt' = exclude_data_opt
  BY <1>2 DEF mainVars, HasRead, AtSetExclude
<1>4. ASSUME local'[k][c] = local[k][c],
             settings'[k][c].setting_data = settings[k][c].setting_data \/ Handling(k, c)',
             (c \notin missed'[k] /\ ~Handling(k, c)' /\ HasRead(k, c)) =>
               c \notin missed[k] /\ ~Handling(k, c)
      PROVE  /\ (HasRead(k, c)' /\ c \notin missed'[k] /\ ~Handling(k, c)') =>
                  Taken(k, c)' = settings'[k][c].setting_data
             /\ (~HasRead(k, c)' /\ unit'[c] # "destroyed") => local'[k][c] = 0
             /\ AtSetExclude(k, c)' => local'[k][c] = 0
  <2>1. Taken(k, c)' = Taken(k, c)
    BY <1>3, <1>4 DEF Taken
  <2>2. QED
    BY <1>3, <1>4, <2>1 DEF UnitFollows
<1>5. CASE RecvEvent \/ BinderNotFound
  <2>1. sio.pc = "idle" /\ UNCHANGED <<settings, local>> /\ missed[k] \subseteq missed'[k]
    BY <1>1, <1>5 DEF RecvEvent, BinderNotFound, BinderLookup, WireOK
  <2>2. ~Handling(k, c)
    BY <2>1 DEF Handling
  <2>3. QED
    BY <1>4, <2>1, <2>2
<1>6. CASE FetchRows \/ FetchError
  <2>1. /\ sio.pc = "fetch" /\ sio'.pc = "next" /\ sio'.kind = sio.kind /\ sio'.todo = sio.todo
        /\ UNCHANGED <<settings, local>>
    BY <1>1, <1>6 DEF FetchRows, FetchError, Fetched, HandlerOK
  <2>2. Handling(k, c)' <=> Handling(k, c)
    BY <2>1 DEF Handling
  <2>3. c \in missed[k] => c \in missed'[k] \/ Handling(k, c)
    BY <1>1, <1>6, <2>1 DEF FetchRows, FetchError, WireOK, HandlerOK, Handling
  <2>4. QED
    BY <1>4, <2>1, <2>2, <2>3
<1>7. CASE FetchFails \/ \E d \in Cams : ApplyThrows(d)
  <2>1. /\ sio.kind \in Kinds /\ local' = local
        /\ missed' = [missed EXCEPT ![sio.kind] = @ \cup sio.todo]
    BY <1>1, <1>7 DEF FetchFails, ApplyThrows, HandlerOK
  <2>2. c \notin missed'[k] => c \notin missed[k] /\ ~Handling(k, c)
    BY <1>1, <2>1 DEF WireOK, Handling
  <2>3. settings'[k][c].setting_data = settings[k][c].setting_data
    BY <1>1, <1>7, <2>1, ThrowEffect DEF FetchFails, ApplyThrows
  <2>4. QED
    BY <1>4, <2>1, <2>2, <2>3
<1>8. CASE \E d \in Cams : Apply(d)
  <2>1. PICK d \in Cams : Apply(d)
    BY <1>8
  <2>2. sio.kind \in Kinds /\ sio.answer[d] \in Rows
    BY <1>1 DEF HandlerOK
  <2>3. /\ sio.pc = "next" /\ sio'.pc = "collect" /\ sio'.kind = sio.kind /\ sio'.todo = sio.todo
        /\ d \in sio.todo /\ UNCHANGED <<local, missed>>
    BY <1>1, <2>1 DEF Apply, HandlerOK
  <2>4. Handling(k, c)' <=> Handling(k, c)
    BY <2>3 DEF Handling
  <2>5. settings'[k][c] = settings[k][c] \/ Handling(k, c)
    <3>1. (k # sio.kind \/ c # d) => settings'[k][c] = settings[k][c]
      BY <1>1, <2>1, <2>2, UpdateEffect DEF Apply
    <3>2. QED
      BY <2>3, <3>1 DEF Handling
  <2>6. QED
    BY <1>4, <2>3, <2>4, <2>5
<1>9. CASE CollectCallback
  <2>1. /\ sio.pc = "collect" /\ sio'.pc = "invoke" /\ sio'.kind = sio.kind /\ sio'.todo = sio.todo
        /\ UNCHANGED <<settings, local, missed>>
    BY <1>1, <1>9 DEF CollectCallback, HandlerOK
  <2>2. Handling(k, c)' <=> Handling(k, c)
    BY <2>1 DEF Handling
  <2>3. QED
    BY <1>4, <2>1, <2>2
<1>10. CASE CollectNone
  <2>1. /\ UnitDone /\ sio.kind \in Kinds /\ UNCHANGED <<settings, local>>
        /\ missed' = IF HasRead(sio.kind, sio.cam)
                     THEN [missed EXCEPT ![sio.kind] = @ \cup {sio.cam}] ELSE missed
    BY <1>1, <1>10 DEF CollectNone, HandlerOK
  <2>2. Handling(k, c) => Handling(k, c)' \/ (sio.kind = k /\ sio.cam = c)
    BY <1>1, <2>1, UnitDoneEffect DEF Handling
  <2>3. (sio.kind = k /\ sio.cam = c /\ HasRead(k, c)) => c \in missed'[k]
    BY <1>1, <2>1 DEF WireOK
  <2>4. missed[k] \subseteq missed'[k]
    BY <1>1, <2>1 DEF WireOK
  <2>5. QED
    BY <1>4, <2>1, <2>2, <2>3, <2>4
<1>11. CASE InvokeCallback
  <2>1. /\ UnitDone /\ sio.pc = "invoke" /\ UNCHANGED <<settings, missed>>
        /\ local' = [local EXCEPT ![sio.kind][sio.cam] = sio.snapshot]
        /\ sio.kind \in Kinds /\ sio.cam \in Cams
    BY <1>1, <1>11 DEF InvokeCallback, HandlerOK
  <2>2. Handling(k, c) => Handling(k, c)' \/ (sio.kind = k /\ sio.cam = c)
    BY <1>1, <2>1, UnitDoneEffect DEF Handling
  <2>3. CASE sio.kind # k \/ sio.cam # c
    <3>1. local'[k][c] = local[k][c]
      BY <1>1, <2>1, <2>3 DEF RowsOK
    <3>2. QED
      BY <1>4, <2>1, <2>2, <2>3, <3>1
  <2>4. CASE sio.kind = k /\ sio.cam = c
    <3>1. local'[k][c] = settings[k][c].setting_data
      BY <1>1, <2>1, <2>4 DEF RowsOK, HandlerHolds
    <3>2. k \in subscriptions[c]
      BY <2>1, <2>4 DEF HandlerHolds, Registration
    <3>3. unit[c] = "initialized" \/ (cam = c /\ step = "subSchedule" /\ k = "exclude")
      BY <3>2 DEF Registration
    <3>4. HasRead(k, c)
      BY <3>3 DEF HasRead, LifeCycle, InsideInit
    <3>5. ~AtSetExclude(k, c)
      BY <3>3 DEF AtSetExclude, LifeCycle, InsideInit
    <3>6. QED
      BY <1>3, <2>1, <3>1, <3>4, <3>5 DEF Taken
  <2>5. QED
    BY <2>3, <2>4
<1>12. CASE Environment \/ UNCHANGED live
  <2>1. UNCHANGED <<sio, settings, local>>
    BY <1>12 DEF Environment, ServerChange, ConnectionDrops, Reconnects, ExitSignalHandler, live
  <2>2. missed[k] \subseteq missed'[k]
    BY <1>1, <1>12, ZenonT(60) DEF Environment, ServerChange, ConnectionDrops, LoseWire,
       Reconnects, ExitSignalHandler, live, WireOK
  <2>3. Handling(k, c)' <=> Handling(k, c)
    BY <2>1 DEF Handling
  <2>4. QED
    BY <1>4, <2>1, <2>2, <2>3
<1>13. QED
  BY <1>5, <1>6, <1>7, <1>8, <1>9, <1>10, <1>11, <1>12 DEF NetworkThread

(***************************************************************************)
(* Then the main thread, which takes the units through their stages.       *)
(***************************************************************************)
LEMMA UnitFollowsMain ==
  ASSUME PartsOK, LifeCycle, EmptyUntilSet, UnitFollows, MainThread
  PROVE  UnitFollows'
<1>1. SettersOK /\ RowsOK /\ WireOK /\ MainOK
  BY DEF PartsOK
<1> SUFFICES ASSUME NEW k \in Kinds, NEW c \in Cams
             PROVE  /\ (HasRead(k, c)' /\ c \notin missed'[k] /\ ~Handling(k, c)') =>
                         Taken(k, c)' = settings'[k][c].setting_data
                    /\ (~HasRead(k, c)' /\ unit'[c] # "destroyed") => local'[k][c] = 0
                    /\ AtSetExclude(k, c)' => local'[k][c] = 0
  BY DEF UnitFollows
<1>2. sio' = sio /\ missed[k] \subseteq missed'[k]
  <2>1. CASE Loads
    BY <2>1, LoadEffect DEF Loads, LoadSettings, LoadThrows
  <2>2. CASE ~Loads
    BY <1>1, <2>2 DEF MainThread, Loads, Boot, ConnectSocketIO, BindEvent, StageFails,
       UnitInitFails, GetExclude, SetExclude, ReadSchedule, SubscribeExclude, SubscribeSchedule,
       RunRTSP, StartUnit, WaitUntilQuitSignal, QuitService, TerminateSocketIO, LoseWire,
       StopRTSP, ClearSubscription, DestroyUnit, WireOK
  <2>3. QED
    BY <2>1, <2>2
<1>3. Handling(k, c)' <=> Handling(k, c)
  BY <1>2 DEF Handling
<1>4. ~Loads => settings'[k][c].setting_data = settings[k][c].setting_data
  BY MainKeepsData DEF SameData
<1>5. step \notin {"none", "getExclude"} => main \in {"init", "start"} /\ unit[cam] = "built"
  BY DEF LifeCycle, InsideInit
<1>6. ASSUME HasRead(k, c)' => HasRead(k, c), ~Loads, ~AtSetExclude(k, c)',
             ~AtSetExclude(k, c), local' = local, unit[c] = "destroyed" => unit'[c] = "destroyed",
             ~HasRead(k, c)' => ~HasRead(k, c) \/ unit'[c] = "destroyed"
      PROVE  /\ (HasRead(k, c)' /\ c \notin missed'[k] /\ ~Handling(k, c)') =>
                  Taken(k, c)' = settings'[k][c].setting_data
             /\ (~HasRead(k, c)' /\ unit'[c] # "destroyed") => local'[k][c] = 0
             /\ AtSetExclude(k, c)' => local'[k][c] = 0
  <2>1. Taken(k, c) = local[k][c] /\ Taken(k, c)' = local'[k][c]
    BY <1>6 DEF Taken
  <2>2. QED
    BY <1>2, <1>3, <1>4, <1>6, <2>1 DEF UnitFollows
<1>7. CASE Boot \/ Loads \/ ConnectSocketIO \/ StageFails
  <2>1. UNCHANGED <<local, cam, step, unit>> /\ step \in {"none", "getExclude"}
    BY <1>1, <1>5, <1>7 DEF Boot, Loads, LoadSettings, LoadThrows, ConnectSocketIO, StageFails,
       MainOK
  <2>2. ~AtSetExclude(k, c)' /\ ~AtSetExclude(k, c) /\ (HasRead(k, c)' <=> HasRead(k, c))
    BY <2>1 DEF AtSetExclude, HasRead
  <2>3. Loads => ~HasRead(k, c)
    BY <1>7, <2>1 DEF Loads, LoadSettings, LoadThrows, HasRead, LifeCycle, BeforeUnits
  <2>4. QED
    BY <1>6, <2>1, <2>2, <2>3 DEF UnitFollows
<1>8. CASE BindEvent
  <2>1. /\ local' = local /\ step' \in {"none", "getExclude"} /\ step = "none"
        /\ unit[c] = "none" /\ unit'[c] \in {"none", "built"}
    BY <1>1, <1>8 DEF BindEvent, LifeCycle, BeforeUnits, MainOK
  <2>2. ~AtSetExclude(k, c)' /\ ~AtSetExclude(k, c) /\ ~HasRead(k, c)' /\ ~HasRead(k, c)
    BY <2>1 DEF AtSetExclude, HasRead
  <2>3. QED
    BY <2>1, <2>2 DEF UnitFollows
<1>9. CASE UnitInitFails \/ StartUnit
  <2>1. step \in {"none", "getExclude"} /\ step' = "getExclude" /\ UNCHANGED <<local, unit>>
    BY <1>1, <1>5, <1>9 DEF UnitInitFails, StartUnit, NextUnit, MainOK
  <2>2. ~AtSetExclude(k, c)' /\ ~AtSetExclude(k, c) /\ (HasRead(k, c)' <=> HasRead(k, c))
    BY <2>1 DEF AtSetExclude, HasRead
  <2>3. ~Loads
    BY <1>9 DEF UnitInitFails, StartUnit, Loads, LoadSettings, LoadThrows, InLoop
  <2>4. QED
    BY <1>6, <2>1, <2>2, <2>3
<1>10. CASE GetExclude
  <2>1. /\ InLoop /\ unit[cam] = "built" /\ step = "getExclude" /\ step' = "setExclude"
        /\ UNCHANGED <<main, cam, unit, local>> /\ ~Loads
        /\ exclude_data_opt' = IF HasSetting("exclude", cam) THEN GetSetting("exclude", cam)
                               ELSE NoOpt
    BY <1>10 DEF GetExclude, Loads, LoadSettings, LoadThrows, InLoop
  <2>2. CASE k = "exclude" /\ cam = c
    <3>1. ~HasRead(k, c) /\ local[k][c] = 0
      BY <2>1, <2>2 DEF HasRead, UnitFollows
    <3>2. AtSetExclude(k, c)'
      BY <2>1, <2>2 DEF AtSetExclude
    <3>3. HasRead(k, c)'
      BY <2>1, <2>2 DEF HasRead, InLoop
    <3>4. Taken(k, c)' = settings[k][c].setting_data
      <4>1. settings[k][c].setting_data \in Rows
        BY <1>1 DEF SettersOK, Setter
      <4>2. settings[k][c].setting_data # NoOpt
        BY <4>1, RowsAssumption DEF NoOpt, Rows
      <4>3. CASE HasSetting("exclude", cam)
        BY <2>1, <2>2, <3>2, <4>2, <4>3 DEF Taken, GetSetting
      <4>4. CASE ~HasSetting("exclude", cam)
        BY <2>1, <2>2, <3>1, <4>4 DEF Taken, HasSetting, EmptyUntilSet
      <4>5. QED
        BY <4>3, <4>4
    <3>5. QED
      BY <1>4, <2>1, <3>1, <3>3, <3>4
  <2>3. CASE k # "exclude" \/ cam # c
    <3>1. ~AtSetExclude(k, c)' /\ ~AtSetExclude(k, c) /\ (HasRead(k, c)' <=> HasRead(k, c))
      BY <2>1, <2>3 DEF AtSetExclude, HasRead
    <3>2. QED
      BY <1>6, <2>1, <3>1
  <2>4. QED
    BY <2>2, <2>3
<1>11. CASE SetExclude
  <2>1. /\ InLoop /\ unit[cam] = "built" /\ step = "setExclude" /\ step' = "readSchedule"
        /\ UNCHANGED <<main, cam, unit>> /\ ~Loads
        /\ local' = IF exclude_data_opt = NoOpt THEN local
                    ELSE [local EXCEPT !["exclude"][cam] = exclude_data_opt]
    BY <1>5, <1>11 DEF SetExclude, Loads, LoadSettings, LoadThrows, InLoop
  <2>2. ~AtSetExclude(k, c)' /\ (HasRead(k, c)' <=> HasRead(k, c))
    BY <2>1 DEF AtSetExclude, HasRead, InLoop
  <2>3. CASE k = "exclude" /\ cam = c
    <3>1. local'[k][c] = Taken(k, c)
      BY <1>1, <2>1, <2>3 DEF Taken, AtSetExclude, RowsOK
    <3>2. HasRead(k, c)
      BY <2>1, <2>3 DEF HasRead, InLoop
    <3>3. QED
      BY <1>2, <1>3, <1>4, <2>1, <2>2, <3>1, <3>2 DEF UnitFollows, Taken
  <2>4. CASE k # "exclude" \/ cam # c
    <3>1. local'[k][c] = local[k][c] /\ ~AtSetExclude(k, c)
      BY <1>1, <2>1, <2>4 DEF RowsOK, AtSetExclude
    <3>2. Taken(k, c) = local[k][c] /\ Taken(k, c)' = local'[k][c]
      BY <2>2, <3>1 DEF Taken
    <3>3. QED
      BY <1>2, <1>3, <1>4, <2>1, <2>2, <3>1, <3>2 DEF UnitFollows
  <2>5. QED
    BY <2>3, <2>4
<1>12. CASE ReadSchedule
  <2>1. /\ InLoop /\ unit[cam] = "built" /\ step = "readSchedule" /\ step' = "subExclude"
        /\ UNCHANGED <<main, cam, unit>> /\ ~Loads
        /\ local' = IF HasSetting("schedule", cam)
                    THEN [local EXCEPT !["schedule"][cam] = GetSetting("schedule", cam)] ELSE local
    BY <1>5, <1>12 DEF ReadSchedule, Loads, LoadSettings, LoadThrows, InLoop
  <2>2. ~AtSetExclude(k, c)' /\ ~AtSetExclude(k, c)
    BY <2>1 DEF AtSetExclude
  <2>3. CASE k = "schedule" /\ cam = c
    <3>1. ~HasRead(k, c) /\ HasRead(k, c)'
      BY <2>1, <2>3 DEF HasRead, InLoop
    <3>2. local[k][c] = 0
      BY <2>1, <2>3, <3>1 DEF UnitFollows
    <3>3. local'[k][c] = settings[k][c].setting_data
      <4>1. CASE HasSetting("schedule", cam)
        BY <1>1, <2>1, <2>3, <4>1 DEF GetSetting, RowsOK
      <4>2. CASE ~HasSetting("schedule", cam)
        BY <2>1, <2>3, <3>2, <4>2 DEF HasSetting, EmptyUntilSet
      <4>3. QED
        BY <4>1, <4>2
    <3>4. QED
      BY <1>4, <2>1, <2>2, <3>1, <3>3 DEF Taken
  <2>4. CASE k # "schedule" \/ cam # c
    <3>1. local'[k][c] = local[k][c]
      BY <1>1, <2>1, <2>4 DEF RowsOK
    <3>2. HasRead(k, c)' <=> HasRead(k, c)
      BY <2>1, <2>4 DEF HasRead, InLoop, Kinds
    <3>3. Taken(k, c) = local[k][c] /\ Taken(k, c)' = local'[k][c]
      BY <2>2, <3>1 DEF Taken
    <3>4. QED
      BY <1>2, <1>3, <1>4, <2>1, <2>2, <3>1, <3>2, <3>3 DEF UnitFollows
  <2>5. QED
    BY <2>3, <2>4
<1>13. CASE SubscribeExclude
  <2>1. /\ InLoop /\ step = "subExclude" /\ step' = "subSchedule"
        /\ UNCHANGED <<main, cam, unit, local>> /\ ~Loads
    BY <1>13 DEF SubscribeExclude, Loads, LoadSettings, LoadThrows, InLoop
  <2>2. ~AtSetExclude(k, c)' /\ ~AtSetExclude(k, c) /\ (HasRead(k, c)' <=> HasRead(k, c))
    BY <2>1 DEF AtSetExclude, HasRead
  <2>3. QED
    BY <1>6, <2>1, <2>2
<1>14. CASE SubscribeSchedule
  <2>1. /\ InLoop /\ step = "subSchedule" /\ step' = "getExclude" /\ local' = local /\ ~Loads
        /\ unit' = [unit EXCEPT ![cam] = "initialized"] /\ unit[cam] = "built"
    BY <1>5, <1>14 DEF SubscribeSchedule, NextUnit, Loads, LoadSettings, LoadThrows, InLoop
  <2>2. ~AtSetExclude(k, c)' /\ ~AtSetExclude(k, c)
    BY <2>1 DEF AtSetExclude
  <2>3. CASE cam = c
    <3>1. HasRead(k, c) /\ HasRead(k, c)'
      BY <1>1, <2>1, <2>3 DEF HasRead, InLoop, MainOK
    <3>2. QED
      BY <1>6, <2>1, <2>2, <2>3, <3>1
  <2>4. CASE cam # c
    <3>1. unit'[c] = unit[c]
      BY <1>1, <2>1, <2>4 DEF MainOK
    <3>2. HasRead(k, c)' <=> HasRead(k, c)
      BY <2>1, <2>4, <3>1 DEF HasRead
    <3>3. QED
      BY <1>6, <2>1, <2>2, <3>1, <3>2
  <2>5. QED
    BY <2>3, <2>4
<1>15. CASE \/ RunRTSP \/ WaitUntilQuitSignal \/ QuitService \/ TerminateSocketIO \/ StopRTSP
            \/ \E j \in Kinds : ClearSubscription(j)
  <2>1. /\ step \in {"none", "getExclude"} /\ UNCHANGED <<step, unit, local>> /\ ~Loads
    BY <1>1, <1>5, <1>15 DEF RunRTSP, WaitUntilQuitSignal, QuitService, TerminateSocketIO,
       StopRTSP, ClearSubscription, Loads, LoadSettings, LoadThrows, MainOK
  <2>2. ~AtSetExclude(k, c)' /\ ~AtSetExclude(k, c) /\ (HasRead(k, c)' <=> HasRead(k, c))
    BY <2>1 DEF AtSetExclude, HasRead
  <2>3. QED
    BY <1>6, <2>1, <2>2
<1>16. CASE DestroyUnit
  <2>1. /\ step \in {"none", "getExclude"} /\ UNCHANGED <<step, local>> /\ ~Loads
        /\ unit' = [unit EXCEPT ![cam] = IF @ = "none" THEN @ ELSE "destroyed"]
    BY <1>1, <1>5, <1>16 DEF DestroyUnit, Loads, LoadSettings, LoadThrows, MainOK
  <2>2. unit'[c] = unit[c] \/ unit'[c] = "destroyed"
    BY <1>1, <2>1 DEF MainOK
  <2>3. /\ ~AtSetExclude(k, c)' /\ ~AtSetExclude(k, c)
        /\ HasRead(k, c)' => HasRead(k, c)
        /\ ~HasRead(k, c)' => ~HasRead(k, c) \/ unit'[c] = "destroyed"
    BY <2>1, <2>2 DEF AtSetExclude, HasRead
  <2>4. QED
    BY <1>6, <2>1, <2>2, <2>3
<1>17. QED
  BY <1>7, <1>8, <1>9, <1>10, <1>11, <1>12, <1>13, <1>14, <1>15, <1>16 DEF MainThread, Loads

(***************************************************************************)
(* Every unit that missed nothing, and for which nothing is on its way,    *)
(* has the rows of the server: for any number of cameras and changes, any  *)
(* interleaving of Init with the events, and through lost connections,     *)
(* failed answers, and loads and handlers that throw.                      *)
(***************************************************************************)
THEOREM UnitsConverge == Spec => []Converged
<1>1. Init => Chain
  BY DEF Init, Chain, EmptyUntilSet, HandlerHolds, ManagerFollows, UnitFollows, NoSetter, Idle,
     HasRead, AtSetExclude, Kinds
<1>2. PartsOK /\ LifeCycle /\ Registration /\ Chain /\ [Moves]_live => Chain'
  BY EmptyUntilSetStep, HandlerHoldsStep, ManagerFollowsStep, UnitFollowsNetwork,
     UnitFollowsMain
     DEF Chain, Moves
<1>3. LifeCycle /\ Chain => Converged
  <2> SUFFICES ASSUME LifeCycle, Chain, NEW k \in Kinds, NEW c \in Cams,
                      unit[c] = "initialized", c \notin missed[k], ~Pending(k, c)
               PROVE  ~Behind(k, c)
    BY DEF Converged
  <2>1. settings[k][c].setting_data = UpdateFromJson(k, db[k][c])
    BY DEF LifeCycle, AllLoaded, Chain, ManagerFollows, Sure
  <2>2. HasRead(k, c) /\ ~Handling(k, c) /\ ~AtSetExclude(k, c)
    BY DEF HasRead, Handling, Pending, AtSetExclude, LifeCycle, InsideInit
  <2>3. local[k][c] = settings[k][c].setting_data
    BY <2>2 DEF Chain, UnitFollows, Taken
  <2>4. QED
    BY <2>1, <2>3 DEF Behind
<1>4. QED
  BY <1>1, <1>2, <1>3, AlwaysParts, AlwaysLife, StepMoves, PTL DEF Spec

-----------------------------------------------------------------------------
(***************************************************************************)
(* The safety half of InterruptEndsProgram.  The places of the main thread *)
(* in their order, and of the handler on the network thread.               *)
(***************************************************************************)
StageNo(m) == CASE m = "boot" -> 0 [] m = "load" -> 1 [] m = "connect" -> 2 [] m = "bind" -> 3
                [] m = "init" -> 4 [] m = "run" -> 5 [] m = "start" -> 6 [] m = "wait" -> 7
                [] m = "quit" -> 8 [] m = "close" -> 9 [] m = "stopRtsp" -> 10
                [] m = "destroy" -> 11 [] OTHER -> 12

StepNo(s) == CASE s = "none" -> 0 [] s = "getExclude" -> 1 [] s = "setExclude" -> 2
               [] s = "readSchedule" -> 3 [] s = "subExclude" -> 4 [] OTHER -> 5

PlaceNo(p) == CASE p = "fetch" -> 1 [] p = "next" -> 2 [] p = "collect" -> 3 [] OTHER -> 4

(***************************************************************************)
(* A step forward of the main thread: to a later stage, in the same stage  *)
(* to a later unit, or at the same unit with less to do.  A step forward   *)
(* of the handler: to its end, with fewer cameras to do, or further on     *)
(* with the same cameras.                                                  *)
(***************************************************************************)
MainAdvances ==
    \/ StageNo(main') > StageNo(main)
    \/ main' = main /\ cam' > cam
    \/ /\ main' = main /\ cam' = cam
       /\ \/ main = "load" /\ loaded \subseteq loaded' /\ loaded' # loaded
          \/ main = "bind" /\ bound \subseteq bound' /\ bound' # bound
          \/ InLoop /\ StepNo(step') > StepNo(step)
          \/ /\ main = "destroy"
             /\ subscriptions'[cam] \subseteq subscriptions[cam]
             /\ subscriptions'[cam] # subscriptions[cam]

HandlerAdvances ==
    \/ sio'.pc = "idle"
    \/ sio'.todo \subseteq sio.todo /\ sio'.todo # sio.todo
    \/ sio'.todo = sio.todo /\ PlaceNo(sio'.pc) > PlaceNo(sio.pc)

(***************************************************************************)
(* Nothing takes the terminate flag back, the main thread never goes back  *)
(* and only it moves itself, and a handler in progress never goes back.    *)
(***************************************************************************)
OnlyForward ==
    [][/\ g_terminate_flag => g_terminate_flag'
       /\ MainThread => MainAdvances
       /\ ~MainThread => UNCHANGED <<main, cam, step>>
       /\ (sio.pc # "idle" /\ sio' # sio) => HandlerAdvances]_vars

(***************************************************************************)
(* The main thread has work at each stage: the loops are at a unit that    *)
(* they can initialise or start.  So only the wait for the flag, the close *)
(* of the network and the join of a client whose loop never got its quit   *)
(* can hold it; and the handler the close waits for has a camera to do.    *)
(***************************************************************************)
HasWork ==
    /\ InLoop => /\ step # "none"
                 /\ unit[cam] = "built" \/ (main = "start" /\ unit[cam] = "initialized")
                 /\ step # "getExclude" => unit[cam] = "built"
    /\ sio.pc # "idle" => sio.todo # {}
    /\ sio.pc \in {"collect", "invoke"} => sio.cam \in sio.todo

(***************************************************************************)
(* Where the loops are, what is not yet registered, and what the handler   *)
(* has in hand.                                                            *)
(***************************************************************************)
LoopPlace ==
    /\ main \in {"boot", "load", "connect", "bind", "run"} => cam = 1
    /\ main \in {"init", "run", "start"} => step # "none"
    /\ main = "run" => step = "getExclude"
    /\ main = "init" => \A c \in Cams : c >= cam => unit[c] = "built"
    /\ main \in {"init", "run", "start"} => \A c \in Cams : unit[c] \in {"built", "initialized"}
    /\ main = "bind" => bound # Kinds
    /\ main \in {"boot", "load", "connect"} => bound = {}

InHand == /\ sio.pc # "idle" => sio.todo # {}
          /\ sio.pc \in {"collect", "invoke"} => sio.cam \in sio.todo

LEMMA MainAdvancesStep ==
  ASSUME PartsOK, LifeCycle, LoopPlace, MainThread
  PROVE  LoopPlace' /\ MainAdvances
<1>1. MainOK
  BY DEF PartsOK
<1> USE <1>1, CamsAssumption DEF MainOK, Stages, LoopPlace, MainAdvances, StageNo, Cams
<1>2. CASE Boot \/ ConnectSocketIO \/ StageFails
  BY <1>2 DEF Boot, ConnectSocketIO, StageFails, Kinds, connVars
<1>3. CASE Loads
  <2>1. loaded \subseteq loaded' /\ loaded' # loaded
    <3>1. loaded' = loaded \cup {FirstNotIn(loaded)} /\ main = "load"
      BY <1>3 DEF Loads, LoadSettings, LoadThrows
    <3>2. QED
      BY <3>1 DEF FirstNotIn, Kinds, LifeCycle, BeforeUnits
  <2>2. /\ main = "load" /\ main' \in {"load", "connect"}
        /\ UNCHANGED <<cam, step, unit, bound>>
    BY <1>3 DEF Loads, LoadSettings, LoadThrows, connVars
  <2>3. QED
    BY <2>1, <2>2
<1>4. CASE BindEvent
  <2>1. bound \subseteq bound' /\ bound' # bound
    BY <1>4 DEF BindEvent, FirstNotIn, Kinds
  <2>2. QED
    BY <1>4, <2>1 DEF BindEvent
<1>5. CASE UnitInitFails \/ StartUnit
  BY <1>5 DEF UnitInitFails, StartUnit, NextUnit, InLoop, connVars
<1>6. CASE GetExclude \/ SetExclude \/ ReadSchedule \/ SubscribeExclude
  BY <1>6 DEF GetExclude, SetExclude, ReadSchedule, SubscribeExclude, InLoop, StepNo, connVars
<1>7. CASE SubscribeSchedule
  BY <1>7 DEF SubscribeSchedule, NextUnit, InLoop, connVars
<1>8. CASE RunRTSP \/ WaitUntilQuitSignal \/ QuitService \/ TerminateSocketIO \/ StopRTSP
  BY <1>8 DEF RunRTSP, WaitUntilQuitSignal, QuitService, TerminateSocketIO, StopRTSP, connVars
<1>9. CASE \E k \in Kinds : ClearSubscription(k)
  <2>1. PICK k \in Kinds : ClearSubscription(k)
    BY <1>9
  <2>2. k \in subscriptions[cam] /\ subscriptions'[cam] = subscriptions[cam] \ {k}
    BY <2>1 DEF ClearSubscription
  <2>3. main = "destroy" /\ main' = main /\ cam' = cam
    BY <2>1 DEF ClearSubscription
  <2>4. QED
    BY <2>2, <2>3
<1>10. CASE DestroyUnit
  BY <1>10 DEF DestroyUnit, connVars
<1>11. QED
  BY <1>2, <1>3, <1>4, <1>5, <1>6, <1>7, <1>8, <1>9, <1>10 DEF MainThread, Loads

LEMMA OthersLeaveMain ==
  ASSUME NetworkThread \/ Environment \/ UNCHANGED live
  PROVE  UNCHANGED <<main, cam, step, loaded, bound, unit, subscriptions>>
<1>1. CASE NetworkThread
  BY <1>1 DEF NetworkThread, RecvEvent, BinderNotFound, FetchRows, FetchError, FetchFails,
     Apply, ApplyThrows, CollectCallback, CollectNone, InvokeCallback, mainVars, connVars
<1>2. CASE Environment \/ UNCHANGED live
  BY <1>2 DEF Environment, ServerChange, ConnectionDrops, Reconnects, ExitSignalHandler, live,
     mainVars, connVars
<1>3. QED
  BY <1>1, <1>2

LEMMA EventNamesCamera == ASSUME NEW e \in Events PROVE e.cams # {}
<1>1. e.cams \in (SUBSET Cams) \ {{}}
  BY DEF Events
<1>2. QED
  BY <1>1

LEMMA HandlerAdvancesStep ==
  ASSUME PartsOK, InHand, [Moves]_live
  PROVE  InHand' /\ ((sio.pc # "idle" /\ sio' # sio) => HandlerAdvances)
<1>1. HandlerOK /\ WireOK
  BY DEF PartsOK
<1> USE <1>1 DEF HandlerOK, InHand, HandlerAdvances, PlaceNo
<1>2. CASE RecvEvent
  <2>1. Head(wire) \in Events
    BY <1>2, SeqFacts DEF RecvEvent, BinderLookup, WireOK
  <2>2. Head(wire).cams # {}
    BY <2>1, EventNamesCamera
  <2>3. sio.pc = "idle" /\ sio'.pc = "fetch" /\ sio'.todo = Head(wire).cams
    BY <1>2 DEF RecvEvent, BinderLookup, Idle
  <2>4. QED
    BY <2>2, <2>3
<1>3. CASE FetchRows \/ FetchError
  <2>1. sio.pc = "fetch" /\ sio'.pc = "next" /\ sio'.todo = sio.todo
    BY <1>3 DEF FetchRows, FetchError, Fetched
  <2>2. QED
    BY <2>1
<1>4. CASE FetchFails \/ \E c \in Cams : ApplyThrows(c)
  BY <1>4 DEF FetchFails, ApplyThrows, Idle
<1>5. CASE \E c \in Cams : Apply(c)
  <2>1. PICK c \in Cams : Apply(c)
    BY <1>5
  <2>2. /\ sio.pc = "next" /\ sio'.pc = "collect" /\ sio'.todo = sio.todo
        /\ sio'.cam = c /\ c \in sio.todo
    BY <2>1 DEF Apply
  <2>3. QED
    BY <2>2
<1>6. CASE CollectCallback
  <2>1. /\ sio.pc = "collect" /\ sio'.pc = "invoke" /\ sio'.todo = sio.todo
        /\ sio'.cam = sio.cam
    BY <1>6 DEF CollectCallback
  <2>2. QED
    BY <2>1
<1>7. CASE CollectNone \/ InvokeCallback
  <2>1. UnitDone /\ sio.cam \in sio.todo
    BY <1>7 DEF CollectNone, InvokeCallback
  <2>2. CASE sio.todo \ {sio.cam} = {}
    BY <2>1, <2>2 DEF UnitDone, Idle
  <2>3. CASE sio.todo \ {sio.cam} # {}
    <3>1. sio'.pc = "next" /\ sio'.todo = sio.todo \ {sio.cam}
      BY <2>1, <2>3 DEF UnitDone
    <3>2. QED
      BY <2>1, <2>3, <3>1
  <2>4. QED
    BY <2>2, <2>3
<1>8. CASE BinderNotFound \/ Environment \/ MainThread \/ UNCHANGED live
  <2>1. sio' = sio
    BY <1>8 DEF BinderNotFound, Environment, ServerChange, ConnectionDrops, Reconnects,
       ExitSignalHandler, live, MainThread, Boot, LoadSettings, LoadThrows, ConnectSocketIO,
       BindEvent, StageFails, UnitInitFails, GetExclude, SetExclude, ReadSchedule,
       SubscribeExclude, SubscribeSchedule, RunRTSP, StartUnit, WaitUntilQuitSignal,
       QuitService, TerminateSocketIO, StopRTSP, ClearSubscription, DestroyUnit
  <2>2. QED
    BY <2>1
<1>9. QED
  BY <1>2, <1>3, <1>4, <1>5, <1>6, <1>7, <1>8 DEF Moves, NetworkThread

LEMMA ForwardStep ==
  ASSUME PartsOK, LifeCycle, LoopPlace, InHand, [Moves]_live
  PROVE  /\ LoopPlace' /\ InHand'
         /\ g_terminate_flag => g_terminate_flag'
         /\ MainThread => MainAdvances
         /\ ~MainThread => UNCHANGED <<main, cam, step>>
         /\ (sio.pc # "idle" /\ sio' # sio) => HandlerAdvances
<1>1. LoopPlace'
  <2>1. CASE MainThread
    BY <2>1, MainAdvancesStep
  <2>2. CASE ~MainThread
    BY <2>2, OthersLeaveMain DEF Moves, LoopPlace
  <2>3. QED
    BY <2>1, <2>2
<1>2. g_terminate_flag => g_terminate_flag'
  BY DEF Moves, NetworkThread, RecvEvent, BinderNotFound, FetchRows, FetchError, FetchFails,
     Apply, ApplyThrows, CollectCallback, CollectNone, InvokeCallback, MainThread, Boot,
     LoadSettings, LoadThrows, ConnectSocketIO, BindEvent, StageFails, UnitInitFails,
     GetExclude, SetExclude, ReadSchedule, SubscribeExclude, SubscribeSchedule, RunRTSP,
     StartUnit, WaitUntilQuitSignal, QuitService, TerminateSocketIO, StopRTSP,
     ClearSubscription, DestroyUnit, Environment, ServerChange, ConnectionDrops, Reconnects,
     ExitSignalHandler, live
<1>3. ~MainThread => UNCHANGED <<main, cam, step>>
  BY OthersLeaveMain DEF Moves
<1>4. QED
  BY <1>1, <1>2, <1>3, MainAdvancesStep, HandlerAdvancesStep

(***************************************************************************)
(* The main thread and the handler that Quit waits for only go forward,    *)
(* and the terminate flag is never lost: the steps the main thread has     *)
(* before the end of the program (Initialize, Run, WaitUntilQuitSignal,    *)
(* Quit, the destructors), and those a binder has, are bounded.            *)
(***************************************************************************)
THEOREM ProgramOnlyGoesForward == Spec => OnlyForward
<1>1. Init => LoopPlace /\ InHand
  BY DEF Init, LoopPlace, InHand, Idle
<1>2. PartsOK /\ LifeCycle /\ LoopPlace /\ InHand /\ [Moves]_live => LoopPlace' /\ InHand'
  BY ForwardStep
<1>3. PartsOK /\ LifeCycle /\ LoopPlace /\ InHand /\ [Moves]_live =>
        [/\ g_terminate_flag => g_terminate_flag'
         /\ MainThread => MainAdvances
         /\ ~MainThread => UNCHANGED <<main, cam, step>>
         /\ (sio.pc # "idle" /\ sio' # sio) => HandlerAdvances]_vars
  BY ForwardStep
<1>4. QED
  BY <1>1, <1>2, <1>3, AlwaysParts, AlwaysLife, StepMoves, PTL DEF Spec, OnlyForward

(***************************************************************************)
(* And until its end it has something to do, except while it waits for the *)
(* flag, for the handler or for a client that StopRTSP joins: no loop of   *)
(* Init or Start comes to a unit that it can neither initialise nor start, *)
(* and no handler runs out of cameras before it ends.                      *)
(***************************************************************************)
THEOREM ProgramAlwaysHasWork == Spec => []HasWork
<1>1. Init => LoopPlace /\ InHand
  BY DEF Init, LoopPlace, InHand, Idle
<1>2. PartsOK /\ LifeCycle /\ LoopPlace /\ InHand /\ [Moves]_live => LoopPlace' /\ InHand'
  BY ForwardStep
<1>3. PartsOK /\ LifeCycle /\ LoopPlace /\ InHand => HasWork
  <2> SUFFICES ASSUME PartsOK, LifeCycle, LoopPlace, InHand PROVE HasWork
    OBVIOUS
  <2>1. cam \in Cams /\ cam >= cam
    BY DEF PartsOK, MainOK, Cams
  <2>2. QED
    BY <2>1 DEF LoopPlace, InHand, HasWork, LifeCycle, InsideInit, InLoop
<1>4. QED
  BY <1>1, <1>2, <1>3, AlwaysParts, AlwaysLife, StepMoves, PTL DEF Spec
=============================================================================
