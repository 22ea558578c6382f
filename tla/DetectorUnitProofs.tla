------------------------- MODULE DetectorUnitProofs -------------------------
(***************************************************************************)
(* Proofs about DetectorUnit, for any frame sizes, thresholds, capacities  *)
(* and any number of frames and setting updates.                           *)
(***************************************************************************)
EXTENDS DetectorUnit, TLAPS

(***************************************************************************)
(* What a thread holds while it is at each of its places.                  *)
(***************************************************************************)
WorkInHand ==
    /\ pc["inference"] \in {"release", "capture", "reset", "fill", "request", "inflight"} =>
         frame \in Resolutions /\ stable_frame = frame
    /\ pc["response"] \in {"wait", "track", "emit"} => Len(item) = 1
    /\ pc["event"] \in {"test", "check", "save"} => Len(event) = 1

(***************************************************************************)
(* The type invariant in five parts: control, frames, settings, queues and *)
(* flags.                                                                  *)
(***************************************************************************)
ControlOK == /\ pc \in [Threads -> Places]
             /\ mpc \in MainPlaces

FramesOK == /\ avframe_q \in Seq(Resolutions)
            /\ arrived \in Nat
            /\ frame \in Resolutions \cup {NoFrame}
            /\ frame_count \in Nat
            /\ stable_frame \in Resolutions \cup {0}
            /\ consecutive_mismatch_count \in 0..(ReinitThreshold - 1)
            /\ trackers \in Resolutions \cup {0}
            /\ recent \in Seq(Resolutions)

SettingsOK == /\ schedule_capture \in Settings /\ schedule_settings \in Settings
              /\ scheduler \in Seq([ver : Nat, res : Resolutions])

QueuesOK == /\ pending \in Seq(Nat) /\ result_q \in Seq(Nat)
            /\ inflight_q \in Seq(Item) /\ item \in Seq(Item)
            /\ event_q \in Seq(Item) /\ event \in Seq(Item)
            /\ io_q \in Seq(Nat)

FlagsOK == /\ running \in [Threads -> BOOLEAN]
           /\ avframeClosed \in BOOLEAN /\ inflightClosed \in BOOLEAN
           /\ eventClosed \in BOOLEAN /\ ioClosed \in BOOLEAN
           /\ resized \in BOOLEAN
           /\ is_schedule_updated \in BOOLEAN /\ is_excluded \in BOOLEAN
           /\ subscribed \in BOOLEAN
           /\ disturbed \in BOOLEAN /\ mismatched \in BOOLEAN

LEMMA TypeParts == TypeOK <=> ControlOK /\ FramesOK /\ SettingsOK /\ QueuesOK /\ FlagsOK
  BY Zenon DEF TypeOK, ControlOK, FramesOK, SettingsOK, QueuesOK, FlagsOK

-----------------------------------------------------------------------------
(***************************************************************************)
(* What the queue operators return.                                        *)
(***************************************************************************)
LEMMA SeqFacts ==
  ASSUME NEW S
  PROVE  /\ <<>> \in Seq(S)
         /\ \A x \in S : <<x>> \in Seq(S)
         /\ \A q \in Seq(S) : q # <<>> => Head(q) \in S /\ Tail(q) \in Seq(S)
         /\ \A q \in Seq(S), x \in S : Append(q, x) \in Seq(S)
  OBVIOUS

LEMMA RememberType ==
  ASSUME recent \in Seq(Resolutions), NEW r \in Resolutions
  PROVE  Remember(r) \in Seq(Resolutions)
<1> DEFINE s == Append(recent, r)
<1>1. s \in Seq(Resolutions) /\ Len(s) = Len(recent) + 1
  OBVIOUS
<1>2. Tail(s) \in Seq(Resolutions)
  <2> HIDE DEF s
  <2>1. s # <<>>
    BY <1>1
  <2>2. QED
    BY <1>1, <2>1, SeqFacts
<1>3. QED
  BY <1>1, <1>2 DEF Remember

LEMMA EnqueueType ==
  ASSUME NEW S, NEW q \in Seq(S), NEW max \in Nat, NEW x \in S
  PROVE  Enqueue(q, max, x) \in Seq(S)
  BY DEF Enqueue, Kept, IsFull

LEMMA WithoutType ==
  ASSUME NEW S, NEW q \in Seq(S), NEW i \in 1..Len(q)
  PROVE  Without(q, i) \in Seq(S)
  BY DEF Without

(***************************************************************************)
(* A sequence of one is not empty and its element has its type.            *)
(***************************************************************************)
LEMMA OneElement ==
  ASSUME NEW S, NEW q \in Seq(S), Len(q) = 1
  PROVE  q[1] \in S
  OBVIOUS

-----------------------------------------------------------------------------
(***************************************************************************)
(* Every thread stays in its places.                                       *)
(***************************************************************************)
LEMMA ControlStep == ControlOK /\ [Next]_vars => ControlOK'
<1> SUFFICES ASSUME ControlOK, [Next]_vars PROVE ControlOK'
  OBVIOUS
<1> USE DEF ControlOK, Threads, Places, MainPlaces, At, Goto
<1>1. CASE InferenceThread
  BY <1>1 DEF InferenceThread, StartClient, ExitInference, DequeueFrame, SkipMismatch, AcceptSize,
     ReleaseSchedules, CaptureSettings, ResetTrackers, FillSchedules, PreprocessFails,
     RequestRefused, RequestAccepted, PushInflight, updateRest, requestRest
<1>2. CASE ResponseThread
  BY <1>2 DEF ResponseThread, ExitResponse, DequeueInflight, NoResult, TakeResult,
     TrackObjects, PushEvent, responseRest
<1>3. CASE EventThread \/ IoThread
  BY <1>3 DEF EventThread, ExitEvent, DequeueEvent, TestSchedules, CheckSchedules, SaveAndSend,
     IoThread, ExitIo, WriteImage, eventRest, ioRest
<1>4. CASE FrameArrives \/ ScheduleCallback \/ ExcludeCallback \/ Answer \/ MainThread \/ Crash
  BY <1>4 DEF FrameArrives, ScheduleCallback, ExcludeCallback, Answer, MainThread, StopThread,
     ClearFlag, Join, Unsubscribe, CloseAvframe, CloseInflight, CloseResponse, CloseEvent, CloseIo,
     Crash, threadVars, stopRest
<1>5. CASE UNCHANGED vars
  BY <1>5 DEF vars, threadVars
<1>6. QED
  BY <1>1, <1>2, <1>3, <1>4, <1>5 DEF Next, Ended

(***************************************************************************)
(* Who leaves what alone: only the inference thread changes its place and  *)
(* what it works on.                                                       *)
(***************************************************************************)
OtherStep == \/ FrameArrives \/ ScheduleCallback \/ ExcludeCallback \/ Answer
             \/ ResponseThread \/ EventThread \/ IoThread \/ MainThread
             \/ Crash \/ Ended

LEMMA NextCases == [Next]_vars => InferenceThread \/ OtherStep \/ UNCHANGED vars
  BY DEF Next, OtherStep

LEMMA OthersLeaveInference ==
  ASSUME ControlOK, OtherStep
  PROVE  /\ UNCHANGED <<inferenceVars, scheduler>>
         /\ pc'["inference"] = pc["inference"]
<1> USE DEF ControlOK, Threads, At, Goto
<1>1. CASE ResponseThread
  BY <1>1 DEF ResponseThread, ExitResponse, DequeueInflight, NoResult, TakeResult,
     TrackObjects, PushEvent, responseRest
<1>2. CASE EventThread \/ IoThread
  BY <1>2 DEF EventThread, ExitEvent, DequeueEvent, TestSchedules, CheckSchedules, SaveAndSend,
     IoThread, ExitIo, WriteImage, eventRest, ioRest
<1>3. CASE FrameArrives \/ ScheduleCallback \/ ExcludeCallback \/ Answer \/ Crash \/ Ended
  BY <1>3 DEF FrameArrives, ScheduleCallback, ExcludeCallback, Answer, Crash, Ended, vars,
     threadVars
<1>4. CASE MainThread
  BY <1>4 DEF MainThread, StopThread, Unsubscribe, CloseAvframe, CloseInflight, CloseResponse,
     CloseEvent, CloseIo, stopRest
<1>5. QED
  BY <1>1, <1>2, <1>3, <1>4 DEF OtherStep

(***************************************************************************)
(* The frames: what the receiver delivers, the inference thread compares   *)
(* and the response thread tracks.                                         *)
(***************************************************************************)
LEMMA FramesStep ==
  ASSUME ControlOK, FramesOK, QueuesOK, WorkInHand, [Next]_vars
  PROVE  FramesOK'
<1> USE ResolutionsAssumption, ThresholdAssumption
        DEF FramesOK, NoFrame, avframeVars, inferenceVars, At
<1>1. CASE StartClient \/ ExitInference
  BY <1>1 DEF StartClient, ExitInference
<1>2. CASE DequeueFrame
  <2>1. Head(avframe_q) \in Resolutions /\ Tail(avframe_q) \in Seq(Resolutions)
    BY <1>2, SeqFacts DEF DequeueFrame
  <2>2. recent' \in Seq(Resolutions)
    BY <1>2, <2>1, RememberType DEF DequeueFrame
  <2>3. consecutive_mismatch_count' \in 0..(ReinitThreshold - 1)
    BY <1>2 DEF DequeueFrame, SkipMismatch, AcceptSize
  <2>4. QED
    BY <1>2, <2>1, <2>2, <2>3 DEF DequeueFrame, SkipMismatch, AcceptSize
<1>3. CASE ReleaseSchedules \/ CaptureSettings \/ ResetTrackers \/ FillSchedules
  BY <1>3 DEF ReleaseSchedules, CaptureSettings, ResetTrackers, FillSchedules, updateRest
<1>4. CASE PreprocessFails \/ RequestRefused \/ RequestAccepted \/ PushInflight
  BY <1>4 DEF PreprocessFails, RequestRefused, RequestAccepted, PushInflight, requestRest
<1>5. CASE TrackObjects
  <2>1. item[1] \in Item
    BY <1>5, OneElement DEF QueuesOK, WorkInHand, TrackObjects
  <2>2. QED
    BY <1>5, <2>1 DEF TrackObjects, responseRest, Item
<1>6. CASE ExitResponse \/ DequeueInflight \/ NoResult \/ TakeResult \/ PushEvent
  BY <1>6 DEF ExitResponse, DequeueInflight, NoResult, TakeResult, PushEvent, responseRest
<1>7. CASE EventThread \/ IoThread
  BY <1>7 DEF EventThread, ExitEvent, DequeueEvent, TestSchedules, CheckSchedules, SaveAndSend,
     IoThread, ExitIo, WriteImage, eventRest, ioRest
<1>8. CASE FrameArrives \/ ScheduleCallback \/ ExcludeCallback \/ Answer \/ Crash
  <2>1. avframe_q' \in Seq(Resolutions)
    <3>1. \A r \in Resolutions : <<r>> \in Seq(Resolutions)
      BY SeqFacts
    <3>2. QED
      BY <1>8, <3>1 DEF FrameArrives, ScheduleCallback, ExcludeCallback, Answer, Crash
  <2>2. QED
    BY <1>8, <2>1 DEF FrameArrives, ScheduleCallback, ExcludeCallback, Answer, Crash
<1>9. CASE MainThread
  <2>1. <<>> \in Seq(Resolutions)
    BY SeqFacts
  <2>2. QED
    BY <1>9, <2>1 DEF MainThread, StopThread, Unsubscribe, CloseAvframe, CloseInflight,
       CloseResponse, CloseEvent, CloseIo, stopRest
<1>10. CASE UNCHANGED vars
  BY <1>10 DEF vars
<1>11. QED
  BY <1>1, <1>2, <1>3, <1>4, <1>5, <1>6, <1>7, <1>8, <1>9, <1>10
     DEF Next, Ended, InferenceThread, ResponseThread

(***************************************************************************)
(* The settings and the schedules made from them.                          *)
(***************************************************************************)
LEMMA SettingsStep ==
  ASSUME ControlOK, FramesOK, SettingsOK, WorkInHand, [Next]_vars
  PROVE  SettingsOK'
<1> USE DEF SettingsOK, Settings, settingVars, inferenceVars, At
<1>1. CASE StartClient \/ ExitInference \/ DequeueFrame
  BY <1>1 DEF StartClient, ExitInference, DequeueFrame
<1>2. CASE ReleaseSchedules
  BY <1>2 DEF ReleaseSchedules, updateRest
<1>3. CASE CaptureSettings
  BY <1>3 DEF CaptureSettings, updateRest
<1>4. CASE ResetTrackers
  BY <1>4 DEF ResetTrackers, updateRest
<1>5. CASE FillSchedules
  <2>1. [ver |-> schedule_capture.ver, res |-> stable_frame] \in [ver : Nat, res : Resolutions]
    BY <1>5 DEF FillSchedules, WorkInHand
  <2>2. scheduler' \in Seq([ver : Nat, res : Resolutions])
    BY <1>5, <2>1, SeqFacts DEF FillSchedules
  <2>3. QED
    BY <1>5, <2>2 DEF FillSchedules, updateRest
<1>6. CASE PreprocessFails \/ RequestRefused \/ RequestAccepted \/ PushInflight
  BY <1>6 DEF PreprocessFails, RequestRefused, RequestAccepted, PushInflight, requestRest
<1>7. CASE ScheduleCallback
  BY <1>7 DEF ScheduleCallback
<1>8. CASE FrameArrives \/ ExcludeCallback \/ Answer \/ Crash
  BY <1>8 DEF FrameArrives, ExcludeCallback, Answer, Crash
<1>9. CASE ResponseThread \/ EventThread \/ IoThread \/ MainThread
  BY <1>9 DEF ResponseThread, ExitResponse, DequeueInflight, NoResult, TakeResult,
     TrackObjects, PushEvent, EventThread, ExitEvent, DequeueEvent, TestSchedules, CheckSchedules,
     SaveAndSend, IoThread, ExitIo, WriteImage, eventRest, ioRest, responseRest, MainThread,
     StopThread, Unsubscribe, CloseAvframe, CloseInflight, CloseResponse, CloseEvent, CloseIo,
     stopRest
<1>10. CASE UNCHANGED vars
  BY <1>10 DEF vars
<1>11. QED
  BY <1>1, <1>2, <1>3, <1>4, <1>5, <1>6, <1>7, <1>8, <1>9, <1>10
     DEF Next, Ended, InferenceThread

(***************************************************************************)
(* The queues and what the threads hold of them.                           *)
(***************************************************************************)
LEMMA QueuesStep ==
  ASSUME ControlOK, FramesOK, QueuesOK, WorkInHand, [Next]_vars
  PROVE  QueuesOK'
<1> USE CapsAssumption DEF QueuesOK, engineVars, inflightVars, eventVars, ioVars, At
<1>1. CASE StartClient \/ ExitInference \/ DequeueFrame
  BY <1>1 DEF StartClient, ExitInference, DequeueFrame
<1>2. CASE ReleaseSchedules \/ CaptureSettings \/ ResetTrackers \/ FillSchedules
  BY <1>2 DEF ReleaseSchedules, CaptureSettings, ResetTrackers, FillSchedules, updateRest
<1>3. CASE PreprocessFails \/ RequestRefused \/ RequestAccepted
  <2>1. pending' \in Seq(Nat)
    <3>1. frame_count + 1 \in Nat
      BY DEF FramesOK
    <3>2. Append(pending, frame_count + 1) \in Seq(Nat)
      BY <3>1
    <3>3. QED
      BY <1>3, <3>2 DEF PreprocessFails, RequestRefused, RequestAccepted
  <2>2. QED
    BY <1>3, <2>1 DEF PreprocessFails, RequestRefused, RequestAccepted, requestRest
<1>4. CASE PushInflight
  <2>1. [res |-> frame, id |-> frame_count] \in Item
    BY <1>4 DEF PushInflight, Item, WorkInHand, FramesOK
  <2>2. inflight_q' \in Seq(Item)
    BY <1>4, <2>1, EnqueueType DEF PushInflight
  <2>3. QED
    BY <1>4, <2>2 DEF PushInflight, requestRest
<1>5. CASE Answer
  <2>1. PICK i \in 1..Len(pending) :
          /\ pending' = Without(pending, i)
          /\ result_q' = Enqueue(result_q, ResultCap, pending[i]) \/ result_q' = result_q
    BY <1>5 DEF Answer
  <2>2. pending' \in Seq(Nat)
    BY <2>1, WithoutType
  <2>3. result_q' \in Seq(Nat)
    <3>1. pending[i] \in Nat /\ ResultCap \in Nat
      BY <2>1, SMTT(60)
    <3>2. QED
      BY <2>1, <3>1, EnqueueType
  <2>4. QED
    BY <1>5, <2>2, <2>3 DEF Answer
<1>6. CASE ExitResponse \/ DequeueInflight \/ NoResult \/ TakeResult \/ TrackObjects
  <2>1. result_q' \in Seq(Nat)
    BY <1>6, SeqFacts DEF ExitResponse, DequeueInflight, NoResult, TakeResult, TrackObjects
  <2>2. inflight_q' \in Seq(Item) /\ item' \in Seq(Item)
    BY <1>6, SeqFacts DEF ExitResponse, DequeueInflight, NoResult, TakeResult, TrackObjects
  <2>3. QED
    BY <1>6, <2>1, <2>2 DEF ExitResponse, DequeueInflight, NoResult, TakeResult, TrackObjects,
       responseRest
<1>7. CASE PushEvent
  <2>1. item[1] \in Item
    BY <1>7, OneElement DEF WorkInHand, PushEvent
  <2>2. event_q' \in Seq(Item)
    BY <1>7, <2>1, EnqueueType DEF PushEvent
  <2>3. QED
    BY <1>7, <2>2 DEF PushEvent, responseRest
<1>8. CASE ExitEvent \/ DequeueEvent \/ TestSchedules \/ CheckSchedules
  <2>1. event_q' \in Seq(Item) /\ event' \in Seq(Item)
    BY <1>8, SeqFacts DEF ExitEvent, DequeueEvent, TestSchedules, CheckSchedules
  <2>2. QED
    BY <1>8, <2>1 DEF ExitEvent, DequeueEvent, TestSchedules, CheckSchedules, eventRest
<1>9. CASE SaveAndSend
  <2>1. event[1].id \in Nat
    BY <1>9, OneElement DEF WorkInHand, SaveAndSend, Item
  <2>2. io_q' \in Seq(Nat)
    BY <1>9, <2>1, EnqueueType DEF SaveAndSend
  <2>3. QED
    BY <1>9, <2>2 DEF SaveAndSend, eventRest
<1>10. CASE IoThread
  <2>1. io_q' \in Seq(Nat)
    BY <1>10, SeqFacts DEF IoThread, ExitIo, WriteImage
  <2>2. QED
    BY <1>10, <2>1 DEF IoThread, ExitIo, WriteImage, ioRest
<1>11. CASE MainThread
  BY <1>11, SeqFacts DEF MainThread, StopThread, Unsubscribe, CloseAvframe, CloseInflight, CloseResponse,
     CloseEvent, CloseIo, stopRest
<1>12. CASE FrameArrives \/ ScheduleCallback \/ ExcludeCallback \/ Crash
  BY <1>12 DEF FrameArrives, ScheduleCallback, ExcludeCallback, Crash
<1>13. CASE UNCHANGED vars
  BY <1>13 DEF vars
<1>14. QED
  BY <1>1, <1>2, <1>3, <1>4, <1>5, <1>6, <1>7, <1>8, <1>9, <1>10, <1>11, <1>12, <1>13
     DEF Next, Ended, InferenceThread, ResponseThread, EventThread
(***************************************************************************)
(* The flags, action by action.                                            *)
(***************************************************************************)
LEMMA FlagsStep ==
  ASSUME FlagsOK, [Next]_vars
  PROVE  FlagsOK'
<1> USE DEF FlagsOK, threadVars, avframeVars, inferenceVars, settingVars, engineVars,
    inflightVars, eventVars, ioVars, pairVars
<1>1. CASE FrameArrives
  BY Zenon, <1>1 DEF FrameArrives
<1>2. CASE ScheduleCallback
  BY Zenon, <1>2 DEF ScheduleCallback
<1>3. CASE ExcludeCallback
  BY Zenon, <1>3 DEF ExcludeCallback
<1>4. CASE Answer
  BY ZenonT(60), <1>4 DEF Answer
<1>5. CASE StartClient
  BY Zenon, <1>5 DEF StartClient
<1>6. CASE ExitInference
  BY Zenon, <1>6 DEF ExitInference
<1>7. CASE DequeueFrame
  BY Zenon, <1>7 DEF DequeueFrame, SkipMismatch, AcceptSize
<1>8. CASE ReleaseSchedules
  BY Zenon, <1>8 DEF ReleaseSchedules, updateRest
<1>9. CASE CaptureSettings
  BY Zenon, <1>9 DEF CaptureSettings, updateRest
<1>10. CASE ResetTrackers
  BY Zenon, <1>10 DEF ResetTrackers, updateRest
<1>11. CASE FillSchedules
  BY Zenon, <1>11 DEF FillSchedules, updateRest
<1>12. CASE PreprocessFails
  BY Zenon, <1>12 DEF PreprocessFails, requestRest
<1>13. CASE RequestRefused
  BY Zenon, <1>13 DEF RequestRefused, requestRest
<1>14. CASE RequestAccepted
  BY Zenon, <1>14 DEF RequestAccepted, requestRest
<1>15. CASE PushInflight
  BY Zenon, <1>15 DEF PushInflight, requestRest
<1>16. CASE ExitResponse
  BY Zenon, <1>16 DEF ExitResponse, responseRest
<1>17. CASE DequeueInflight
  BY Zenon, <1>17 DEF DequeueInflight, responseRest
<1>18. CASE NoResult
  BY Zenon, <1>18 DEF NoResult, responseRest
<1>19. CASE TakeResult
  BY Zenon, <1>19 DEF TakeResult, responseRest
<1>20. CASE TrackObjects
  BY Zenon, <1>20 DEF TrackObjects, responseRest
<1>21. CASE PushEvent
  BY Zenon, <1>21 DEF PushEvent, responseRest
<1>22. CASE EventThread
  <2>1. UNCHANGED eventRest
    BY Zenon, <1>22 DEF EventThread, ExitEvent, DequeueEvent, TestSchedules, CheckSchedules,
       SaveAndSend
  <2>2. QED
    BY Zenon, <2>1 DEF eventRest
<1>23. CASE IoThread
  BY ZenonT(60), <1>23 DEF IoThread, ExitIo, WriteImage, ioRest
<1>24. CASE StopThread
  BY ZenonT(60), <1>24 DEF StopThread, ClearFlag, Join, stopRest
<1>25. CASE Unsubscribe
  BY Zenon, <1>25 DEF Unsubscribe, stopRest
<1>26. CASE CloseAvframe
  BY Zenon, <1>26 DEF CloseAvframe, stopRest
<1>27. CASE CloseInflight
  BY Zenon, <1>27 DEF CloseInflight, stopRest
<1>28. CASE CloseResponse
  BY Zenon, <1>28 DEF CloseResponse, stopRest
<1>29. CASE CloseEvent
  BY Zenon, <1>29 DEF CloseEvent, stopRest
<1>30. CASE CloseIo
  BY Zenon, <1>30 DEF CloseIo, stopRest
<1>31. CASE Crash
  BY Zenon, <1>31 DEF Crash
<1>32. CASE UNCHANGED vars
  BY Zenon, <1>32 DEF vars
<1>33. QED
  BY <1>1, <1>2, <1>3, <1>4, <1>5, <1>6, <1>7, <1>8, <1>9, <1>10, <1>11, <1>12, <1>13, <1>14,
     <1>15, <1>16, <1>17, <1>18, <1>19, <1>20, <1>21, <1>22, <1>23, <1>24, <1>25, <1>26, <1>27,
     <1>28, <1>29, <1>30, <1>31, <1>32
     DEF Next, Ended, InferenceThread, ResponseThread, MainThread

(***************************************************************************)
(* A thread holds its frame, item or event from the step that takes it to  *)
(* the step that gives it away.                                            *)
(***************************************************************************)
LEMMA WorkStep ==
  ASSUME ControlOK, FramesOK, QueuesOK, WorkInHand, [Next]_vars
  PROVE  WorkInHand'
<1> USE DEF ControlOK, WorkInHand, Threads, At, Goto
<1>1. CASE StartClient \/ ExitInference \/ DequeueFrame
  <2>1. UNCHANGED <<item, event>>
    BY <1>1 DEF StartClient, ExitInference, DequeueFrame, inflightVars, eventVars
  <2>2. DequeueFrame => Head(avframe_q) \in Resolutions
    BY SeqFacts DEF DequeueFrame, FramesOK
  <2>3. QED
    BY <1>1, <2>1, <2>2 DEF StartClient, ExitInference, DequeueFrame, SkipMismatch, AcceptSize,
       inferenceVars
<1>2. CASE ReleaseSchedules \/ CaptureSettings \/ ResetTrackers \/ FillSchedules
  BY <1>2 DEF ReleaseSchedules, CaptureSettings, ResetTrackers, FillSchedules, updateRest,
     inflightVars, eventVars
<1>3. CASE PreprocessFails \/ RequestRefused \/ RequestAccepted \/ PushInflight
  BY <1>3 DEF PreprocessFails, RequestRefused, RequestAccepted, PushInflight, requestRest,
     inflightVars, eventVars
<1>4. CASE ResponseThread
  BY <1>4 DEF ResponseThread, ExitResponse, DequeueInflight, NoResult, TakeResult, TrackObjects,
     PushEvent, responseRest, inferenceVars, inflightVars
<1>5. CASE EventThread \/ IoThread
  BY <1>5 DEF EventThread, ExitEvent, DequeueEvent, TestSchedules, CheckSchedules, SaveAndSend,
     IoThread, ExitIo, WriteImage, eventRest, ioRest, inferenceVars, inflightVars, eventVars
<1>6. CASE MainThread
  BY <1>6 DEF MainThread, StopThread, Unsubscribe, CloseAvframe, CloseInflight, CloseResponse,
     CloseEvent, CloseIo, stopRest, inferenceVars
<1>7. CASE FrameArrives \/ ScheduleCallback \/ ExcludeCallback \/ Answer \/ Crash
  BY <1>7 DEF FrameArrives, ScheduleCallback, ExcludeCallback, Answer, Crash, threadVars,
     inferenceVars, inflightVars, eventVars
<1>8. CASE UNCHANGED vars
  BY <1>8 DEF vars, threadVars, inferenceVars, inflightVars, eventVars
<1>9. QED
  BY <1>1, <1>2, <1>3, <1>4, <1>5, <1>6, <1>7, <1>8 DEF Next, Ended, InferenceThread

(***************************************************************************)
(* The type invariant with what the threads hold is inductive.             *)
(***************************************************************************)
UnitTyped == TypeOK /\ WorkInHand

LEMMA InitTyped == Init => UnitTyped
<1> SUFFICES ASSUME Init PROVE UnitTyped
  OBVIOUS
<1>1. ControlOK /\ WorkInHand
  BY DEF Init, ControlOK, WorkInHand, Threads, Places, MainPlaces
<1>2. FramesOK
  BY ThresholdAssumption, SeqFacts DEF Init, FramesOK, NoFrame
<1>3. SettingsOK
  BY SeqFacts DEF Init, SettingsOK, Settings
<1>4. QueuesOK
  BY SeqFacts DEF Init, QueuesOK
<1>5. FlagsOK
  <2>1. schedule_settings.some \in BOOLEAN
    BY DEF Init
  <2>2. running \in [Threads -> BOOLEAN]
    BY DEF Init
  <2>3. QED
    BY Zenon, <2>1, <2>2 DEF Init, FlagsOK
<1>6. QED
  BY <1>1, <1>2, <1>3, <1>4, <1>5, TypeParts DEF UnitTyped

LEMMA TypedStep == UnitTyped /\ [Next]_vars => UnitTyped'
<1> SUFFICES ASSUME UnitTyped, [Next]_vars PROVE UnitTyped'
  OBVIOUS
<1>1. ControlOK /\ FramesOK /\ SettingsOK /\ QueuesOK /\ FlagsOK /\ WorkInHand
  BY TypeParts DEF UnitTyped
<1>2. ControlOK' /\ FramesOK' /\ SettingsOK' /\ QueuesOK' /\ FlagsOK' /\ WorkInHand'
  BY <1>1, ControlStep, FramesStep, SettingsStep, QueuesStep, FlagsStep, WorkStep
<1>3. TypeOK'
  BY Zenon, <1>2 DEF TypeOK, ControlOK, FramesOK, SettingsOK, QueuesOK, FlagsOK
<1>4. QED
  BY <1>2, <1>3 DEF UnitTyped

LEMMA AlwaysTyped == Spec => []UnitTyped
  BY InitTyped, TypedStep, PTL DEF Spec

(***************************************************************************)
(* Type correctness: whatever the four threads, the setting callbacks, the *)
(* engines and Stop do, every variable keeps its type; in particular no    *)
(* thread uses a frame, an item or an event it does not have, and the      *)
(* mismatch counter stays below the threshold.                             *)
(***************************************************************************)
THEOREM TypeCorrect == Spec => []TypeOK
<1>1. UnitTyped => TypeOK
  BY DEF UnitTyped
<1>2. QED
  BY <1>1, AlwaysTyped, PTL

-----------------------------------------------------------------------------
(***************************************************************************)
(* The settings in force.  NoLostScheduleUpdate says nothing about the     *)
(* moments of an update, so it is not inductive.  Between the capture and  *)
(* the new schedules, the captured settings are the current ones unless    *)
(* the flag was set again since.                                           *)
(***************************************************************************)
CaptureIsCurrent ==
    pc["inference"] \in {"reset", "fill"} =>
      is_schedule_updated \/ schedule_capture = schedule_settings

SettingsInForce == NoLostScheduleUpdate /\ CaptureIsCurrent

LEMMA SettingsInForceStep ==
  ASSUME UnitTyped, SettingsInForce, [Next]_vars
  PROVE  SettingsInForce'
<1>1. ControlOK /\ SettingsOK
  BY TypeParts DEF UnitTyped
<1> USE <1>1 DEF ControlOK, SettingsInForce, CaptureIsCurrent, NoLostScheduleUpdate, Updating,
             Threads, At, Goto
<1>2. CASE StartClient \/ ExitInference \/ DequeueFrame
  BY <1>2 DEF StartClient, ExitInference, DequeueFrame, SkipMismatch, AcceptSize, inferenceVars,
     settingVars
<1>3. CASE ReleaseSchedules \/ CaptureSettings \/ ResetTrackers
  BY <1>3 DEF ReleaseSchedules, CaptureSettings, ResetTrackers, updateRest
<1>4. CASE FillSchedules
  BY <1>4 DEF FillSchedules, updateRest
<1>5. CASE PreprocessFails \/ RequestRefused \/ RequestAccepted \/ PushInflight
  BY <1>5 DEF PreprocessFails, RequestRefused, RequestAccepted, PushInflight, requestRest,
     settingVars
<1>6. CASE ScheduleCallback
  BY <1>6 DEF ScheduleCallback, threadVars
<1>7. CASE OtherStep /\ ~ScheduleCallback
  <2>1. UNCHANGED <<schedule_settings, is_schedule_updated>>
    BY <1>7 DEF OtherStep, FrameArrives, ExcludeCallback, Answer, Crash, Ended, vars,
       ResponseThread, ExitResponse, DequeueInflight, NoResult, TakeResult, TrackObjects,
       PushEvent, EventThread, ExitEvent, DequeueEvent, TestSchedules, CheckSchedules,
       SaveAndSend, IoThread, ExitIo, WriteImage, MainThread, StopThread, Unsubscribe,
       CloseAvframe, CloseInflight, CloseResponse, CloseEvent, CloseIo, responseRest, eventRest,
       ioRest, stopRest, settingVars
  <2>2. UNCHANGED <<schedule_capture, scheduler>> /\ pc'["inference"] = pc["inference"]
    BY <1>7, OthersLeaveInference DEF inferenceVars
  <2>3. QED
    BY <2>1, <2>2
<1>8. CASE UNCHANGED vars
  BY <1>8 DEF vars, threadVars, inferenceVars, settingVars
<1>9. QED
  BY <1>2, <1>3, <1>4, <1>5, <1>6, <1>7, <1>8, NextCases DEF InferenceThread

(***************************************************************************)
(* No schedule update is lost: ScheduleCallback may come at any step of    *)
(* UpdateSchedule in the inference thread, before or after the capture.    *)
(***************************************************************************)
THEOREM NoUpdateIsLost == Spec => []NoLostScheduleUpdate
<1>1. Init => SettingsInForce
  BY DEF Init, SettingsInForce, NoLostScheduleUpdate, CaptureIsCurrent, Updating, Threads
<1>2. UnitTyped /\ SettingsInForce /\ [Next]_vars => SettingsInForce'
  BY SettingsInForceStep
<1>3. SettingsInForce => NoLostScheduleUpdate
  BY DEF SettingsInForce
<1>4. QED
  BY <1>1, <1>2, <1>3, AlwaysTyped, PTL DEF Spec

-----------------------------------------------------------------------------
(***************************************************************************)
(* The frame size in force.  Before the first frame there are no schedules *)
(* and the inference thread works on nothing.                              *)
(***************************************************************************)
NoSizeNoSchedules ==
    stable_frame = 0 => scheduler = <<>> /\ pc["inference"] \in {"start", "loop", "exited"}

SizeInForce == SchedulesFitFrame /\ NoSizeNoSchedules

LEMMA SizeInForceStep ==
  ASSUME UnitTyped, SizeInForce, [Next]_vars
  PROVE  SizeInForce'
<1>1. ControlOK /\ FramesOK /\ WorkInHand
  BY TypeParts DEF UnitTyped
<1> USE <1>1, ResolutionsAssumption
        DEF ControlOK, WorkInHand, SizeInForce, NoSizeNoSchedules, SchedulesFitFrame, Updating,
            Threads, At, Goto
<1>2. CASE StartClient \/ ExitInference
  BY <1>2 DEF StartClient, ExitInference, inferenceVars
<1>3. CASE DequeueFrame
  <2>1. Head(avframe_q) \in Resolutions
    BY <1>3, SeqFacts DEF DequeueFrame, FramesOK
  <2>2. QED
    BY <1>3, <2>1 DEF DequeueFrame, SkipMismatch, AcceptSize, inferenceVars
<1>4. CASE ReleaseSchedules \/ CaptureSettings \/ ResetTrackers
  BY <1>4 DEF ReleaseSchedules, CaptureSettings, ResetTrackers, updateRest
<1>5. CASE FillSchedules
  BY <1>5 DEF FillSchedules, updateRest
<1>6. CASE PreprocessFails \/ RequestRefused \/ RequestAccepted \/ PushInflight
  BY <1>6 DEF PreprocessFails, RequestRefused, RequestAccepted, PushInflight, requestRest
<1>7. CASE OtherStep
  BY <1>7, OthersLeaveInference DEF inferenceVars
<1>8. CASE UNCHANGED vars
  BY <1>8 DEF vars, threadVars, inferenceVars
<1>9. QED
  BY <1>2, <1>3, <1>4, <1>5, <1>6, <1>7, <1>8, NextCases DEF InferenceThread

(***************************************************************************)
(* The schedules are always scaled to the frame size in use: no frame of a *)
(* new size reaches the engine with the zones of the old one.              *)
(***************************************************************************)
THEOREM SchedulesAlwaysFit == Spec => []SchedulesFitFrame
<1>1. Init => SizeInForce
  BY DEF Init, SizeInForce, NoSizeNoSchedules, SchedulesFitFrame, Threads
<1>2. UnitTyped /\ SizeInForce /\ [Next]_vars => SizeInForce'
  BY SizeInForceStep
<1>3. SizeInForce => SchedulesFitFrame
  BY DEF SizeInForce
<1>4. QED
  BY <1>1, <1>2, <1>3, AlwaysTyped, PTL DEF Spec

-----------------------------------------------------------------------------
(***************************************************************************)
(* consecutive_mismatch_count counts the frames at the end of recent that  *)
(* differ from the size in use.                                            *)
(***************************************************************************)
MismatchRun ==
    LET n == consecutive_mismatch_count IN
    /\ n <= Len(recent) /\ Len(recent) <= ReinitThreshold
    /\ n # 0 => stable_frame # 0
    /\ \A i \in 1..Len(recent) : i > Len(recent) - n => recent[i] # stable_frame

(***************************************************************************)
(* What Remember does to the sequence: it appends and keeps the last       *)
(* ReinitThreshold elements.                                               *)
(***************************************************************************)
LEMMA RememberElements ==
  ASSUME recent \in Seq(Resolutions), Len(recent) <= ReinitThreshold, NEW r \in Resolutions
  PROVE  LET d == IF Len(recent) = ReinitThreshold THEN 1 ELSE 0 IN
         /\ Remember(r) \in Seq(Resolutions)
         /\ Len(Remember(r)) = Len(recent) + 1 - d
         /\ Remember(r)[Len(recent) + 1 - d] = r
         /\ \A i \in 1..(Len(recent) - d) : Remember(r)[i] = recent[i + d]
<1> DEFINE s == Append(recent, r)
<1>1. /\ s \in Seq(Resolutions) /\ Len(s) = Len(recent) + 1
      /\ s[Len(recent) + 1] = r
      /\ \A i \in 1..Len(recent) : s[i] = recent[i]
  OBVIOUS
<1>2. CASE Len(recent) = ReinitThreshold
  <2> HIDE DEF s
  <2>1. s # <<>>
    BY <1>1
  <2>2. /\ Tail(s) \in Seq(Resolutions) /\ Len(Tail(s)) = Len(recent)
        /\ \A i \in 1..Len(recent) : Tail(s)[i] = s[i + 1]
    BY <1>1, <2>1
  <2>3. Len(s) > ReinitThreshold
    BY <1>1, <1>2, ThresholdAssumption
  <2>4. Remember(r) = Tail(s)
    BY <2>3 DEF Remember, s
  <2>5. Len(recent) \in Nat /\ Len(recent) # 0
    BY <1>2, ThresholdAssumption
  <2>6. QED
    BY <1>1, <1>2, <2>2, <2>4, <2>5
<1>3. CASE Len(recent) # ReinitThreshold
  <2>1. Remember(r) = s
    BY <1>1, <1>3, ThresholdAssumption DEF Remember
  <2> HIDE DEF s
  <2>2. QED
    BY <1>1, <1>3, <2>1
<1>4. QED
  BY <1>2, <1>3

LEMMA MismatchRunStep ==
  ASSUME UnitTyped, MismatchRun, [Next]_vars
  PROVE  /\ MismatchRun'
         /\ (stable_frame' # stable_frame /\ stable_frame # 0) =>
              /\ Len(recent') = ReinitThreshold
              /\ \A i \in 1..ReinitThreshold : recent'[i] # stable_frame
<1>1. ControlOK /\ FramesOK
  BY TypeParts DEF UnitTyped
<1>2. CASE UNCHANGED <<consecutive_mismatch_count, stable_frame, recent>>
  BY <1>2 DEF MismatchRun
<1>3. CASE DequeueFrame /\ ~UNCHANGED <<consecutive_mismatch_count, stable_frame, recent>>
  <2> DEFINE r == Head(avframe_q)
             n == consecutive_mismatch_count
             d == IF Len(recent) = ReinitThreshold THEN 1 ELSE 0
  <2>1. r \in Resolutions
    BY <1>1, <1>3, SeqFacts DEF DequeueFrame, FramesOK
  <2>2. recent' = Remember(r) /\ (SkipMismatch(r) \/ AcceptSize(r))
    BY <1>3 DEF DequeueFrame, inferenceVars
  <2>3. /\ recent' \in Seq(Resolutions)
        /\ Len(recent') = Len(recent) + 1 - d
        /\ recent'[Len(recent) + 1 - d] = r
        /\ \A i \in 1..(Len(recent) - d) : recent'[i] = recent[i + d]
    BY <1>1, <2>1, <2>2, RememberElements DEF FramesOK, MismatchRun
  <2>4. n \in 0..(ReinitThreshold - 1) /\ Len(recent) \in Nat /\ n <= Len(recent)
        /\ Len(recent) <= ReinitThreshold /\ ReinitThreshold \in Nat \ {0}
    BY <1>1, ThresholdAssumption DEF FramesOK, MismatchRun
  <2>5. ASSUME r # stable_frame, NEW i \in 1..Len(recent'), i > Len(recent') - (n + 1)
        PROVE  recent'[i] # stable_frame
    <3>1. CASE i = Len(recent')
      BY <2>3, <2>5, <3>1
    <3>2. CASE i # Len(recent')
      <4>1. i \in 1..(Len(recent) - d) /\ i + d \in 1..Len(recent) /\ i + d > Len(recent) - n
        BY <2>3, <2>4, <2>5, <3>2
      <4>2. QED
        BY <4>1, <2>3 DEF MismatchRun
    <3>3. QED
      BY <3>1, <3>2
  <2> HIDE DEF r, n, d
  <2>6. CASE SkipMismatch(r)
    <3>1. /\ r # stable_frame /\ stable_frame # 0 /\ stable_frame' = stable_frame
          /\ consecutive_mismatch_count' = n + 1
      BY <2>6 DEF SkipMismatch, n
    <3>2. n + 1 <= Len(recent') /\ Len(recent') <= ReinitThreshold
      BY <2>3, <2>4 DEF d
    <3>3. QED
      BY <3>1, <3>2, <2>5 DEF MismatchRun
  <2>7. CASE AcceptSize(r)
    <3>1. consecutive_mismatch_count' = 0 /\ stable_frame' = r
      BY <2>7 DEF AcceptSize
    <3>2. Len(recent') <= ReinitThreshold /\ Len(recent') \in Nat
      BY <2>3, <2>4 DEF d
    <3>3. MismatchRun'
      BY <3>1, <3>2 DEF MismatchRun
    <3>4. ASSUME stable_frame' # stable_frame, stable_frame # 0
          PROVE  /\ Len(recent') = ReinitThreshold
                 /\ \A i \in 1..ReinitThreshold : recent'[i] # stable_frame
      <4>1. r # stable_frame /\ n + 1 >= ReinitThreshold
        BY <2>7, <3>1, <3>4 DEF AcceptSize, n
      <4>2. n + 1 = ReinitThreshold /\ Len(recent') = ReinitThreshold
        BY <4>1, <2>3, <2>4 DEF d
      <4>3. QED
        BY <4>1, <4>2, <2>5
    <3>5. QED
      BY <3>3, <3>4
  <2>8. QED
    BY <2>2, <2>6, <2>7
<1>4. CASE InferenceThread /\ ~DequeueFrame
  <2>1. UNCHANGED <<consecutive_mismatch_count, stable_frame, recent>>
    BY <1>4 DEF InferenceThread, StartClient, ExitInference, ReleaseSchedules, CaptureSettings,
       ResetTrackers, FillSchedules, PreprocessFails, RequestRefused, RequestAccepted,
       PushInflight, updateRest, requestRest, inferenceVars
  <2>2. QED
    BY <1>2, <2>1
<1>5. CASE OtherStep \/ UNCHANGED vars
  <2>1. UNCHANGED <<consecutive_mismatch_count, stable_frame, recent>>
    BY <1>1, <1>5, OthersLeaveInference DEF vars, inferenceVars
  <2>2. QED
    BY <1>2, <2>1
<1>6. QED
  BY <1>2, <1>3, <1>4, <1>5, NextCases

(***************************************************************************)
(* The frame size in use changes only after ReinitThreshold frames in a    *)
(* row of another size, for every threshold: shorter bursts, and bursts    *)
(* broken by one frame of the size in use, never add up.                   *)
(***************************************************************************)
THEOREM ResizeNeedsRun == Spec => ResizeAfterRunOnly
<1>1. Init => MismatchRun
  BY ThresholdAssumption DEF Init, MismatchRun
<1>2. UnitTyped /\ MismatchRun /\ [Next]_vars => MismatchRun'
  BY MismatchRunStep
<1>3. UnitTyped /\ MismatchRun /\ [Next]_vars =>
        [(stable_frame' # stable_frame /\ stable_frame # 0) =>
           /\ Len(recent') = ReinitThreshold
           /\ \A i \in 1..ReinitThreshold : recent'[i] # stable_frame]_vars
  BY MismatchRunStep
<1>4. QED
  BY <1>1, <1>2, <1>3, AlwaysTyped, PTL DEF Spec, ResizeAfterRunOnly

-----------------------------------------------------------------------------
(***************************************************************************)
(* The stages of Stop.  Each place of the main thread comes after those of *)
(* the stages before it, and a process that went down is at none of them.  *)
(***************************************************************************)
IoClosed         == {"joinIo", "end"}
EventJoined      == {"stopIo", "closeIo"} \cup IoClosed
EventCleared     == {"joinEvent"} \cup EventJoined
ResponseJoined   == {"stopEvent", "closeEvent"} \cup EventCleared
InflightCleared  == {"joinResponse"} \cup ResponseJoined
InferenceJoined  == {"stopResponse", "closeResponse"} \cup InflightCleared

(***************************************************************************)
(* A thread that was joined stays out, so a queue that was cleared after   *)
(* its producer was joined stays empty.                                    *)
(***************************************************************************)
StopStages ==
    /\ mpc \in InferenceJoined => pc["inference"] = "exited"
    /\ mpc \in InflightCleared => inflight_q = <<>>
    /\ mpc \in ResponseJoined  => pc["response"] = "exited"
    /\ mpc \in EventCleared    => event_q = <<>>
    /\ mpc \in EventJoined     => pc["event"] = "exited"
    /\ mpc \in IoClosed        => io_q = <<>>

LEMMA StopStagesStep ==
  ASSUME ControlOK, StopStages, [Next]_vars
  PROVE  StopStages'
<1> USE DEF ControlOK, StopStages, IoClosed, EventJoined, EventCleared, ResponseJoined,
        InflightCleared, InferenceJoined, Threads, At, Goto
<1>1. CASE InferenceThread
  <2>1. pc["inference"] # "exited"
    BY <1>1 DEF InferenceThread, StartClient, ExitInference, DequeueFrame, ReleaseSchedules,
       CaptureSettings, ResetTrackers, FillSchedules, PreprocessFails, RequestRefused,
       RequestAccepted, PushInflight
  <2>2. UNCHANGED mpc
    BY <1>1 DEF InferenceThread, StartClient, ExitInference, DequeueFrame, ReleaseSchedules,
       CaptureSettings, ResetTrackers, FillSchedules, PreprocessFails, RequestRefused,
       RequestAccepted, PushInflight, updateRest, requestRest
  <2>3. QED
    BY <2>1, <2>2
<1>2. CASE ResponseThread
  <2>1. pc["response"] # "exited" /\ UNCHANGED <<mpc, io_q>>
    BY <1>2 DEF ResponseThread, ExitResponse, DequeueInflight, NoResult, TakeResult, TrackObjects,
       PushEvent, responseRest, ioVars
  <2>2. /\ pc'["inference"] = pc["inference"] /\ pc'["event"] = pc["event"]
        /\ inflight_q = <<>> => inflight_q' = <<>>
    BY <1>2 DEF ResponseThread, ExitResponse, DequeueInflight, NoResult, TakeResult, TrackObjects,
       PushEvent, inflightVars
  <2>3. QED
    BY <2>1, <2>2
<1>3. CASE EventThread
  <2>1. pc["event"] # "exited" /\ UNCHANGED <<mpc, inflight_q>>
    BY <1>3 DEF EventThread, ExitEvent, DequeueEvent, TestSchedules, CheckSchedules, SaveAndSend,
       eventRest, inflightVars
  <2>2. /\ pc'["inference"] = pc["inference"] /\ pc'["response"] = pc["response"]
        /\ event_q = <<>> => event_q' = <<>>
    BY <1>3 DEF EventThread, ExitEvent, DequeueEvent, TestSchedules, CheckSchedules, SaveAndSend
  <2>3. QED
    BY <2>1, <2>2
<1>4. CASE IoThread
  BY <1>4 DEF IoThread, ExitIo, WriteImage, ioRest, inflightVars, eventVars
<1>5. CASE StopThread
  BY <1>5 DEF StopThread, ClearFlag, Join, stopRest, ioVars
<1>6. CASE Unsubscribe \/ CloseAvframe \/ CloseInflight
  BY <1>6 DEF Unsubscribe, CloseAvframe, CloseInflight, stopRest
<1>7. CASE CloseResponse \/ CloseEvent \/ CloseIo
  BY <1>7 DEF CloseResponse, CloseEvent, CloseIo, stopRest, ioVars
<1>8. CASE FrameArrives \/ ScheduleCallback \/ ExcludeCallback \/ Answer \/ Crash
  BY <1>8 DEF FrameArrives, ScheduleCallback, ExcludeCallback, Answer, Crash, threadVars,
     inflightVars, eventVars, ioVars
<1>9. CASE UNCHANGED vars
  BY <1>9 DEF vars, threadVars, inflightVars, eventVars, ioVars
<1>10. QED
  BY <1>1, <1>2, <1>3, <1>4, <1>5, <1>6, <1>7, <1>8, <1>9 DEF Next, Ended, MainThread

(***************************************************************************)
(* The order of Stop leaves nothing behind: when it ends, the queues of    *)
(* frames in flight, events and images are empty, wherever the threads     *)
(* were when it began.                                                     *)
(***************************************************************************)
THEOREM StopLeavesNothing == Spec => []NothingLeftBehind
<1>1. Init => StopStages
  BY DEF Init, StopStages, IoClosed, EventJoined, EventCleared, ResponseJoined, InflightCleared,
     InferenceJoined
<1>2. UnitTyped /\ StopStages /\ [Next]_vars => StopStages'
  BY StopStagesStep, TypeParts DEF UnitTyped
<1>3. StopStages => NothingLeftBehind
  BY DEF StopStages, NothingLeftBehind, IoClosed, EventJoined, EventCleared, ResponseJoined,
     InflightCleared, InferenceJoined
<1>4. QED
  BY <1>1, <1>2, <1>3, AlwaysTyped, PTL DEF Spec

-----------------------------------------------------------------------------
(***************************************************************************)
(* Frames and answers.  The frames that still wait for an answer, oldest   *)
(* first: the one the response thread waits with, those of inflight_q_ and *)
(* the one that was accepted but not pushed yet.  The answers under way:   *)
(* those of the result queue, then the accepted requests.                  *)
(***************************************************************************)
InWait    == IF pc["response"] = "wait" THEN 1 ELSE 0
InPush    == IF pc["inference"] = "inflight" THEN 1 ELSE 0
FramesDue == InWait + Len(inflight_q) + InPush
FrameDue(i) == IF i <= InWait THEN item[1].id
               ELSE IF i <= InWait + Len(inflight_q) THEN inflight_q[i - InWait].id
               ELSE frame_count

AnswersDue == Len(result_q) + Len(pending)
AnswerDue(i) == IF i <= Len(result_q) THEN result_q[i] ELSE pending[i - Len(result_q)]

InStep == /\ FramesDue = AnswersDue
          /\ \A i \in 1..FramesDue : FrameDue(i) = AnswerDue(i)

NothingDue == FramesDue = 0 /\ AnswersDue = 0

(***************************************************************************)
(* While nothing disturbed their order, the two sequences are the same.    *)
(* Nothing is due before the camera has its result queue, nor after Stop   *)
(* took it away and the late inference thread made another one.            *)
(***************************************************************************)
PairedInOrder == (InOrder /\ ~disturbed) => ~mismatched /\ (subscribed => InStep)

SubscriptionStages ==
    /\ pc["inference"] = "start" => NothingDue
    /\ mpc \notin {"run", "crashed"} => ~running["inference"]
    /\ (mpc \notin {"run", "unsubscribe", "crashed"} /\ subscribed) =>
         NothingDue /\ pc["inference"] \in {"loop", "exited"}

Pairing == PairedInOrder /\ SubscriptionStages

(***************************************************************************)
(* A step that changes none of this, and keeps the two threads where they  *)
(* are as far as it matters, keeps the sequences.                          *)
(***************************************************************************)
LEMMA DueUnchanged ==
  ASSUME ControlOK, QueuesOK,
         pc'["response"] = "wait" <=> pc["response"] = "wait",
         pc'["inference"] = "inflight" <=> pc["inference"] = "inflight",
         pc["response"] = "wait" => item' = item,
         pc["inference"] = "inflight" => frame_count' = frame_count,
         UNCHANGED <<inflight_q, result_q, pending>>
  PROVE  InStep => InStep'
<1>1. InWait' = InWait /\ InPush' = InPush
  BY DEF InWait, InPush
<1>2. FramesDue' = FramesDue /\ AnswersDue' = AnswersDue
  BY <1>1 DEF FramesDue, AnswersDue
<1>3. ASSUME NEW i \in 1..FramesDue PROVE FrameDue(i)' = FrameDue(i)
  <2>1. CASE i <= InWait
    <3>1. pc["response"] = "wait"
      BY <2>1 DEF InWait
    <3>2. QED
      BY <1>1, <2>1, <3>1 DEF FrameDue
  <2>2. CASE ~(i <= InWait) /\ i <= InWait + Len(inflight_q)
    BY <1>1, <2>2 DEF FrameDue
  <2>3. CASE ~(i <= InWait) /\ ~(i <= InWait + Len(inflight_q))
    <3>1. Len(inflight_q) \in Nat /\ InWait \in {0, 1}
      BY DEF QueuesOK, InWait
    <3>2. pc["inference"] = "inflight"
      BY <2>3, <3>1 DEF FramesDue, InPush
    <3>3. QED
      BY <1>1, <2>3, <3>2 DEF FrameDue
  <2>4. QED
    BY <2>1, <2>2, <2>3
<1>4. ASSUME NEW i \in 1..FramesDue PROVE AnswerDue(i)' = AnswerDue(i)
  BY DEF AnswerDue
<1>5. QED
  BY <1>2, <1>3, <1>4 DEF InStep

(***************************************************************************)
(* Without the first element, a queue moves up by one.                     *)
(***************************************************************************)
LEMMA WithoutFirst ==
  ASSUME NEW S, NEW q \in Seq(S), Len(q) >= 1
  PROVE  /\ Len(Without(q, 1)) = Len(q) - 1
         /\ \A i \in 1..(Len(q) - 1) : Without(q, 1)[i] = q[i + 1]
<1> DEFINE t == SubSeq(q, 2, Len(q))
<1>1. /\ t \in Seq(S) /\ Len(t) = Len(q) - 1
      /\ \A i \in 1..(Len(q) - 1) : t[i] = q[i + 1]
  <2>1. t \in Seq(S)
    OBVIOUS
  <2>2. Len(t) = Len(q) - 1
    <3>1. CASE Len(q) = 1
      BY <3>1
    <3>2. CASE Len(q) > 1
      BY <3>2
    <3>3. Len(q) \in Nat
      OBVIOUS
    <3>4. QED
      BY <3>1, <3>2, <3>3, SMTT(60)
  <2>3. ASSUME NEW i \in 1..(Len(q) - 1) PROVE t[i] = q[i + 1]
    <3>1. i \in 1..(Len(q) + 1 - 2) /\ 2 + i - 1 = i + 1
      OBVIOUS
    <3>2. t[i] = q[2 + i - 1]
      BY <3>1
    <3>3. QED
      BY <3>1, <3>2
  <2>4. QED
    BY <2>1, <2>2, <2>3
<1>2. SubSeq(q, 1, 0) = <<>>
  OBVIOUS
<1>3. Without(q, 1) = <<>> \o t
  BY <1>2 DEF Without
<1> HIDE DEF t
<1>4. <<>> \o t = t
  BY <1>1
<1>5. QED
  BY <1>1, <1>3, <1>4

(***************************************************************************)
(* The five steps that move a frame or an answer along.  An answer goes    *)
(* from the oldest accepted request to the end of the result queue.        *)
(***************************************************************************)
LEMMA AnswerKeepsStep ==
  ASSUME QueuesOK, InStep, Answer, InOrder, subscribed, ~IsFull(result_q, ResultCap)
  PROVE  InStep'
<1>1. /\ pending' = Without(pending, 1) /\ Len(pending) >= 1
      /\ result_q' = Append(result_q, pending[1])
  BY DEF Answer, Enqueue, Kept, QueuesOK
<1>2. /\ Len(pending') = Len(pending) - 1
      /\ \A i \in 1..(Len(pending) - 1) : pending'[i] = pending[i + 1]
  BY <1>1, WithoutFirst DEF QueuesOK
<1>3. /\ Len(result_q') = Len(result_q) + 1
      /\ result_q'[Len(result_q) + 1] = pending[1]
      /\ \A i \in 1..Len(result_q) : result_q'[i] = result_q[i]
  BY <1>1 DEF QueuesOK
<1>4. Len(pending) \in Nat /\ Len(result_q) \in Nat /\ Len(inflight_q) \in Nat
  BY DEF QueuesOK
<1>5. AnswersDue' = AnswersDue
  BY <1>2, <1>3, <1>4 DEF AnswersDue
<1>6. \A i \in 1..AnswersDue : AnswerDue(i)' = AnswerDue(i)
  <2> TAKE i \in 1..AnswersDue
  <2>1. CASE i <= Len(result_q)
    BY <1>3, <1>4, <2>1 DEF AnswerDue, AnswersDue
  <2>2. CASE i = Len(result_q) + 1
    BY <1>3, <1>4, <2>2 DEF AnswerDue, AnswersDue
  <2>3. CASE i > Len(result_q) + 1
    <3>1. i - (Len(result_q) + 1) \in 1..(Len(pending) - 1)
      BY <1>4, <2>3 DEF AnswersDue
    <3>2. pending'[i - (Len(result_q) + 1)] = pending[i - (Len(result_q) + 1) + 1]
      BY <1>2, <3>1
    <3>3. QED
      BY <1>3, <1>4, <2>3, <3>2 DEF AnswerDue, AnswersDue
  <2>4. QED
    BY <1>4, <2>1, <2>2, <2>3 DEF AnswersDue
<1>7. UNCHANGED <<pc, item, inflight_q, frame_count>>
  BY DEF Answer, threadVars, inflightVars, inferenceVars
<1>8. FramesDue' = FramesDue /\ \A i \in 1..FramesDue : FrameDue(i)' = FrameDue(i)
  BY <1>7 DEF FramesDue, FrameDue, InWait, InPush
<1>9. QED
  BY <1>5, <1>6, <1>8 DEF InStep

(***************************************************************************)
(* The response thread takes an item: it is the oldest frame still.        *)
(***************************************************************************)
LEMMA DequeueKeepsStep ==
  ASSUME ControlOK, QueuesOK, InStep, DequeueInflight
  PROVE  InStep'
<1>1. /\ pc["response"] = "loop" /\ pc'["response"] = "wait"
      /\ pc'["inference"] = pc["inference"]
      /\ item' = <<Head(inflight_q)>> /\ inflight_q # <<>> /\ inflight_q' = Tail(inflight_q)
  BY DEF DequeueInflight, At, Goto, ControlOK, Threads
<1>2. Len(inflight_q) \in Nat \ {0} /\ Len(inflight_q') = Len(inflight_q) - 1
  BY <1>1 DEF QueuesOK
<1>3. /\ \A i \in 1..(Len(inflight_q) - 1) : inflight_q'[i] = inflight_q[i + 1]
      /\ item'[1] = inflight_q[1]
  BY <1>1 DEF QueuesOK
<1>4. InWait = 0 /\ InWait' = 1 /\ InPush' = InPush /\ InPush \in {0, 1}
  BY <1>1 DEF InWait, InPush
<1>5. FramesDue' = FramesDue
  BY <1>2, <1>4 DEF FramesDue
<1>6. UNCHANGED <<frame_count, result_q, pending>>
  BY DEF DequeueInflight, responseRest, inferenceVars
<1>7. \A i \in 1..FramesDue : FrameDue(i)' = FrameDue(i)
  <2> TAKE i \in 1..FramesDue
  <2>1. CASE i = 1
    BY <1>2, <1>3, <1>4, <2>1 DEF FrameDue, FramesDue
  <2>2. CASE i > 1 /\ i <= Len(inflight_q)
    <3>1. i - 1 \in 1..(Len(inflight_q) - 1)
      BY <1>2, <2>2, <1>4 DEF FramesDue
    <3>2. inflight_q'[i - 1] = inflight_q[i - 1 + 1]
      BY <1>3, <3>1
    <3>3. QED
      BY <1>2, <1>4, <2>2, <3>2 DEF FrameDue, FramesDue
  <2>3. CASE i > Len(inflight_q)
    BY <1>2, <1>4, <1>6, <2>3 DEF FrameDue, FramesDue
  <2>4. QED
    BY <1>2, <1>4, <2>1, <2>2, <2>3 DEF FramesDue
<1>8. AnswersDue' = AnswersDue /\ \A i \in 1..AnswersDue : AnswerDue(i)' = AnswerDue(i)
  BY <1>6 DEF AnswersDue, AnswerDue
<1>9. QED
  BY <1>5, <1>7, <1>8 DEF InStep

(***************************************************************************)
(* The response thread takes the oldest answer: it belongs to its item,    *)
(* and both sequences lose their first element.                            *)
(***************************************************************************)
LEMMA TakeKeepsStep ==
  ASSUME ControlOK, QueuesOK, InStep, TakeResult
  PROVE  InStep' /\ Head(result_q) = item[1].id
<1>1. /\ pc["response"] = "wait" /\ pc'["response"] # "wait"
      /\ pc'["inference"] = pc["inference"]
      /\ result_q # <<>> /\ result_q' = Tail(result_q)
  BY DEF TakeResult, At, Goto, ControlOK, Threads
<1>2. UNCHANGED <<inflight_q, frame_count, pending>>
  BY DEF TakeResult, responseRest, inferenceVars
<1>3. /\ Len(result_q) \in Nat \ {0} /\ Len(result_q') = Len(result_q) - 1
      /\ Len(inflight_q) \in Nat /\ Len(pending) \in Nat
  BY <1>1 DEF QueuesOK
<1>4. /\ \A i \in 1..(Len(result_q) - 1) : result_q'[i] = result_q[i + 1]
      /\ Head(result_q) = result_q[1]
  BY <1>1 DEF QueuesOK
<1>5. InWait = 1 /\ InWait' = 0 /\ InPush' = InPush /\ InPush \in {0, 1}
  BY <1>1 DEF InWait, InPush
<1>6. FramesDue' = FramesDue - 1 /\ AnswersDue' = AnswersDue - 1 /\ FramesDue \in Nat
  BY <1>2, <1>3, <1>5 DEF FramesDue, AnswersDue
<1>7. ASSUME NEW i \in 1..(FramesDue - 1) PROVE FrameDue(i)' = FrameDue(i + 1)
  BY <1>2, <1>3, <1>5, <1>6 DEF FrameDue
<1>8. ASSUME NEW i \in 1..(FramesDue - 1) PROVE AnswerDue(i)' = AnswerDue(i + 1)
  <2>1. CASE i <= Len(result_q) - 1
    BY <1>3, <1>4, <1>6, <2>1 DEF AnswerDue
  <2>2. CASE i > Len(result_q) - 1
    BY <1>2, <1>3, <1>6, <2>2 DEF AnswerDue
  <2>3. QED
    BY <1>3, <1>6, <2>1, <2>2
<1>9. FrameDue(1) = item[1].id /\ AnswerDue(1) = result_q[1] /\ FramesDue >= 1
  BY <1>3, <1>5 DEF FrameDue, AnswerDue, FramesDue
<1>10. QED
  BY <1>4, <1>6, <1>7, <1>8, <1>9 DEF InStep

(***************************************************************************)
(* An accepted request joins both sequences.                               *)
(***************************************************************************)
LEMMA AcceptKeepsStep ==
  ASSUME ControlOK, FramesOK, QueuesOK, InStep, RequestAccepted
  PROVE  InStep'
<1>1. /\ pc["inference"] = "request" /\ pc'["inference"] = "inflight"
      /\ pc'["response"] = pc["response"]
      /\ frame_count' = frame_count + 1 /\ pending' = Append(pending, frame_count + 1)
  BY DEF RequestAccepted, At, Goto, ControlOK, Threads
<1>2. UNCHANGED <<item, inflight_q, result_q>>
  BY DEF RequestAccepted, requestRest, inflightVars
<1>3. /\ Len(pending) \in Nat /\ Len(pending') = Len(pending) + 1
      /\ Len(inflight_q) \in Nat /\ Len(result_q) \in Nat
  BY <1>1 DEF QueuesOK, FramesOK
<1>4. /\ \A i \in 1..Len(pending) : pending'[i] = pending[i]
      /\ pending'[Len(pending) + 1] = frame_count'
  BY <1>1 DEF QueuesOK, FramesOK
<1>5. InPush = 0 /\ InPush' = 1 /\ InWait' = InWait /\ InWait \in {0, 1}
  BY <1>1 DEF InWait, InPush
<1>6. FramesDue' = FramesDue + 1 /\ AnswersDue' = AnswersDue + 1 /\ FramesDue \in Nat
  BY <1>2, <1>3, <1>5 DEF FramesDue, AnswersDue
<1>7. ASSUME NEW i \in 1..FramesDue
      PROVE  FrameDue(i)' = FrameDue(i) /\ AnswerDue(i)' = AnswerDue(i)
  <2>1. FrameDue(i)' = FrameDue(i)
    BY <1>2, <1>3, <1>5 DEF FrameDue, FramesDue
  <2>2. i > Len(result_q) => i - Len(result_q) \in 1..Len(pending)
    BY <1>3, <1>6 DEF InStep, AnswersDue
  <2>3. AnswerDue(i)' = AnswerDue(i)
    BY <1>2, <1>4, <2>2 DEF AnswerDue
  <2>4. QED
    BY <2>1, <2>3
<1>8. ASSUME NEW i \in Nat, i = FramesDue + 1 PROVE FrameDue(i)' = frame_count'
  BY <1>2, <1>3, <1>5, <1>8 DEF FrameDue, FramesDue
<1>9. ASSUME NEW i \in Nat, i = FramesDue + 1 PROVE AnswerDue(i)' = frame_count'
  <2>1. i > Len(result_q) /\ i - Len(result_q) = Len(pending) + 1
    BY <1>3, <1>9 DEF InStep, AnswersDue
  <2>2. QED
    BY <1>2, <1>3, <1>4, <2>1 DEF AnswerDue
<1>10. \A i \in 1..(FramesDue + 1) : FrameDue(i)' = AnswerDue(i)'
  BY <1>6, <1>7, <1>8, <1>9 DEF InStep
<1>11. QED
  BY <1>6, <1>10 DEF InStep

(***************************************************************************)
(* Pushed to inflight_q_ without an eviction, it is the newest frame.      *)
(***************************************************************************)
LEMMA PushKeepsStep ==
  ASSUME ControlOK, FramesOK, QueuesOK, InStep, PushInflight, ~IsFull(inflight_q, InflightCap)
  PROVE  InStep'
<1> DEFINE x == [res |-> frame, id |-> frame_count]
<1>1. /\ pc["inference"] = "inflight" /\ pc'["inference"] = "loop"
      /\ pc'["response"] = pc["response"]
      /\ inflight_q' = Append(inflight_q, x)
  BY DEF PushInflight, At, Goto, ControlOK, Threads, Enqueue, Kept
<1>2. UNCHANGED <<item, frame_count, result_q, pending>>
  BY DEF PushInflight, requestRest
<1>3. x.id = frame_count
  OBVIOUS
<1> HIDE DEF x
<1>4. /\ Len(inflight_q) \in Nat /\ Len(inflight_q') = Len(inflight_q) + 1
      /\ inflight_q'[Len(inflight_q) + 1] = x
      /\ \A i \in 1..Len(inflight_q) : inflight_q'[i] = inflight_q[i]
  BY <1>1 DEF QueuesOK
<1>5. InPush = 1 /\ InPush' = 0 /\ InWait' = InWait /\ InWait \in {0, 1}
  BY <1>1 DEF InWait, InPush
<1>6. FramesDue' = FramesDue /\ FramesDue \in Nat
  BY <1>4, <1>5 DEF FramesDue
<1>7. ASSUME NEW i \in 1..FramesDue PROVE FrameDue(i)' = FrameDue(i)
  <2>1. CASE i <= InWait
    BY <1>2, <1>5, <2>1 DEF FrameDue
  <2>2. CASE i > InWait /\ i <= InWait + Len(inflight_q)
    <3>1. i - InWait \in 1..Len(inflight_q)
      BY <1>4, <1>5, <2>2
    <3>2. QED
      BY <1>4, <1>5, <2>2, <3>1 DEF FrameDue
  <2>3. CASE i > InWait + Len(inflight_q)
    <3>1. i = InWait + Len(inflight_q) + 1 /\ i - InWait = Len(inflight_q) + 1
      BY <1>4, <1>5, <2>3 DEF FramesDue
    <3>2. FrameDue(i)' = inflight_q'[Len(inflight_q) + 1].id
      BY <1>4, <1>5, <3>1 DEF FrameDue
    <3>3. QED
      BY <1>3, <1>4, <1>5, <3>1, <3>2 DEF FrameDue
  <2>4. QED
    BY <1>4, <1>5, <2>1, <2>2, <2>3
<1>8. AnswersDue' = AnswersDue /\ \A i \in 1..AnswersDue : AnswerDue(i)' = AnswerDue(i)
  BY <1>2 DEF AnswersDue, AnswerDue
<1>9. QED
  BY <1>6, <1>7, <1>8 DEF InStep

-----------------------------------------------------------------------------
(***************************************************************************)
(* Nothing due: both threads hold nothing and the queues are empty.        *)
(***************************************************************************)
LEMMA NothingDueMeans ==
  ASSUME QueuesOK
  PROVE  NothingDue <=> /\ pc["response"] # "wait" /\ pc["inference"] # "inflight"
                        /\ inflight_q = <<>> /\ result_q = <<>> /\ pending = <<>>
<1>1. /\ Len(inflight_q) \in Nat /\ (Len(inflight_q) = 0 <=> inflight_q = <<>>)
      /\ Len(result_q) \in Nat /\ (Len(result_q) = 0 <=> result_q = <<>>)
      /\ Len(pending) \in Nat /\ (Len(pending) = 0 <=> pending = <<>>)
  BY DEF QueuesOK
<1>2. /\ InWait \in {0, 1} /\ (InWait = 0 <=> pc["response"] # "wait")
      /\ InPush \in {0, 1} /\ (InPush = 0 <=> pc["inference"] # "inflight")
  BY DEF InWait, InPush
<1>3. /\ FramesDue = 0 <=> InWait = 0 /\ Len(inflight_q) = 0 /\ InPush = 0
      /\ AnswersDue = 0 <=> Len(result_q) = 0 /\ Len(pending) = 0
  BY <1>1, <1>2 DEF FramesDue, AnswersDue
<1>4. QED
  BY <1>1, <1>2, <1>3 DEF NothingDue

LEMMA NothingDueMeansNext ==
  ASSUME QueuesOK'
  PROVE  NothingDue' <=> /\ pc'["response"] # "wait" /\ pc'["inference"] # "inflight"
                         /\ inflight_q' = <<>> /\ result_q' = <<>> /\ pending' = <<>>
<1>1. /\ Len(inflight_q') \in Nat /\ (Len(inflight_q') = 0 <=> inflight_q' = <<>>)
      /\ Len(result_q') \in Nat /\ (Len(result_q') = 0 <=> result_q' = <<>>)
      /\ Len(pending') \in Nat /\ (Len(pending') = 0 <=> pending' = <<>>)
  BY DEF QueuesOK
<1>2. /\ InWait' \in {0, 1} /\ (InWait' = 0 <=> pc'["response"] # "wait")
      /\ InPush' \in {0, 1} /\ (InPush' = 0 <=> pc'["inference"] # "inflight")
  BY DEF InWait, InPush
<1>3. /\ FramesDue' = 0 <=> InWait' = 0 /\ Len(inflight_q') = 0 /\ InPush' = 0
      /\ AnswersDue' = 0 <=> Len(result_q') = 0 /\ Len(pending') = 0
  BY <1>1, <1>2 DEF FramesDue, AnswersDue
<1>4. QED
  BY <1>1, <1>2, <1>3 DEF NothingDue

LEMMA NothingDueInStep == NothingDue => InStep
  BY DEF NothingDue, InStep

(***************************************************************************)
(* The stages of the subscription.                                         *)
(***************************************************************************)
LEMMA SubscriptionStep ==
  ASSUME UnitTyped, SubscriptionStages, [Next]_vars
  PROVE  SubscriptionStages'
<1>1. ControlOK /\ QueuesOK /\ QueuesOK' /\ FlagsOK
  BY TypedStep, TypeParts, QueuesStep DEF UnitTyped
<1> DEFINE Idle == /\ pc["response"] # "wait" /\ pc["inference"] # "inflight"
                   /\ inflight_q = <<>> /\ result_q = <<>> /\ pending = <<>>
<1>2. (NothingDue <=> Idle) /\ (NothingDue' <=> Idle')
  BY <1>1, NothingDueMeans, NothingDueMeansNext
<1> USE <1>1, <1>2 DEF ControlOK, SubscriptionStages, Threads, At, Goto
<1> HIDE DEF NothingDue
<1>3. CASE StartClient
  BY <1>3 DEF StartClient, inflightVars
<1>4. CASE ExitInference \/ DequeueFrame
  BY <1>4 DEF ExitInference, DequeueFrame, SkipMismatch, AcceptSize, inflightVars, engineVars
<1>5. CASE ReleaseSchedules \/ CaptureSettings \/ ResetTrackers \/ FillSchedules
  BY <1>5 DEF ReleaseSchedules, CaptureSettings, ResetTrackers, FillSchedules, updateRest,
     engineVars
<1>6. CASE PreprocessFails \/ RequestRefused \/ RequestAccepted \/ PushInflight
  BY <1>6 DEF PreprocessFails, RequestRefused, RequestAccepted, PushInflight, requestRest
<1>7. CASE ResponseThread
  BY <1>7 DEF ResponseThread, ExitResponse, DequeueInflight, NoResult, TakeResult, TrackObjects,
     PushEvent, responseRest, inflightVars
<1>8. CASE EventThread \/ IoThread
  BY <1>8 DEF EventThread, ExitEvent, DequeueEvent, TestSchedules, CheckSchedules, SaveAndSend,
     IoThread, ExitIo, WriteImage, eventRest, ioRest, inflightVars, engineVars
<1>9. CASE StopThread
  BY <1>9 DEF StopThread, ClearFlag, Join, stopRest, FlagsOK
<1>10. CASE MainThread /\ ~StopThread
  BY <1>10 DEF MainThread, Unsubscribe, CloseAvframe, CloseInflight, CloseResponse, CloseEvent,
     CloseIo, stopRest
<1>11. CASE Answer
  BY <1>11 DEF Answer, threadVars
<1>12. CASE FrameArrives \/ ScheduleCallback \/ ExcludeCallback \/ Crash
  BY <1>12 DEF FrameArrives, ScheduleCallback, ExcludeCallback, Crash, threadVars, inflightVars,
     engineVars
<1>13. CASE UNCHANGED vars
  BY <1>13 DEF vars, threadVars, inflightVars, engineVars
<1>14. QED
  BY <1>3, <1>4, <1>5, <1>6, <1>7, <1>8, <1>9, <1>10, <1>11, <1>12, <1>13
     DEF Next, Ended, InferenceThread

(***************************************************************************)
(* What is undisturbed after a step was undisturbed before it, and no      *)
(* queue was full where the step pushed.                                   *)
(***************************************************************************)
LEMMA UndisturbedStep ==
  ASSUME FlagsOK, [Next]_vars, ~disturbed'
  PROVE  /\ ~disturbed /\ ~NoResult
         /\ PushInflight => ~IsFull(inflight_q, InflightCap)
         /\ Answer /\ subscribed => ~IsFull(result_q, ResultCap)
<1>1. CASE UNCHANGED disturbed
  BY Zenon, <1>1 DEF NoResult, PushInflight, Answer, FlagsOK
<1>2. CASE PushInflight
  BY Zenon, <1>2 DEF NoResult, PushInflight, Answer, FlagsOK
<1>3. CASE Answer
  BY Zenon, <1>3 DEF NoResult, PushInflight, Answer, FlagsOK
<1>4. ~NoResult
  BY Zenon DEF NoResult
<1>5. UNCHANGED disturbed \/ PushInflight \/ Answer \/ NoResult
  BY DEF Next, FrameArrives, ScheduleCallback, ExcludeCallback, Crash, Ended, InferenceThread,
     StartClient, ExitInference, DequeueFrame, ReleaseSchedules, CaptureSettings, ResetTrackers,
     FillSchedules, PreprocessFails, RequestRefused, RequestAccepted, ResponseThread,
     ExitResponse, DequeueInflight, TakeResult, TrackObjects, PushEvent, EventThread, ExitEvent,
     DequeueEvent, TestSchedules, CheckSchedules, SaveAndSend, IoThread, ExitIo, WriteImage,
     MainThread, StopThread, Unsubscribe, CloseAvframe, CloseInflight, CloseResponse, CloseEvent,
     CloseIo, updateRest, requestRest, responseRest, eventRest, ioRest, stopRest, pairVars, vars
<1>6. QED
  BY <1>1, <1>2, <1>3, <1>4, <1>5

(***************************************************************************)
(* Every step that keeps the order undisturbed keeps frames and answers in *)
(* step.                                                                   *)
(***************************************************************************)
LEMMA PairedStep ==
  ASSUME UnitTyped, Pairing, [Next]_vars
  PROVE  PairedInOrder'
<1> SUFFICES ASSUME InOrder, ~disturbed'
             PROVE  ~mismatched' /\ (subscribed' => InStep')
  BY DEF PairedInOrder
<1>1. ControlOK /\ FramesOK /\ QueuesOK /\ FlagsOK
  BY TypeParts DEF UnitTyped
<1>2. /\ ~disturbed /\ ~NoResult
      /\ PushInflight => ~IsFull(inflight_q, InflightCap)
      /\ Answer /\ subscribed => ~IsFull(result_q, ResultCap)
  BY <1>1, UndisturbedStep
<1>3. ~mismatched /\ (subscribed => InStep) /\ SubscriptionStages
  BY <1>2 DEF Pairing, PairedInOrder
<1>4. CASE Answer
  <2>1. ~mismatched' /\ subscribed' = subscribed
    BY <1>3, <1>4 DEF Answer
  <2>2. subscribed => InStep'
    BY <1>1, <1>2, <1>3, <1>4, AnswerKeepsStep
  <2>3. QED
    BY <2>1, <2>2
<1>5. CASE DequeueInflight
  <2>1. ~mismatched' /\ subscribed' = subscribed
    BY <1>3, <1>5 DEF DequeueInflight, responseRest, pairVars
  <2>2. QED
    BY <1>1, <1>3, <1>5, <2>1, DequeueKeepsStep
<1>6. CASE TakeResult
  <2>1. subscribed
    BY <1>6 DEF TakeResult
  <2>2. InStep' /\ Head(result_q) = item[1].id
    BY <1>1, <1>3, <1>6, <2>1, TakeKeepsStep
  <2>3. ~mismatched'
    BY Zenon, <1>3, <1>6, <2>2 DEF TakeResult
  <2>4. QED
    BY <2>2, <2>3
<1>7. CASE RequestAccepted
  <2>1. ~mismatched' /\ subscribed' = subscribed
    BY <1>3, <1>7 DEF RequestAccepted, requestRest
  <2>2. QED
    BY <1>1, <1>3, <1>7, <2>1, AcceptKeepsStep
<1>8. CASE PushInflight
  <2>1. ~mismatched' /\ subscribed' = subscribed
    BY <1>3, <1>8 DEF PushInflight, requestRest
  <2>2. QED
    BY <1>1, <1>2, <1>3, <1>8, <2>1, PushKeepsStep
<1> USE DEF ControlOK, Threads, At, Goto
<1>9. CASE StartClient
  <2>1. NothingDue /\ pc["inference"] = "start"
    BY <1>3, <1>9 DEF StartClient, SubscriptionStages
  <2>2. InStep'
    BY <1>1, <1>9, <2>1, NothingDueInStep, DueUnchanged DEF StartClient, inflightVars,
       inferenceVars
  <2>3. QED
    BY <1>3, <1>9, <2>2 DEF StartClient, pairVars
<1>10. CASE ExitInference \/ DequeueFrame \/ ReleaseSchedules \/ CaptureSettings \/ ResetTrackers
            \/ FillSchedules \/ PreprocessFails \/ RequestRefused
  <2>1. UNCHANGED <<subscribed, mismatched, item, inflight_q, result_q, pending>>
    BY <1>10 DEF ExitInference, DequeueFrame, ReleaseSchedules, CaptureSettings, ResetTrackers,
       FillSchedules, PreprocessFails, RequestRefused, updateRest, requestRest, inflightVars,
       engineVars, pairVars
  <2>2. /\ pc["inference"] # "inflight" /\ pc'["inference"] # "inflight"
        /\ pc'["response"] = pc["response"]
    BY <1>1, <1>10 DEF ExitInference, DequeueFrame, SkipMismatch, AcceptSize, ReleaseSchedules,
       CaptureSettings, ResetTrackers, FillSchedules, PreprocessFails, RequestRefused
  <2>3. InStep => InStep'
    BY <1>1, <2>1, <2>2, DueUnchanged
  <2>4. QED
    BY <1>3, <2>1, <2>3
<1>11. CASE ExitResponse \/ TrackObjects \/ PushEvent
  <2>1. UNCHANGED <<subscribed, mismatched, frame_count, inflight_q, result_q, pending>>
    BY <1>11 DEF ExitResponse, TrackObjects, PushEvent, responseRest, inflightVars, inferenceVars,
       pairVars
  <2>2. /\ pc["response"] # "wait" /\ pc'["response"] # "wait"
        /\ pc'["inference"] = pc["inference"]
    BY <1>1, <1>11 DEF ExitResponse, TrackObjects, PushEvent
  <2>3. InStep => InStep'
    BY <1>1, <2>1, <2>2, DueUnchanged
  <2>4. QED
    BY <1>3, <2>1, <2>3
<1>12. CASE EventThread \/ IoThread
  <2>1. UNCHANGED <<subscribed, mismatched, item, frame_count, inflight_q, result_q, pending>>
    BY <1>12 DEF EventThread, ExitEvent, DequeueEvent, TestSchedules, CheckSchedules, SaveAndSend,
       IoThread, ExitIo, WriteImage, eventRest, ioRest, inflightVars, inferenceVars, engineVars,
       pairVars
  <2>2. pc'["inference"] = pc["inference"] /\ pc'["response"] = pc["response"]
    BY <1>1, <1>12 DEF EventThread, ExitEvent, DequeueEvent, TestSchedules, CheckSchedules,
       SaveAndSend, IoThread, ExitIo, WriteImage, ioRest
  <2>3. InStep => InStep'
    BY <1>1, <2>1, <2>2, DueUnchanged
  <2>4. QED
    BY <1>3, <2>1, <2>3
<1>13. CASE MainThread
  <2>1. UNCHANGED <<pc, mismatched, item, frame_count, result_q, pending>>
    BY <1>13 DEF MainThread, StopThread, Unsubscribe, CloseAvframe, CloseInflight, CloseResponse,
       CloseEvent, CloseIo, stopRest, inferenceVars, pairVars
  <2>2. CASE Unsubscribe
    BY <1>3, <2>1, <2>2 DEF Unsubscribe
  <2>3. CASE ~Unsubscribe
    <3>1. subscribed' = subscribed
      BY <1>13, <2>3 DEF MainThread, StopThread, CloseAvframe, CloseInflight, CloseResponse,
         CloseEvent, CloseIo
    <3>2. subscribed => inflight_q' = inflight_q
      <4>1. CloseResponse /\ subscribed => inflight_q = <<>>
        BY <1>1, <1>3, NothingDueMeans DEF CloseResponse, SubscriptionStages
      <4>2. QED
        BY <1>13, <2>3, <4>1 DEF MainThread, StopThread, CloseAvframe, CloseInflight,
           CloseResponse, CloseEvent, CloseIo
    <3>3. subscribed => (InStep => InStep')
      BY <1>1, <2>1, <3>2, DueUnchanged
    <3>4. QED
      BY <1>3, <2>1, <3>1, <3>3
  <2>4. QED
    BY <2>2, <2>3
<1>14. CASE FrameArrives \/ ScheduleCallback \/ ExcludeCallback \/ Crash \/ UNCHANGED vars
  <2>1. UNCHANGED <<subscribed, mismatched, pc, item, frame_count, inflight_q, result_q, pending>>
    BY <1>14 DEF FrameArrives, ScheduleCallback, ExcludeCallback, Crash, vars, threadVars,
       inflightVars, inferenceVars, engineVars, pairVars
  <2>2. InStep => InStep'
    BY <1>1, <2>1, DueUnchanged
  <2>3. QED
    BY <1>3, <2>1, <2>2
<1>15. QED
  BY <1>2, <1>4, <1>5, <1>6, <1>7, <1>8, <1>9, <1>10, <1>11, <1>12, <1>13, <1>14
     DEF Next, Ended, InferenceThread, ResponseThread

(***************************************************************************)
(* Frames and answers, which only meet by their order, stay paired: with   *)
(* one engine handler and as long as nothing was evicted and no wait ended *)
(* without an answer, the response thread never uses an answer for another *)
(* frame, for any capacities, however the threads interleave, and through  *)
(* refused requests, failed preprocessing and Stop.                        *)
(***************************************************************************)
THEOREM AnswersStayPaired == Spec => []UndisturbedAnswersMatch
<1>1. Init => Pairing
  <2> SUFFICES ASSUME Init PROVE Pairing
    OBVIOUS
  <2>1. QueuesOK
    BY InitTyped, TypeParts DEF UnitTyped
  <2>2. NothingDue
    BY <2>1, NothingDueMeans DEF Init, Threads
  <2>3. ~mismatched /\ ~subscribed /\ mpc = "run"
    BY DEF Init
  <2>4. QED
    BY <2>2, <2>3 DEF Pairing, PairedInOrder, SubscriptionStages
<1>2. UnitTyped /\ Pairing /\ [Next]_vars => Pairing'
  BY PairedStep, SubscriptionStep DEF Pairing
<1>3. Pairing => UndisturbedAnswersMatch
  BY DEF Pairing, PairedInOrder, UndisturbedAnswersMatch
<1>4. QED
  BY <1>1, <1>2, <1>3, AlwaysTyped, PTL DEF Spec

-----------------------------------------------------------------------------
(***************************************************************************)
(* What Stop has said to each thread when it comes to join it, and that it *)
(* says so only when the producer of that thread has ended.                *)
(***************************************************************************)
ToldInTime ==
    /\ mpc \in {"unsubscribe", "closeAvframe", "closeInflight", "joinInference"} =>
         ~running["inference"]
    /\ mpc \in {"closeInflight", "joinInference"} => avframeClosed
    /\ mpc \in {"joinInference"} \cup InferenceJoined => inflightClosed
    /\ mpc \in {"closeResponse", "joinResponse"} => ~running["response"]
    /\ mpc \in InflightCleared => eventClosed
    /\ mpc \in {"closeEvent", "joinEvent"} => ~running["event"]
    /\ mpc \in {"closeIo", "joinIo"} => ~running["io"]
    /\ mpc = "joinIo" => ioClosed
    /\ mpc = "end" => pc["io"] = "exited"

ToldInOrder ==
    /\ ~running["response"] => pc["inference"] = "exited"
    /\ ~running["event"]    => pc["response"] = "exited"
    /\ ~running["io"]       => pc["event"] = "exited"
    /\ ioClosed             => pc["event"] = "exited"

LEMMA ToldStep ==
  ASSUME ControlOK, FlagsOK, StopStages, ToldInTime, ToldInOrder, [Next]_vars
  PROVE  ToldInTime' /\ ToldInOrder'
<1> USE DEF ControlOK, ToldInTime, ToldInOrder, IoClosed, EventJoined, EventCleared,
        ResponseJoined, InflightCleared, InferenceJoined, Threads, At, Goto
<1>1. CASE InferenceThread
  <2>1. pc["inference"] # "exited"
    BY <1>1 DEF InferenceThread, StartClient, ExitInference, DequeueFrame, ReleaseSchedules,
       CaptureSettings, ResetTrackers, FillSchedules, PreprocessFails, RequestRefused,
       RequestAccepted, PushInflight
  <2>2. UNCHANGED <<mpc, running, avframeClosed, inflightClosed, eventClosed, ioClosed>>
    BY <1>1 DEF InferenceThread, StartClient, ExitInference, DequeueFrame, ReleaseSchedules,
       CaptureSettings, ResetTrackers, FillSchedules, PreprocessFails, RequestRefused,
       RequestAccepted, PushInflight, updateRest, requestRest, avframeVars, inflightVars,
       eventVars, ioVars
  <2>3. \A t \in Threads \ {"inference"} : pc'[t] = pc[t]
    BY <1>1 DEF InferenceThread, StartClient, ExitInference, DequeueFrame, SkipMismatch,
       AcceptSize, ReleaseSchedules, CaptureSettings, ResetTrackers, FillSchedules,
       PreprocessFails, RequestRefused, RequestAccepted, PushInflight
  <2>4. QED
    BY <2>1, <2>2, <2>3
<1>2. CASE ResponseThread
  <2>1. pc["response"] # "exited"
    BY <1>2 DEF ResponseThread, ExitResponse, DequeueInflight, NoResult, TakeResult, TrackObjects,
       PushEvent
  <2>2. /\ UNCHANGED <<mpc, running, avframeClosed, inflightClosed, eventClosed, ioClosed>>
        /\ \A t \in Threads \ {"response"} : pc'[t] = pc[t]
    BY <1>2 DEF ResponseThread, ExitResponse, DequeueInflight, NoResult, TakeResult, TrackObjects,
       PushEvent, responseRest, avframeVars, inflightVars, ioVars
  <2>3. QED
    BY <2>1, <2>2
<1>3. CASE EventThread
  <2>1. pc["event"] # "exited"
    BY <1>3 DEF EventThread, ExitEvent, DequeueEvent, TestSchedules, CheckSchedules, SaveAndSend
  <2>2. /\ UNCHANGED <<mpc, running, avframeClosed, inflightClosed, eventClosed, ioClosed>>
        /\ \A t \in Threads \ {"event"} : pc'[t] = pc[t]
    BY <1>3 DEF EventThread, ExitEvent, DequeueEvent, TestSchedules, CheckSchedules, SaveAndSend,
       eventRest, avframeVars, inflightVars
  <2>3. QED
    BY <2>1, <2>2
<1>4. CASE IoThread
  <2>1. pc["io"] # "exited"
    BY <1>4 DEF IoThread, ExitIo, WriteImage
  <2>2. /\ UNCHANGED <<mpc, running, avframeClosed, inflightClosed, eventClosed, ioClosed>>
        /\ \A t \in Threads \ {"io"} : pc'[t] = pc[t]
    BY <1>4 DEF IoThread, ExitIo, WriteImage, ioRest, avframeVars, inflightVars, eventVars
  <2>3. QED
    BY <2>1, <2>2
<1>5. CASE StopThread
  BY <1>5 DEF StopThread, ClearFlag, Join, stopRest, ioVars, StopStages, FlagsOK
<1>6. CASE Unsubscribe \/ CloseAvframe \/ CloseInflight
  BY <1>6 DEF Unsubscribe, CloseAvframe, CloseInflight, stopRest, ioVars
<1>7. CASE CloseResponse \/ CloseEvent \/ CloseIo
  BY <1>7 DEF CloseResponse, CloseEvent, CloseIo, stopRest, ioVars, StopStages
<1>8. CASE FrameArrives \/ ScheduleCallback \/ ExcludeCallback \/ Answer \/ Crash
  <2>1. /\ mpc' \in {mpc, "crashed"}
        /\ UNCHANGED <<pc, running, avframeClosed, inflightClosed, eventClosed, ioClosed>>
    BY <1>8 DEF FrameArrives, ScheduleCallback, ExcludeCallback, Answer, Crash, threadVars,
       avframeVars, inflightVars, eventVars, ioVars
  <2>2. QED
    BY <2>1
<1>9. CASE UNCHANGED vars
  BY <1>9 DEF vars, threadVars, avframeVars, inflightVars, eventVars, ioVars
<1>10. QED
  BY <1>1, <1>2, <1>3, <1>4, <1>5, <1>6, <1>7, <1>8, <1>9 DEF Next, Ended, MainThread

(***************************************************************************)
(* The safety half of StopEnds: a thread that Stop joins has been told to  *)
(* end and its queue is closed, so nothing can hold it in a dequeue; no    *)
(* running flag is cleared before the producer of that thread has ended    *)
(* (the queues of frames in flight and of events are closed one stage      *)
(* earlier, that of the images is not); and when Stop has ended all four   *)
(* threads have.                                                           *)
(***************************************************************************)
OrderlyStop ==
    /\ mpc = "joinInference" => ~running["inference"] /\ avframeClosed
    /\ mpc = "joinResponse"  => ~running["response"] /\ inflightClosed
    /\ mpc = "joinEvent"     => ~running["event"] /\ eventClosed
    /\ mpc = "joinIo"        => ~running["io"] /\ ioClosed
    /\ ~running["response"]  => pc["inference"] = "exited"
    /\ ~running["event"]     => pc["response"] = "exited"
    /\ ~running["io"] \/ ioClosed => pc["event"] = "exited"
    /\ mpc = "end" => \A t \in Threads : pc[t] = "exited"

(***************************************************************************)
(* Wherever the threads are when RtspDetectorUnit::Stop is called, it      *)
(* stops them along the pipeline and joins none that was not told.         *)
(***************************************************************************)
THEOREM StopIsOrderly == Spec => []OrderlyStop
<1>1. Init => StopStages /\ ToldInTime /\ ToldInOrder
  BY DEF Init, StopStages, ToldInTime, ToldInOrder, IoClosed, EventJoined, EventCleared,
     ResponseJoined, InflightCleared, InferenceJoined, Threads
<1>2. UnitTyped /\ StopStages /\ ToldInTime /\ ToldInOrder /\ [Next]_vars =>
        StopStages' /\ ToldInTime' /\ ToldInOrder'
  BY StopStagesStep, ToldStep, TypeParts DEF UnitTyped
<1>3. StopStages /\ ToldInTime /\ ToldInOrder => OrderlyStop
  BY DEF StopStages, ToldInTime, ToldInOrder, OrderlyStop, IoClosed, EventJoined, EventCleared,
     ResponseJoined, InflightCleared, InferenceJoined, Threads
<1>4. QED
  BY <1>1, <1>2, <1>3, AlwaysTyped, PTL DEF Spec
=============================================================================
