---------------------------- MODULE DetectorUnit ----------------------------
(***************************************************************************)
(* RtspDetectorUnit, one camera: four threads joined by SafeQueues.        *)
(*                                                                         *)
(*   receiver -> avframe_q_ -> inference -> inflight_q_ -> response        *)
(*            -> event_q_ -> event -> io_work_queue_ -> io                 *)
(*                                                                         *)
(* The inference thread sends each frame to the load balancer and the      *)
(* response thread takes the answers from the camera's result queue; the   *)
(* two only meet by their order.  Setting callbacks run in other threads,  *)
(* and the main thread stops the four threads one after the other.         *)
(*                                                                         *)
(* A frame is its resolution, and its correlation id once it has one.  The *)
(* test of a running flag and the dequeue that follows it are one step:    *)
(* clearing the flag in between or right after the dequeue is the same.    *)
(***************************************************************************)
EXTENDS SafeQueueOps

CONSTANTS Resolutions,     \* frame sizes the camera can send (not 0)
          ReinitThreshold, \* REINIT_THRESHOLD_COUNT
          InflightCap,     \* capacity of inflight_q_
          ResultCap,       \* capacity of the camera's result queue
          EventCap,        \* capacity of event_q_
          IoCap,           \* capacity of io_work_queue_
          InOrder,         \* one engine handler: answers come in order
          MaxFrames,       \* bound: frames the receiver delivers
          MaxUpdates       \* bound: calls of the schedule callback

ASSUME ResolutionsAssumption == Resolutions \subseteq Nat \ {0} /\ Resolutions # {}
ASSUME ThresholdAssumption   == ReinitThreshold \in Nat \ {0}
ASSUME CapsAssumption        == {InflightCap, ResultCap, EventCap, IoCap} \subseteq Nat \ {0}
ASSUME InOrderAssumption     == InOrder \in BOOLEAN
ASSUME BoundsAssumption      == MaxFrames \in Nat /\ MaxUpdates \in Nat

Threads == {"inference", "response", "event", "io"}

VARIABLES
  running,                     \* running flag of each SafeThread
  pc,                          \* where each thread is
  mpc,                         \* where the main thread is in Stop
  avframe_q, avframeClosed,    \* avframe_q_ and its b_terminate
  arrived,                     \* frames delivered so far
  frame,                       \* the frame the inference thread works on, 0 = none
  frame_count,                 \* frame_count_
  stable_frame,                \* stable_frame_w_ x stable_frame_h_, 0 = not set
  consecutive_mismatch_count,
  resized,                     \* need_reset_schedule_n_tracker_cuz_resize
  schedule_capture,
  schedule_settings,           \* a version, and whether it has schedules
  is_schedule_updated,
  is_excluded,                 \* ~exclude_setting_.IsEmpty()
  scheduler,                   \* scheduler_: what it was built from
  trackers,                    \* frame size of the tracker in trackers_, 0 = none
  subscribed,                  \* the camera has a result queue
  pending,                     \* accepted requests without an answer yet
  result_q,                    \* the camera's result queue
  inflight_q, inflightClosed, item,
  event_q, eventClosed, event,
  io_q, ioClosed,
  disturbed,                   \* history: a frame or an answer lost its counterpart
  mismatched,                  \* history: an answer was used for another frame
  recent                       \* history: the last frame sizes that were compared

inferenceVars == <<frame, frame_count, stable_frame, consecutive_mismatch_count, resized,
                   schedule_capture, recent>>
settingVars   == <<schedule_settings, is_schedule_updated, is_excluded>>
avframeVars   == <<avframe_q, avframeClosed, arrived>>
engineVars    == <<subscribed, pending, result_q>>
inflightVars  == <<inflight_q, inflightClosed, item>>
eventVars     == <<event_q, eventClosed, event>>
ioVars        == <<io_q, ioClosed>>
pairVars      == <<disturbed, mismatched>>
threadVars    == <<running, pc>>
vars == <<threadVars, mpc, avframeVars, inferenceVars, settingVars, scheduler, trackers,
          engineVars, inflightVars, eventVars, ioVars, pairVars>>

NoFrame == 0
Item == [res : Resolutions, id : Nat]

(***************************************************************************)
(* A thread takes steps until the process goes down (see Crash).           *)
(***************************************************************************)
Alive == mpc # "crashed"
At(t, place) == Alive /\ pc[t] = place
Goto(t, place) == pc' = [pc EXCEPT ![t] = place]

(***************************************************************************)
(* Init and Start: the settings are read, the callbacks subscribed and the *)
(* threads started.                                                        *)
(***************************************************************************)
Init == /\ running = [t \in Threads |-> TRUE]
        /\ pc = [t \in Threads |-> IF t = "inference" THEN "start" ELSE "loop"]
        /\ mpc = "run"
        /\ avframe_q = <<>> /\ avframeClosed = FALSE /\ arrived = 0
        /\ frame = NoFrame /\ frame_count = 0
        /\ stable_frame = 0 /\ consecutive_mismatch_count = 0 /\ resized = FALSE
        /\ schedule_settings \in [ver : {0}, some : BOOLEAN]
        /\ is_schedule_updated = schedule_settings.some
        /\ schedule_capture = schedule_settings
        /\ is_excluded = FALSE
        /\ scheduler = <<>> /\ trackers = 0
        /\ subscribed = FALSE /\ pending = <<>> /\ result_q = <<>>
        /\ inflight_q = <<>> /\ inflightClosed = FALSE /\ item = <<>>
        /\ event_q = <<>> /\ eventClosed = FALSE /\ event = <<>>
        /\ io_q = <<>> /\ ioClosed = FALSE
        /\ disturbed = FALSE /\ mismatched = FALSE
        /\ recent = <<>>

-----------------------------------------------------------------------------
(***************************************************************************)
(* The receiver's frame_cb offers a frame only to an empty queue.          *)
(***************************************************************************)
FrameArrives == /\ Alive /\ arrived < MaxFrames
                /\ ~At("inference", "start")
                /\ avframe_q = <<>>
                /\ \E r \in Resolutions : avframe_q' = <<r>>
                /\ arrived' = arrived + 1
                /\ UNCHANGED <<threadVars, mpc, avframeClosed, inferenceVars, settingVars,
                               scheduler, trackers, engineVars, inflightVars, eventVars,
                               ioVars, pairVars>>

(***************************************************************************)
(* The setting callbacks of Init, each under its mutex.                    *)
(***************************************************************************)
ScheduleCallback ==
    /\ Alive /\ schedule_settings.ver < MaxUpdates
    /\ \E some \in BOOLEAN :
         schedule_settings' = [ver |-> schedule_settings.ver + 1, some |-> some]
    /\ is_schedule_updated' = TRUE
    /\ UNCHANGED <<threadVars, mpc, avframeVars, inferenceVars, is_excluded, scheduler,
                   trackers, engineVars, inflightVars, eventVars, ioVars, pairVars>>

ExcludeCallback ==
    /\ Alive /\ MaxUpdates > 0
    /\ is_excluded' = ~is_excluded
    /\ UNCHANGED <<threadVars, mpc, avframeVars, inferenceVars, schedule_settings,
                   is_schedule_updated, scheduler, trackers, engineVars, inflightVars,
                   eventVars, ioVars, pairVars>>

(***************************************************************************)
(* The load balancer and the engines (see InferenceService): an accepted   *)
(* request gets one answer, in the order of the requests when there is one *)
(* handler.  Answers of a camera without a result queue are discarded.     *)
(***************************************************************************)
Without(s, i) == SubSeq(s, 1, i - 1) \o SubSeq(s, i + 1, Len(s))

Answer == \E i \in 1..Len(pending) :
    /\ Alive
    /\ InOrder => i = 1
    /\ pending' = Without(pending, i)
    /\ IF subscribed
       THEN /\ result_q' = Enqueue(result_q, ResultCap, pending[i])
            /\ disturbed' = (disturbed \/ IsFull(result_q, ResultCap))
       ELSE UNCHANGED <<result_q, disturbed>>
    /\ UNCHANGED <<threadVars, mpc, avframeVars, inferenceVars, settingVars, scheduler,
                   trackers, subscribed, inflightVars, eventVars, ioVars, mismatched>>

-----------------------------------------------------------------------------
(***************************************************************************)
(* InferenceThreadRunner.  Subscribe and the RTSP client; without camera   *)
(* settings, or when the client does not start, the thread ends.           *)
(***************************************************************************)
StartClient == /\ At("inference", "start")
               /\ subscribed' = TRUE
               /\ \E place \in {"loop", "exited"} : Goto("inference", place)
               /\ UNCHANGED <<running, mpc, avframeVars, inferenceVars, settingVars, scheduler,
                              trackers, pending, result_q, inflightVars, eventVars, ioVars,
                              pairVars>>

ExitInference == /\ At("inference", "loop") /\ ~running["inference"]
                 /\ Goto("inference", "exited")
                 /\ UNCHANGED <<running, mpc, avframeVars, inferenceVars, settingVars,
                                scheduler, trackers, engineVars, inflightVars, eventVars,
                                ioVars, pairVars>>

(***************************************************************************)
(* The test of the frame size: frames of another size are skipped until    *)
(* ReinitThreshold of them came in a row.                                  *)
(***************************************************************************)
Remember(r) == LET s == Append(recent, r)
               IN  IF Len(s) > ReinitThreshold THEN Tail(s) ELSE s

SkipMismatch(r) == /\ stable_frame \notin {0, r}
                   /\ consecutive_mismatch_count + 1 < ReinitThreshold
                   /\ consecutive_mismatch_count' = consecutive_mismatch_count + 1
                   /\ Goto("inference", "loop")
                   /\ UNCHANGED <<frame, stable_frame, resized>>

UncountedAcceptSize(r) ==
    /\ \/ stable_frame \in {0, r}
       \/ consecutive_mismatch_count + 1 >= ReinitThreshold
    /\ stable_frame' = r
    /\ resized' = (stable_frame \notin {0, r})
    /\ frame' = r
    /\ consecutive_mismatch_count' = IF resized' THEN 0 ELSE consecutive_mismatch_count
    /\ Goto("inference", IF is_schedule_updated \/ resized' THEN "release" ELSE "request")

FlagOnlyAcceptSize(r) ==
    /\ \/ stable_frame \in {0, r}
       \/ consecutive_mismatch_count + 1 >= ReinitThreshold
    /\ stable_frame' = r
    /\ resized' = (stable_frame \notin {0, r})
    /\ frame' = r
    /\ consecutive_mismatch_count' = 0
    /\ Goto("inference", IF is_schedule_updated THEN "release" ELSE "request")

AcceptSize(r) ==
    /\ \/ stable_frame \in {0, r}
       \/ consecutive_mismatch_count + 1 >= ReinitThreshold
    /\ stable_frame' = r
    /\ resized' = (stable_frame \notin {0, r})
    /\ frame' = r
    /\ consecutive_mismatch_count' = 0
    /\ Goto("inference", IF is_schedule_updated \/ resized' THEN "release" ELSE "request")

(***************************************************************************)
(* A frame is dequeued.  It is dropped when the engine is not loaded, when *)
(* the camera is excluded, or by the test of its size.                     *)
(***************************************************************************)
DequeueFrame ==
    /\ At("inference", "loop") /\ running["inference"]
    /\ ~avframeClosed /\ avframe_q # <<>>
    /\ avframe_q' = Tail(avframe_q)
    /\ \/ UNCHANGED <<pc, inferenceVars>>
       \/ /\ ~is_excluded
          /\ SkipMismatch(Head(avframe_q)) \/ AcceptSize(Head(avframe_q))
          /\ recent' = Remember(Head(avframe_q))
          /\ UNCHANGED <<frame_count, schedule_capture>>
    /\ UNCHANGED <<running, mpc, avframeClosed, arrived, settingVars, scheduler, trackers,
                   engineVars, inflightVars, eventVars, ioVars, pairVars>>

(***************************************************************************)
(* The schedule update: ReleaseSchedules, the capture of the settings with *)
(* the flag cleared under the mutex, ResetTrackers after a change of size, *)
(* and the new schedules.  Only the capture is under a lock.               *)
(***************************************************************************)
updateRest == <<running, mpc, avframeVars, frame, frame_count, stable_frame,
                consecutive_mismatch_count, recent, schedule_settings, is_excluded,
                engineVars, inflightVars, eventVars, ioVars, pairVars>>

ReleaseSchedules == /\ At("inference", "release")
                    /\ scheduler' = <<>>
                    /\ Goto("inference", "capture")
                    /\ UNCHANGED <<updateRest, resized, schedule_capture, is_schedule_updated,
                                   trackers>>

CaptureSettings == /\ At("inference", "capture")
                   /\ schedule_capture' = schedule_settings
                   /\ is_schedule_updated' = FALSE
                   /\ Goto("inference", IF resized THEN "reset" ELSE "fill")
                   /\ UNCHANGED <<updateRest, resized, scheduler, trackers>>

ResetTrackers == /\ At("inference", "reset")
                 /\ trackers' = 0
                 /\ resized' = FALSE
                 /\ Goto("inference", "fill")
                 /\ UNCHANGED <<updateRest, schedule_capture, is_schedule_updated, scheduler>>

LateClearFillSchedules ==
    /\ At("inference", "fill")
    /\ scheduler' = IF schedule_capture.some
                    THEN <<[ver |-> schedule_capture.ver, res |-> stable_frame]>> ELSE <<>>
    /\ is_schedule_updated' = FALSE
    /\ Goto("inference", "request")
    /\ UNCHANGED <<updateRest, resized, schedule_capture, trackers>>

FillSchedules ==
    /\ At("inference", "fill")
    /\ scheduler' = IF schedule_capture.some
                    THEN <<[ver |-> schedule_capture.ver, res |-> stable_frame]>> ELSE <<>>
    /\ Goto("inference", "request")
    /\ UNCHANGED <<updateRest, resized, schedule_capture, is_schedule_updated, trackers>>

(***************************************************************************)
(* Preprocessing may fail.  Otherwise the frame takes a correlation id and *)
(* the load balancer accepts or refuses it; an accepted frame goes on to   *)
(* inflight_q_, whose oldest element gives way when it is full.            *)
(***************************************************************************)
requestRest == <<running, mpc, avframeVars, stable_frame, consecutive_mismatch_count,
                 resized, schedule_capture, recent, settingVars, scheduler, trackers,
                 subscribed, result_q, eventVars, ioVars, mismatched>>

PreprocessFails == /\ At("inference", "request")
                   /\ frame' = NoFrame
                   /\ Goto("inference", "loop")
                   /\ UNCHANGED <<requestRest, frame_count, pending, inflightVars, disturbed>>

UncheckedRequestRefused ==
    /\ At("inference", "request")
    /\ frame_count' = frame_count + 1
    /\ Goto("inference", "inflight")
    /\ UNCHANGED <<requestRest, frame, pending, inflightVars, disturbed>>

RequestRefused == /\ At("inference", "request")
                  /\ frame' = NoFrame
                  /\ frame_count' = frame_count + 1
                  /\ Goto("inference", "loop")
                  /\ UNCHANGED <<requestRest, pending, inflightVars, disturbed>>

RequestAccepted == /\ At("inference", "request")
                   /\ frame_count' = frame_count + 1
                   /\ pending' = Append(pending, frame_count + 1)
                   /\ Goto("inference", "inflight")
                   /\ UNCHANGED <<requestRest, frame, inflightVars, disturbed>>

PushInflight ==
    /\ At("inference", "inflight")
    /\ inflight_q' = Enqueue(inflight_q, InflightCap, [res |-> frame, id |-> frame_count])
    /\ disturbed' = (disturbed \/ IsFull(inflight_q, InflightCap))
    /\ frame' = NoFrame
    /\ Goto("inference", "loop")
    /\ UNCHANGED <<requestRest, frame_count, pending, inflightClosed, item>>

InferenceThread == \/ StartClient \/ ExitInference \/ DequeueFrame
                   \/ ReleaseSchedules \/ CaptureSettings \/ ResetTrackers \/ FillSchedules
                   \/ PreprocessFails \/ RequestRefused \/ RequestAccepted \/ PushInflight

-----------------------------------------------------------------------------
(***************************************************************************)
(* ResponseThreadRunner: an in-flight item, then RespondAsync within what  *)
(* is left of its budget, then the trackers.                               *)
(***************************************************************************)
responseRest == <<running, mpc, avframeVars, inferenceVars, settingVars, scheduler,
                  subscribed, pending, eventClosed, event, ioVars>>

ExitResponse == /\ At("response", "loop")
                /\ ~running["response"] \/ inflightClosed
                /\ Goto("response", "exited")
                /\ UNCHANGED <<responseRest, trackers, result_q, inflightVars, event_q, pairVars>>

DequeueInflight == /\ At("response", "loop") /\ running["response"]
                   /\ ~inflightClosed /\ inflight_q # <<>>
                   /\ item' = <<Head(inflight_q)>>
                   /\ inflight_q' = Tail(inflight_q)
                   /\ Goto("response", "wait")
                   /\ UNCHANGED <<responseRest, trackers, result_q, inflightClosed, event_q,
                                  pairVars>>

(***************************************************************************)
(* The budget is used up, RespondAsync times out, or the camera has been   *)
(* unsubscribed: the frame has no objects, and the answer may come later.  *)
(***************************************************************************)
NoResult == /\ At("response", "wait")
            /\ item' = <<>>
            /\ disturbed' = TRUE
            /\ Goto("response", "loop")
            /\ UNCHANGED <<responseRest, trackers, result_q, inflight_q, inflightClosed,
                           event_q, mismatched>>

(***************************************************************************)
(* The oldest answer is taken, whichever frame it belongs to; a different  *)
(* correlation id is counted and logged.  It may hold no objects.          *)
(***************************************************************************)
TakeResult == /\ At("response", "wait")
              /\ subscribed /\ result_q # <<>>
              /\ result_q' = Tail(result_q)
              /\ mismatched' = (mismatched \/ Head(result_q) # item[1].id)
              /\ \/ Goto("response", "track") /\ UNCHANGED item
                 \/ Goto("response", "loop") /\ item' = <<>>
              /\ UNCHANGED <<responseRest, trackers, inflight_q, inflightClosed, event_q,
                             disturbed>>

(***************************************************************************)
(* The tracker of a class is made on first use with the size of the frame. *)
(* Tracked objects go to event_q_; there may be none.                      *)
(***************************************************************************)
TrackObjects == /\ At("response", "track")
                /\ trackers' = IF trackers = 0 THEN item[1].res ELSE trackers
                /\ \/ Goto("response", "emit") /\ UNCHANGED item
                   \/ Goto("response", "loop") /\ item' = <<>>
                /\ UNCHANGED <<responseRest, result_q, inflight_q, inflightClosed, event_q,
                               pairVars>>

PushEvent == /\ At("response", "emit")
             /\ event_q' = Enqueue(event_q, EventCap, item[1])
             /\ item' = <<>>
             /\ Goto("response", "loop")
             /\ UNCHANGED <<responseRest, trackers, result_q, inflight_q, inflightClosed,
                            pairVars>>

ResponseThread == \/ ExitResponse \/ DequeueInflight \/ NoResult \/ TakeResult
                  \/ TrackObjects \/ PushEvent

-----------------------------------------------------------------------------
(***************************************************************************)
(* EventThreadRunner: nothing happens without schedules or without a path  *)
(* for the image; otherwise every schedule checks the objects, and an      *)
(* event is converted, queued for the disk and sent.                       *)
(***************************************************************************)
eventRest == <<running, mpc, avframeVars, inferenceVars, settingVars, scheduler, trackers,
               engineVars, inflightVars, eventClosed, ioClosed, pairVars>>

ExitEvent == /\ At("event", "loop")
             /\ ~running["event"] \/ eventClosed
             /\ Goto("event", "exited")
             /\ UNCHANGED <<eventRest, event_q, event, io_q>>

DequeueEvent == /\ At("event", "loop") /\ running["event"]
                /\ ~eventClosed /\ event_q # <<>>
                /\ event' = <<Head(event_q)>>
                /\ event_q' = Tail(event_q)
                /\ Goto("event", "test")
                /\ UNCHANGED <<eventRest, io_q>>

TestSchedules == /\ At("event", "test")
                 /\ \/ scheduler # <<>> /\ Goto("event", "check") /\ UNCHANGED event
                    \/ Goto("event", "loop") /\ event' = <<>>
                 /\ UNCHANGED <<eventRest, event_q, io_q>>

CheckSchedules == /\ At("event", "check")
                  /\ \/ Goto("event", "save") /\ UNCHANGED event
                     \/ Goto("event", "loop") /\ event' = <<>>
                  /\ UNCHANGED <<eventRest, event_q, io_q>>

SaveAndSend == /\ At("event", "save")
               /\ \/ io_q' = Enqueue(io_q, IoCap, event[1].id)
                  \/ UNCHANGED io_q
               /\ event' = <<>>
               /\ Goto("event", "loop")
               /\ UNCHANGED <<eventRest, event_q>>

EventThread == ExitEvent \/ DequeueEvent \/ TestSchedules \/ CheckSchedules \/ SaveAndSend

(***************************************************************************)
(* IOWorkerThreadRunner: an image is written, skipped or fails.            *)
(***************************************************************************)
ioRest == <<running, mpc, avframeVars, inferenceVars, settingVars, scheduler, trackers,
            engineVars, inflightVars, eventVars, ioClosed, pairVars>>

ExitIo == /\ At("io", "loop") /\ ~running["io"]
          /\ Goto("io", "exited")
          /\ UNCHANGED <<ioRest, io_q>>

WriteImage == /\ At("io", "loop") /\ running["io"]
              /\ ~ioClosed /\ io_q # <<>>
              /\ io_q' = Tail(io_q)
              /\ UNCHANGED <<ioRest, pc>>

IoThread == ExitIo \/ WriteImage

-----------------------------------------------------------------------------
(***************************************************************************)
(* Stop.  SafeThread::Stop clears the running flag, calls the closer and   *)
(* joins.  Each queue is terminated by the closer of its producer, so that *)
(* its consumer ends; what is left in it is cleared by the closer of the   *)
(* consumer, when the producer has been joined.                            *)
(***************************************************************************)
ForgetfulClearFlag(t, here, next) == mpc = here /\ mpc' = next /\ UNCHANGED running

ClearFlag(t, here, next) == /\ mpc = here
                            /\ running' = [running EXCEPT ![t] = FALSE]
                            /\ mpc' = next

DetachedJoin(t, here, next) == mpc = here /\ mpc' = next /\ UNCHANGED running

Join(t, here, next) == /\ mpc = here
                       /\ At(t, "exited")
                       /\ mpc' = next
                       /\ UNCHANGED running

stopRest == <<pc, inferenceVars, settingVars, scheduler, trackers, arrived, pending,
              result_q, item, event, pairVars>>

StopThread ==
    /\ \/ ClearFlag("inference", "run", "unsubscribe")
       \/ Join("inference", "joinInference", "stopResponse")
       \/ ClearFlag("response", "stopResponse", "closeResponse")
       \/ Join("response", "joinResponse", "stopEvent")
       \/ ClearFlag("event", "stopEvent", "closeEvent")
       \/ Join("event", "joinEvent", "stopIo")
       \/ ClearFlag("io", "stopIo", "closeIo")
       \/ Join("io", "joinIo", "end")
    /\ UNCHANGED <<stopRest, avframe_q, avframeClosed, subscribed, inflight_q,
                   inflightClosed, event_q, eventClosed, ioVars>>

Unsubscribe == /\ mpc = "unsubscribe"
               /\ subscribed' = FALSE
               /\ mpc' = "closeAvframe"
               /\ UNCHANGED <<stopRest, running, avframe_q, avframeClosed, inflight_q,
                              inflightClosed, event_q, eventClosed, ioVars>>

CloseAvframe == /\ mpc = "closeAvframe"
                /\ avframeClosed' = TRUE /\ avframe_q' = <<>>
                /\ mpc' = "closeInflight"
                /\ UNCHANGED <<stopRest, running, subscribed, inflight_q, inflightClosed,
                               event_q, eventClosed, ioVars>>

CloseInflight == /\ mpc = "closeInflight"
                 /\ inflightClosed' = TRUE
                 /\ mpc' = "joinInference"
                 /\ UNCHANGED <<stopRest, running, avframe_q, avframeClosed, subscribed,
                                inflight_q, event_q, eventClosed, ioVars>>

(***************************************************************************)
(* ResponseThreadCloser, EventThreadCloser and IOWorkerThreadCloser.       *)
(***************************************************************************)
CloseResponse == /\ mpc = "closeResponse"
                 /\ inflight_q' = <<>>
                 /\ eventClosed' = TRUE
                 /\ mpc' = "joinResponse"
                 /\ UNCHANGED <<stopRest, running, avframe_q, avframeClosed, subscribed,
                                inflightClosed, event_q, ioVars>>

CloseEvent == /\ mpc = "closeEvent"
              /\ event_q' = <<>>
              /\ mpc' = "joinEvent"
              /\ UNCHANGED <<stopRest, running, avframe_q, avframeClosed, subscribed,
                             inflight_q, inflightClosed, eventClosed, ioVars>>

CloseIo == /\ mpc = "closeIo"
           /\ ioClosed' = TRUE /\ io_q' = <<>>
           /\ mpc' = "joinIo"
           /\ UNCHANGED <<stopRest, running, avframe_q, avframeClosed, subscribed, inflight_q,
                          inflightClosed, event_q, eventClosed>>

MainThread == \/ StopThread \/ Unsubscribe \/ CloseAvframe \/ CloseInflight
              \/ CloseResponse \/ CloseEvent \/ CloseIo

-----------------------------------------------------------------------------
(***************************************************************************)
(* Accesses to a container of the unit by two threads at once, one of them *)
(* a write and no lock held: scheduler_, trackers_ and subscribe_ids_.     *)
(* The outcome is undefined; the process may go down.                      *)
(***************************************************************************)
SchedulerRace == /\ At("inference", "release") \/ At("inference", "fill")
                 /\ At("event", "test") \/ At("event", "check")

TrackersRace == At("inference", "reset") /\ At("response", "track")

SubscribeRace == At("inference", "start") /\ mpc = "unsubscribe"

Crash == /\ SchedulerRace \/ TrackersRace \/ SubscribeRace
         /\ mpc' = "crashed"
         /\ UNCHANGED <<threadVars, avframeVars, inferenceVars, settingVars, scheduler,
                        trackers, engineVars, inflightVars, eventVars, ioVars, pairVars>>

Ended == mpc \in {"crashed", "end"} /\ UNCHANGED vars

Next == \/ FrameArrives \/ ScheduleCallback \/ ExcludeCallback \/ Answer
        \/ InferenceThread \/ ResponseThread \/ EventThread \/ IoThread
        \/ MainThread
        \/ Crash
        \/ Ended

Spec == Init /\ [][Next]_vars

(***************************************************************************)
(* Every thread is scheduled, and Stop goes on once it is called.  Nothing *)
(* is assumed of the camera, the engines and the settings.                 *)
(***************************************************************************)
Fairness == /\ WF_vars(InferenceThread)
            /\ WF_vars(ResponseThread)
            /\ WF_vars(EventThread)
            /\ WF_vars(IoThread)
            /\ WF_vars(mpc # "run" /\ MainThread)

FairSpec == Spec /\ Fairness

-----------------------------------------------------------------------------
Places == {"start", "loop", "release", "capture", "reset", "fill", "request", "inflight",
           "wait", "track", "emit", "test", "check", "save", "exited"}

MainPlaces == {"run", "unsubscribe", "closeAvframe", "closeInflight", "joinInference",
               "stopResponse", "closeResponse", "joinResponse", "stopEvent", "closeEvent",
               "joinEvent", "stopIo", "closeIo", "joinIo", "end", "crashed"}

Settings == [ver : Nat, some : BOOLEAN]

TypeOK == /\ running \in [Threads -> BOOLEAN]
          /\ pc \in [Threads -> Places]
          /\ mpc \in MainPlaces
          /\ avframe_q \in Seq(Resolutions) /\ avframeClosed \in BOOLEAN
          /\ arrived \in Nat
          /\ frame \in Resolutions \cup {NoFrame}
          /\ frame_count \in Nat
          /\ stable_frame \in Resolutions \cup {0}
          /\ consecutive_mismatch_count \in 0..(ReinitThreshold - 1)
          /\ resized \in BOOLEAN
          /\ schedule_capture \in Settings /\ schedule_settings \in Settings
          /\ is_schedule_updated \in BOOLEAN /\ is_excluded \in BOOLEAN
          /\ scheduler \in Seq([ver : Nat, res : Resolutions])
          /\ trackers \in Resolutions \cup {0}
          /\ subscribed \in BOOLEAN
          /\ pending \in Seq(Nat) /\ result_q \in Seq(Nat)
          /\ inflight_q \in Seq(Item) /\ inflightClosed \in BOOLEAN /\ item \in Seq(Item)
          /\ event_q \in Seq(Item) /\ eventClosed \in BOOLEAN /\ event \in Seq(Item)
          /\ io_q \in Seq(Nat) /\ ioClosed \in BOOLEAN
          /\ disturbed \in BOOLEAN /\ mismatched \in BOOLEAN
          /\ recent \in Seq(Resolutions)

Updating == pc["inference"] \in {"release", "capture", "reset", "fill"}

(***************************************************************************)
(* A schedule callback that comes at any moment of an update is not lost:  *)
(* when the inference thread is not updating, either the flag still asks   *)
(* for an update or scheduler_ was built from the current settings.        *)
(***************************************************************************)
NoLostScheduleUpdate ==
    (~Updating /\ ~is_schedule_updated) =>
      IF schedule_settings.some
      THEN scheduler # <<>> /\ scheduler[1].ver = schedule_settings.ver
      ELSE scheduler = <<>>

(***************************************************************************)
(* The zones and lines of the schedules are scaled to the frame size that  *)
(* is in use: a change of the size rebuilds them before the first frame of *)
(* the new size is sent to the engine.                                     *)
(***************************************************************************)
SchedulesFitFrame == (~Updating /\ scheduler # <<>>) => scheduler[1].res = stable_frame

(***************************************************************************)
(* A short burst of frames of another size is noise: the size in use       *)
(* changes only after ReinitThreshold compared frames in a row differed    *)
(* from it.                                                                *)
(***************************************************************************)
ResizeAfterRunOnly ==
    [][(stable_frame' # stable_frame /\ stable_frame # 0) =>
         /\ Len(recent') = ReinitThreshold
         /\ \A i \in 1..ReinitThreshold : recent'[i] # stable_frame]_vars

(***************************************************************************)
(* A refused request leaves nothing behind: as long as the answers come in *)
(* order, no frame was evicted from inflight_q_, no answer from the result *)
(* queue and no wait ended without an answer, every answer is used for the *)
(* frame it was computed from.                                             *)
(***************************************************************************)
UndisturbedAnswersMatch == (InOrder /\ ~disturbed) => ~mismatched

(***************************************************************************)
(* Stop, "DO NOT REORDER": each stage is closed when its producer is gone, *)
(* so no frame in flight, event or image is left in the queues between the *)
(* stopped threads.  avframe_q is not one of them: its producer, the RTSP  *)
(* client, goes on after Stop.                                             *)
(***************************************************************************)
NothingLeftBehind == mpc = "end" => inflight_q = <<>> /\ event_q = <<>> /\ io_q = <<>>

(***************************************************************************)
(* Stop ends, whatever each thread was doing and however late the engines  *)
(* answer (unless a data race took the process down).                      *)
(***************************************************************************)
StopEnds == mpc # "run" ~> mpc \in {"end", "crashed"}
=============================================================================
