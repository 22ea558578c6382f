-------------------------- MODULE RtspClientProofs --------------------------
(***************************************************************************)
(* Proofs about RtspClient, for any backoff times and any number of        *)
(* requests, restarts and frames.                                          *)
(***************************************************************************)
EXTENDS RtspClient, TLAPS

(***************************************************************************)
(* Nothing of a receiver exists: no pipeline, no main loop, no callback.   *)
(***************************************************************************)
NoReceiver == ~receiver /\ ~pipeline /\ lpc = "none"

(***************************************************************************)
(* A receiver that was taken out of receiver_ is in the hands of the one   *)
(* thread that stops it, the worker or the owner; otherwise there is none. *)
(* There is none when the worker starts a new one.                         *)
(***************************************************************************)
ReceiverHasOwner ==
    /\ wpc \in {"joinLoop", "release", "restart"} => ~receiver
    /\ mpc = "joinLoop" => ~receiver
    /\ (~receiver /\ wpc # "joinLoop" /\ mpc # "joinLoop") => NoReceiver

(***************************************************************************)
(* While Start is starting the first receiver, another loop may already    *)
(* run a callback of it and set the worker going; the worker gets no       *)
(* further than receiver_mtx_, which Start holds, and when Start failed it *)
(* finds shutdown_ set before it could start a receiver of its own.        *)
(***************************************************************************)
OwnerStages ==
    /\ mpc = "start" => wpc = "down" /\ cpc = "idle" /\ ~reconnect_pending /\ NoReceiver
    /\ mpc = "startReceiver" => /\ NoReceiver
                                /\ wpc \notin {"down", "joinLoop", "release", "restart", "flow"}
    /\ mpc = "undo" => /\ NoReceiver /\ shutdown
                       /\ wpc \notin {"down", "joinLoop", "restart", "flow"}
    /\ mpc \in {"stopReceiver", "joinLoop", "end"} => wpc = "exited"
    /\ mpc = "end" => NoReceiver

(***************************************************************************)
(* The receiver's own loop does not end under the callback it runs.  While *)
(* another loop runs one, the receiver is there or is being started or     *)
(* stopped: whoever destroys it makes the callback an orphan.              *)
(***************************************************************************)
CallbackHasReceiver ==
    /\ cpc = "own" => lpc = "looping"
    /\ cpc = "other" => \/ receiver \/ StartingReceiver
                        \/ mpc = "joinLoop" \/ wpc = "joinLoop"

(***************************************************************************)
(* The inductive invariant is the type invariant with this.                *)
(***************************************************************************)
Structure == Alive => ReceiverHasOwner /\ OwnerStages /\ CallbackHasReceiver

ClientInvariant == TypeOK /\ Structure

-----------------------------------------------------------------------------
(***************************************************************************)
(* The doubled backoff stays within its bounds.                            *)
(***************************************************************************)
LEMMA GreaterBackoffBounds ==
  ASSUME backoff_sec \in Initial..Max
  PROVE  GreaterBackoff \in Initial..Max
  BY BackoffAssumption DEF GreaterBackoff

(***************************************************************************)
(* The two halves of the type invariant: control and flags.                *)
(***************************************************************************)
PlacesOK == /\ mpc \in {"start", "startReceiver", "undo", "up", "joinWorker", "stopReceiver",
                        "joinLoop", "end", "crashed"}
            /\ wpc \in {"down", "top", "wait", "watch", "take", "exchange", "offset", "reset",
                        "backoff", "stop", "joinLoop", "release", "restart", "flow", "exited"}
            /\ lpc \in {"none", "spawned", "made", "looping", "exited"}
            /\ cpc \in {"idle", "own", "other", "orphan"}
            /\ backoff_sec \in Initial..Max

FlagsOK == /\ running \in BOOLEAN /\ shutdown \in BOOLEAN
           /\ reconnect_pending \in BOOLEAN /\ eos_reconnect_pending \in BOOLEAN
           /\ is_eos \in BOOLEAN /\ receiver \in BOOLEAN /\ pipeline \in BOOLEAN
           /\ got \in BOOLEAN /\ stale \in BOOLEAN /\ quit \in BOOLEAN /\ owed \in BOOLEAN

LEMMA TypeParts == TypeOK <=> PlacesOK /\ FlagsOK
  BY Zenon DEF TypeOK, PlacesOK, FlagsOK

LEMMA TypePartsNext == TypeOK' <=> PlacesOK' /\ FlagsOK'
  BY Zenon DEF TypeOK, PlacesOK, FlagsOK

(***************************************************************************)
(* The initial state is well typed.                                        *)
(***************************************************************************)
LEMMA InitType == Init => PlacesOK /\ FlagsOK
<1>1. Init => PlacesOK
  BY BackoffAssumption DEF Init, PlacesOK
<1>2. Init => FlagsOK
  BY Zenon DEF Init, FlagsOK
<1>3. QED
  BY <1>1, <1>2

(***************************************************************************)
(* Every step of the owner, of the worker and of the others keeps control  *)
(* in its places and the backoff in its bounds.                            *)
(***************************************************************************)
LEMMA OwnerPlaces == PlacesOK /\ Owner => PlacesOK'
  BY DEF PlacesOK, Owner, Start, StartOK, StartFails, UndoStart, Stop, JoinWorker,
     OwnerStopsReceiver, OwnerJoinsLoop, StartReceiver, StartReceiverFails, QuitLoop, JoinLoop, DropReceiver,
     flagVars, workerVars, receiverVars

LEMMA WorkerPlaces == PlacesOK /\ Worker => PlacesOK'
  BY GreaterBackoffBounds, BackoffAssumption DEF PlacesOK, Worker, WorkerTop, WorkerWakes,
     Watchdog, TakeRequest, ExchangeEos, OffsetSleep, ResetSource, ResetSourceFails,
     BackoffSleep, WorkerStopsReceiver, WorkerJoinsLoop, ReleaseSleep, Restart, RestartFails,
     FramesFlow, NoFrames, StartReceiver, StartReceiverFails, QuitLoop, JoinLoop, DropReceiver, ownerVars,
     flagVars, receiverVars

LEMMA OtherPlaces ==
  ASSUME PlacesOK, MainLoop \/ Frame \/ Aging \/ Callbacks
  PROVE  PlacesOK'
  BY DEF PlacesOK, MainLoop, Frame, Aging, Callbacks, OwnLoopBusMessage, OtherLoopBusMessage,
     RequestReconnect, UseAfterFree, ownerVars, flagVars, workerVars, receiverVars

(***************************************************************************)
(* The same for the flags, action by action.                               *)
(***************************************************************************)
LEMMA OwnerFlags == FlagsOK /\ Owner => FlagsOK'
<1> SUFFICES ASSUME FlagsOK, Owner PROVE FlagsOK'
  OBVIOUS
<1> USE DEF FlagsOK, ownerVars, flagVars, workerVars, receiverVars
<1>1. CASE Start
  BY Zenon, <1>1 DEF Start
<1>2. CASE StartOK
  BY Zenon, <1>2 DEF StartOK, StartReceiver
<1>3. CASE StartFails
  BY Zenon, <1>3 DEF StartFails, StartReceiverFails
<1>4. CASE UndoStart
  BY Zenon, <1>4 DEF UndoStart
<1>5. CASE Stop
  BY Zenon, <1>5 DEF Stop
<1>6. CASE JoinWorker
  BY Zenon, <1>6 DEF JoinWorker
<1>7. CASE OwnerStopsReceiver
  BY Zenon, <1>7 DEF OwnerStopsReceiver, QuitLoop
<1>8. CASE OwnerJoinsLoop
  BY Zenon, <1>8 DEF OwnerJoinsLoop, JoinLoop
<1>9. QED
  BY <1>1, <1>2, <1>3, <1>4, <1>5, <1>6, <1>7, <1>8 DEF Owner

LEMMA WorkerFlags == FlagsOK /\ Worker => FlagsOK'
<1> SUFFICES ASSUME FlagsOK, Worker PROVE FlagsOK'
  OBVIOUS
<1> USE DEF FlagsOK, ownerVars, flagVars, workerVars, receiverVars
<1>1. CASE WorkerTop
  BY Zenon, <1>1 DEF WorkerTop
<1>2. CASE WorkerWakes
  BY Zenon, <1>2 DEF WorkerWakes
<1>3. CASE Watchdog
  BY Zenon, <1>3 DEF Watchdog
<1>4. CASE TakeRequest
  BY Zenon, <1>4 DEF TakeRequest
<1>5. CASE ExchangeEos
  BY Zenon, <1>5 DEF ExchangeEos
<1>6. CASE OffsetSleep
  BY Zenon, <1>6 DEF OffsetSleep
<1>7. CASE ResetSource
  BY Zenon, <1>7 DEF ResetSource
<1>8. CASE ResetSourceFails
  BY Zenon, <1>8 DEF ResetSourceFails
<1>9. CASE BackoffSleep
  BY Zenon, <1>9 DEF BackoffSleep
<1>10. CASE WorkerStopsReceiver
  BY Zenon, <1>10 DEF WorkerStopsReceiver, QuitLoop
<1>11. CASE WorkerJoinsLoop
  BY Zenon, <1>11 DEF WorkerJoinsLoop, JoinLoop
<1>12. CASE ReleaseSleep
  BY Zenon, <1>12 DEF ReleaseSleep
<1>13. CASE Restart
  BY Zenon, <1>13 DEF Restart, StartReceiver
<1>14. CASE RestartFails
  BY Zenon, <1>14 DEF RestartFails, StartReceiverFails
<1>15. CASE FramesFlow
  BY Zenon, <1>15 DEF FramesFlow
<1>16. CASE NoFrames
  BY Zenon, <1>16 DEF NoFrames
<1>17. QED
  BY <1>1, <1>2, <1>3, <1>4, <1>5, <1>6, <1>7, <1>8, <1>9, <1>10, <1>11, <1>12, <1>13, <1>14, <1>15, <1>16 DEF Worker

LEMMA OtherFlags == FlagsOK /\ (MainLoop \/ Frame \/ Aging \/ Callbacks) => FlagsOK'
<1> SUFFICES ASSUME FlagsOK, (MainLoop \/ Frame \/ Aging \/ Callbacks) PROVE FlagsOK'
  OBVIOUS
<1> USE DEF FlagsOK, ownerVars, flagVars, workerVars, receiverVars
<1>1. CASE MainLoop
  BY Zenon, <1>1 DEF MainLoop
<1>2. CASE Frame
  BY Zenon, <1>2 DEF Frame
<1>3. CASE Aging
  BY Zenon, <1>3 DEF Aging
<1>4. CASE OwnLoopBusMessage
  BY Zenon, <1>4 DEF OwnLoopBusMessage
<1>5. CASE OtherLoopBusMessage
  BY Zenon, <1>5 DEF OtherLoopBusMessage
<1>6. CASE RequestReconnect
  BY Zenon, <1>6 DEF RequestReconnect
<1>7. CASE UseAfterFree
  BY Zenon, <1>7 DEF UseAfterFree
<1>8. QED
  BY <1>1, <1>2, <1>3, <1>4, <1>5, <1>6, <1>7 DEF Callbacks

(***************************************************************************)
(* The owner starts a receiver only while the worker idles and takes it    *)
(* out only when the worker has been joined.                               *)
(***************************************************************************)
LEMMA OwnerStructure == PlacesOK /\ Structure /\ Owner => Structure'
<1> SUFFICES ASSUME PlacesOK, Structure, Owner PROVE Structure'
  OBVIOUS
<1> USE DEF PlacesOK, Structure, Alive, ReceiverHasOwner, OwnerStages, CallbackHasReceiver,
            NoReceiver, StartingReceiver, ownerVars, flagVars, workerVars, receiverVars
<1>1. CASE Start
  BY <1>1 DEF Start
<1>2. CASE StartOK
  BY <1>2 DEF StartOK, StartReceiver
<1>3. CASE StartFails
  BY <1>3 DEF StartFails, StartReceiverFails, DropReceiver
<1>4. CASE UndoStart
  BY <1>4 DEF UndoStart
<1>5. CASE Stop
  BY <1>5 DEF Stop
<1>6. CASE JoinWorker
  BY <1>6 DEF JoinWorker
<1>7. CASE OwnerStopsReceiver
  BY <1>7 DEF OwnerStopsReceiver, QuitLoop
<1>8. CASE OwnerJoinsLoop
  BY <1>8 DEF OwnerJoinsLoop, JoinLoop, DropReceiver
<1>9. QED
  BY <1>1, <1>2, <1>3, <1>4, <1>5, <1>6, <1>7, <1>8 DEF Owner

(***************************************************************************)
(* The worker stops the receiver it finds before it starts another one.    *)
(***************************************************************************)
LEMMA WorkerStructure == PlacesOK /\ Structure /\ Alive /\ Worker => Structure'
<1> SUFFICES ASSUME PlacesOK, Structure, Alive, Worker PROVE Structure'
  OBVIOUS
<1> USE DEF PlacesOK, Structure, Alive, ReceiverHasOwner, OwnerStages, CallbackHasReceiver,
            NoReceiver, StartingReceiver, ownerVars, flagVars, workerVars, receiverVars
<1>1. CASE WorkerTop
  BY <1>1 DEF WorkerTop
<1>2. CASE WorkerWakes
  BY <1>2 DEF WorkerWakes
<1>3. CASE Watchdog
  BY <1>3 DEF Watchdog
<1>4. CASE TakeRequest
  BY <1>4 DEF TakeRequest
<1>5. CASE ExchangeEos
  BY <1>5 DEF ExchangeEos
<1>6. CASE OffsetSleep
  BY <1>6 DEF OffsetSleep
<1>7. CASE ResetSource
  BY <1>7 DEF ResetSource
<1>8. CASE ResetSourceFails
  BY <1>8 DEF ResetSourceFails
<1>9. CASE BackoffSleep
  BY <1>9 DEF BackoffSleep
<1>10. CASE WorkerStopsReceiver
  BY <1>10 DEF WorkerStopsReceiver, QuitLoop
<1>11. CASE WorkerJoinsLoop
  BY <1>11 DEF WorkerJoinsLoop, JoinLoop, DropReceiver
<1>12. CASE ReleaseSleep
  BY <1>12 DEF ReleaseSleep
<1>13. CASE Restart
  BY <1>13 DEF Restart, StartReceiver
<1>14. CASE RestartFails
  BY <1>14 DEF RestartFails, StartReceiverFails, DropReceiver
<1>15. CASE FramesFlow
  BY <1>15 DEF FramesFlow
<1>16. CASE NoFrames
  BY <1>16 DEF NoFrames
<1>17. QED
  BY <1>1, <1>2, <1>3, <1>4, <1>5, <1>6, <1>7, <1>8, <1>9, <1>10, <1>11, <1>12, <1>13, <1>14, <1>15, <1>16 DEF Worker

(***************************************************************************)
(* Main loop, frames and bus callbacks make and stop no receiver.          *)
(***************************************************************************)
LEMMA OtherStructure ==
  PlacesOK /\ Structure /\ Alive /\ (MainLoop \/ Frame \/ Aging \/ Callbacks) => Structure'
<1> SUFFICES ASSUME PlacesOK, Structure, Alive, (MainLoop \/ Frame \/ Aging \/ Callbacks) PROVE Structure'
  OBVIOUS
<1> USE DEF PlacesOK, Structure, Alive, ReceiverHasOwner, OwnerStages, CallbackHasReceiver,
            NoReceiver, StartingReceiver, ownerVars, flagVars, workerVars, receiverVars
<1>1. CASE MainLoop
  BY <1>1 DEF MainLoop
<1>2. CASE Frame
  BY <1>2 DEF Frame
<1>3. CASE Aging
  BY <1>3 DEF Aging
<1>4. CASE OwnLoopBusMessage
  BY <1>4 DEF OwnLoopBusMessage
<1>5. CASE OtherLoopBusMessage
  BY <1>5 DEF OtherLoopBusMessage
<1>6. CASE RequestReconnect
  BY <1>6 DEF RequestReconnect
<1>7. CASE UseAfterFree
  BY <1>7 DEF UseAfterFree
<1>8. QED
  BY <1>1, <1>2, <1>3, <1>4, <1>5, <1>6, <1>7 DEF Callbacks

(***************************************************************************)
(* Initially there is no receiver and no worker.                           *)
(***************************************************************************)
LEMMA InitStructure == Init => Structure
  BY DEF Init, Structure, ReceiverHasOwner, OwnerStages, CallbackHasReceiver, NoReceiver

-----------------------------------------------------------------------------
(***************************************************************************)
(* The invariant holds initially and every step preserves it.              *)
(***************************************************************************)
LEMMA InvariantHolds == Spec => []ClientInvariant
<1>1. Init => ClientInvariant
  BY InitType, InitStructure, TypeParts DEF ClientInvariant
<1>2. ClientInvariant /\ [Next]_vars => ClientInvariant'
  <2> SUFFICES ASSUME ClientInvariant, [Next]_vars PROVE ClientInvariant'
    OBVIOUS
  <2>1. PlacesOK /\ FlagsOK /\ Structure
    BY TypeParts DEF ClientInvariant
  <2>2. CASE Owner
    BY <2>1, <2>2, OwnerPlaces, OwnerFlags, OwnerStructure, TypePartsNext
       DEF ClientInvariant
  <2>3. CASE Alive /\ Worker
    BY <2>1, <2>3, WorkerPlaces, WorkerFlags, WorkerStructure, TypePartsNext
       DEF ClientInvariant
  <2>4. CASE Alive /\ (MainLoop \/ Frame \/ Aging \/ Callbacks)
    BY <2>1, <2>4, OtherPlaces, OtherFlags, OtherStructure, TypePartsNext
       DEF ClientInvariant
  <2>5. CASE UNCHANGED vars
    <3> USE <2>5 DEF vars, ownerVars, flagVars, workerVars, receiverVars
    <3>1. PlacesOK'
      BY <2>1 DEF PlacesOK
    <3>2. FlagsOK'
      BY <2>1, Zenon DEF FlagsOK
    <3>3. Structure'
      BY <2>1 DEF Structure, Alive, ReceiverHasOwner, OwnerStages, CallbackHasReceiver,
         NoReceiver, StartingReceiver
    <3>4. QED
      BY <3>1, <3>2, <3>3, TypePartsNext DEF ClientInvariant
  <2>6. QED
    BY <2>2, <2>3, <2>4, <2>5 DEF Next, Ended
<1>3. QED
  BY <1>1, <1>2, PTL DEF Spec

(***************************************************************************)
(* Type correctness of the client, for any backoff times.                  *)
(***************************************************************************)
THEOREM TypeCorrect == Spec => []TypeOK
<1>1. ClientInvariant => TypeOK
  BY DEF ClientInvariant
<1>2. QED
  BY <1>1, InvariantHolds, PTL

(***************************************************************************)
(* When GstRtspClient::Stop has returned, or Start has failed, the worker  *)
(* has ended, no receiver, pipeline or main loop is left, not even one the *)
(* worker was restarting when Stop was called, and the only bus callback   *)
(* that may still run is one that another loop of the shared default       *)
(* GMainContext had begun and Stop does not wait for.                      *)
(***************************************************************************)
THEOREM AlwaysQuietAfterStop == Spec => []QuietAfterStop
<1>1. ClientInvariant => QuietAfterStop
  BY TypeParts DEF ClientInvariant, PlacesOK, Structure, Alive, OwnerStages,
     CallbackHasReceiver, StartingReceiver, NoReceiver, QuietAfterStop
<1>2. QED
  BY <1>1, InvariantHolds, PTL

-----------------------------------------------------------------------------
(***************************************************************************)
(* A request that no attempt has followed yet is still in the flag, or the *)
(* worker has taken it and is on the way to the attempt, or the client is  *)
(* being stopped: whenever it comes, no step of the worker drops it.       *)
(***************************************************************************)
OnTheWay == {"exchange", "offset", "reset", "backoff", "stop", "joinLoop", "release", "restart"}

RequestNotForgotten == owed => reconnect_pending \/ wpc \in OnTheWay \/ shutdown

(***************************************************************************)
(* The safety half of RequestServed: RequestReconnect at any moment of the *)
(* worker's cycle, with its notification sent without the mutex, is never  *)
(* forgotten.                                                              *)
(***************************************************************************)
THEOREM NeverForgetsARequest == Spec => []RequestNotForgotten
<1> USE DEF RequestNotForgotten, OnTheWay
<1>1. Init => RequestNotForgotten
  BY DEF Init
<1>2. ClientInvariant /\ RequestNotForgotten /\ [Next]_vars => RequestNotForgotten'
  <2> SUFFICES ASSUME ClientInvariant, RequestNotForgotten, [Next]_vars
               PROVE  RequestNotForgotten'
    OBVIOUS
  <2> USE DEF ownerVars, flagVars, workerVars
  <2>1. CASE Owner
    BY <2>1 DEF Owner, Start, StartOK, StartFails, UndoStart, Stop, JoinWorker,
       OwnerStopsReceiver, OwnerJoinsLoop, ClientInvariant, Structure, Alive, OwnerStages
  <2>2. CASE WorkerTop \/ WorkerWakes \/ Watchdog \/ TakeRequest \/ ExchangeEos
    BY <2>2 DEF WorkerTop, WorkerWakes, Watchdog, TakeRequest, ExchangeEos
  <2>3. CASE OffsetSleep \/ ResetSource \/ ResetSourceFails
    BY <2>3 DEF OffsetSleep, ResetSource, ResetSourceFails
  <2>4. CASE BackoffSleep \/ WorkerStopsReceiver \/ WorkerJoinsLoop \/ ReleaseSleep
    BY <2>4 DEF BackoffSleep, WorkerStopsReceiver, WorkerJoinsLoop, ReleaseSleep
  <2>5. CASE Restart \/ RestartFails \/ FramesFlow \/ NoFrames
    BY <2>5 DEF Restart, RestartFails, FramesFlow, NoFrames
  <2>6. CASE MainLoop \/ Frame \/ Aging
    BY <2>6 DEF MainLoop, Frame, Aging
  <2>7. CASE Callbacks
    BY <2>7 DEF Callbacks, OwnLoopBusMessage, OtherLoopBusMessage, RequestReconnect, UseAfterFree
  <2>8. CASE UNCHANGED vars
    BY <2>8 DEF vars
  <2>9. QED
    BY <2>1, <2>2, <2>3, <2>4, <2>5, <2>6, <2>7, <2>8 DEF Next, Ended, Worker
<1>3. QED
  BY <1>1, <1>2, InvariantHolds, PTL DEF Spec

-----------------------------------------------------------------------------
(***************************************************************************)
(* The main loop of a receiver that nobody has taken out was not told to   *)
(* quit.  It runs when the worker takes the receiver out, for that is      *)
(* after the backoff, except in the restart after EOS, which has none; so  *)
(* otherwise the worker joins only a loop that was told to quit.           *)
(***************************************************************************)
LoopStages ==
    /\ receiver => lpc \in {"spawned", "made", "looping"} /\ ~quit
    /\ wpc = "stop" => is_eos \/ LoopStarted
    /\ wpc = "joinLoop" => is_eos \/ (quit /\ lpc \in {"looping", "exited"})

(***************************************************************************)
(* Only the join of Stop, and of the restart after EOS, can wait for a     *)
(* quit that was lost.                                                     *)
(***************************************************************************)
OnlyStopOrEosLosesQuit ==
    QuitLost => \/ mpc = "joinLoop" /\ wpc = "exited"
                \/ wpc = "joinLoop" /\ is_eos

(***************************************************************************)
(* The safety half of ClientStopEnds: StopReceiver has no protection       *)
(* against a g_main_loop_quit that comes before g_main_loop_run.  The      *)
(* worker, which stops and starts receivers all the time, is protected by  *)
(* its backoff; a Stop right after a start or a restart is not, nor is a   *)
(* restart after an EOS that another loop delivered before the receiver's  *)
(* own loop ran and whose in-place reset failed.                           *)
(***************************************************************************)
THEOREM WorkerRarelyLosesQuit == Spec => []OnlyStopOrEosLosesQuit
<1>1. Init => LoopStages
  BY DEF Init, LoopStages
<1>2. ClientInvariant /\ LoopStages /\ [Next]_vars => LoopStages'
  <2> SUFFICES ASSUME ClientInvariant, LoopStages, [Next]_vars PROVE LoopStages'
    OBVIOUS
  <2>1. PlacesOK /\ FlagsOK /\ Structure
    BY TypeParts DEF ClientInvariant
  <2> USE <2>1 DEF LoopStages, PlacesOK, Structure, ReceiverHasOwner, OwnerStages, Alive, LoopStarted,
                   NoReceiver, ownerVars, flagVars, workerVars, receiverVars
  <2>2. CASE Start \/ StartOK \/ StartFails \/ UndoStart \/ Stop \/ JoinWorker
    BY <2>2 DEF Start, StartOK, StartFails, UndoStart, Stop, JoinWorker, StartReceiver,
       StartReceiverFails
  <2>3. CASE OwnerStopsReceiver \/ OwnerJoinsLoop
    BY <2>3 DEF OwnerStopsReceiver, OwnerJoinsLoop, QuitLoop, JoinLoop
  <2>4. CASE WorkerTop \/ WorkerWakes \/ Watchdog \/ TakeRequest \/ ExchangeEos
    BY <2>4 DEF WorkerTop, WorkerWakes, Watchdog, TakeRequest, ExchangeEos
  <2>5. CASE OffsetSleep \/ ResetSource \/ ResetSourceFails
    BY <2>5 DEF OffsetSleep, ResetSource, ResetSourceFails
  <2>6. CASE BackoffSleep
    BY <2>6 DEF BackoffSleep
  <2>7. CASE WorkerStopsReceiver \/ WorkerJoinsLoop \/ ReleaseSleep
    <3>1. CASE receiver /\ WorkerStopsReceiver
      <4>1. is_eos \/ lpc = "looping" BY <3>1 DEF WorkerStopsReceiver
      <4>2. /\ receiver' = FALSE /\ quit' = (lpc = "looping") /\ lpc' = lpc /\ wpc' = "joinLoop"
            /\ UNCHANGED is_eos
        BY <3>1 DEF WorkerStopsReceiver, QuitLoop
      <4>3. lpc = "looping" => quit' BY <4>2, Zenon
      <4> QED BY <4>1, <4>2, <4>3
    <3>2. CASE ~receiver /\ WorkerStopsReceiver
      BY <3>2 DEF WorkerStopsReceiver
    <3>3. CASE WorkerJoinsLoop \/ ReleaseSleep
      BY <3>3 DEF WorkerJoinsLoop, ReleaseSleep, JoinLoop
    <3> QED BY <2>7, <3>1, <3>2, <3>3
  <2>8. CASE Restart \/ RestartFails \/ FramesFlow \/ NoFrames
    BY <2>8 DEF Restart, RestartFails, FramesFlow, NoFrames, StartReceiver, StartReceiverFails
  <2>9. CASE MainLoop \/ Frame \/ Aging \/ Callbacks
    <3>1. CASE MainLoop
      <4>1. /\ UNCHANGED <<receiver, quit, mpc, wpc, is_eos>>
            /\ \/ lpc = "spawned" /\ lpc' = "made"
               \/ lpc = "made" /\ lpc' = "looping"
               \/ lpc = "looping" /\ quit /\ lpc' = "exited"
        BY <3>1, Zenon DEF MainLoop
      <4> QED BY <4>1
    <3>2. CASE Frame \/ Aging \/ Callbacks
      <4>1. UNCHANGED <<receiver, quit, wpc, lpc, is_eos>> /\ (mpc' = mpc \/ mpc' = "crashed")
        BY <3>2 DEF Frame, Aging, Callbacks, OwnLoopBusMessage, OtherLoopBusMessage,
           RequestReconnect, UseAfterFree
      <4> QED BY <4>1
    <3> QED BY <2>9, <3>1, <3>2
  <2>10. CASE UNCHANGED vars
    BY <2>10 DEF vars
  <2>11. QED
    BY <2>2, <2>3, <2>4, <2>5, <2>6, <2>7, <2>8, <2>9, <2>10 DEF Next, Owner, Worker, Ended
<1>3. ClientInvariant /\ LoopStages => OnlyStopOrEosLosesQuit
  BY DEF ClientInvariant, Structure, Alive, OwnerStages, LoopStages, OnlyStopOrEosLosesQuit,
     QuitLost
<1>4. QED
  BY <1>1, <1>2, <1>3, InvariantHolds, PTL DEF Spec
=============================================================================
