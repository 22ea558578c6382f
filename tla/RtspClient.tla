----------------------------- MODULE RtspClient -----------------------------
(***************************************************************************)
(* GstRtspClient and the GstRtspReceiver it owns, for one camera: the      *)
(* thread that starts and stops the client, the reconnect worker, the main *)
(* loop thread of the receiver, and the bus callbacks.  GStreamer and the  *)
(* camera are external: while a pipeline is playing, frames, errors and    *)
(* EOS may or may not come.                                                *)
(*                                                                         *)
(* The main loops of all receivers and of the proxy server run the one     *)
(* default GMainContext.  A context dispatches one source at a time, from  *)
(* whichever of its loops owns it: a bus callback of this receiver may run *)
(* on its own loop or on another one, before its own loop runs and after   *)
(* its own loop was told to quit.                                          *)
(*                                                                         *)
(* Time is abstract.  The worker's cv_.wait_for may end at any moment (it  *)
(* has a time limit of 5 s, so a lost notification only delays it), and    *)
(* stale says that the last frame is older than WATCHDOG_STALE_SEC.        *)
(***************************************************************************)
EXTENDS Naturals

CONSTANTS Initial, \* reconnect_initial_sec
          Max      \* reconnect_max_sec

ASSUME BackoffAssumption == Initial \in Nat \ {0} /\ Max \in Nat /\ Initial <= Max

VARIABLES mpc,                   \* where the thread that owns the client is
          running,               \* running_
          shutdown,              \* shutdown_
          reconnect_pending,
          eos_reconnect_pending,
          backoff_sec,
          wpc,                   \* where the reconnect worker is
          is_eos,                \* its local variable
          receiver,              \* receiver_ is set
          pipeline,              \* the receiver's pipeline is playing
          got,                   \* the receiver has delivered a frame
          stale,
          lpc,                   \* where the main loop thread is
          quit,                  \* the running main loop was told to quit
          cpc,                   \* the bus callback in progress and the loop that runs it
          owed                   \* history: a request no attempt has followed yet

ownerVars    == <<mpc, running>>
flagVars     == <<shutdown, reconnect_pending, eos_reconnect_pending>>
workerVars   == <<backoff_sec, wpc, is_eos>>
receiverVars == <<receiver, pipeline, got, stale, lpc, quit>>
vars == <<ownerVars, flagVars, workerVars, receiverVars, cpc, owed>>

Init == /\ mpc = "start" /\ running = FALSE
        /\ shutdown = FALSE /\ reconnect_pending = FALSE /\ eos_reconnect_pending = FALSE
        /\ backoff_sec = Initial /\ wpc = "down" /\ is_eos = FALSE
        /\ receiver = FALSE /\ pipeline = FALSE /\ got = FALSE /\ stale = FALSE
        /\ lpc = "none" /\ quit = FALSE
        /\ cpc = "idle" /\ owed = FALSE

-----------------------------------------------------------------------------
(***************************************************************************)
(* A callback that another loop is running is not waited for when the      *)
(* watch is removed (g_source_remove) and its receiver destroyed.          *)
(***************************************************************************)
DropReceiver == cpc' = IF cpc = "idle" THEN "idle" ELSE "orphan"

(***************************************************************************)
(* StartReceiver, under receiver_mtx_: a new receiver, its pipeline and    *)
(* its main loop thread, or nothing.                                       *)
(***************************************************************************)
StartReceiver == /\ receiver' = TRUE /\ pipeline' = TRUE
                 /\ got' = FALSE /\ stale' = FALSE
                 /\ lpc' = "spawned" /\ quit' = FALSE
                 /\ UNCHANGED cpc

StartReceiverFails == /\ receiver' = FALSE /\ pipeline' = FALSE
                      /\ got' = FALSE /\ stale' = FALSE
                      /\ DropReceiver
                      /\ UNCHANGED <<lpc, quit>>

StartingReceiver == mpc = "startReceiver" \/ wpc = "restart"

(***************************************************************************)
(* StopReceiver takes the receiver out and stops it.  Only a main loop     *)
(* that is already running can be told to quit: before that loop_ is not   *)
(* set, or g_main_loop_run forgets an earlier g_main_loop_quit.            *)
(***************************************************************************)
QuitLoop == /\ receiver' = FALSE
            /\ quit' = (lpc = "looping")
            /\ UNCHANGED <<pipeline, got, stale, lpc, cpc>>

JoinLoop == /\ lpc = "exited"
            /\ pipeline' = FALSE /\ lpc' = "none"
            /\ DropReceiver
            /\ UNCHANGED <<receiver, got, stale, quit>>

-----------------------------------------------------------------------------
(***************************************************************************)
(* Start: the worker thread is started before the receiver.                *)
(***************************************************************************)
Start == /\ mpc = "start"
         /\ running' = TRUE /\ mpc' = "startReceiver"
         /\ wpc' = "top"
         /\ UNCHANGED <<flagVars, backoff_sec, is_eos, receiverVars, cpc, owed>>

StartOK == /\ mpc = "startReceiver"
           /\ StartReceiver
           /\ mpc' = "up"
           /\ UNCHANGED <<running, flagVars, workerVars, owed>>

StartFails == /\ mpc = "startReceiver"
              /\ StartReceiverFails
              /\ shutdown' = TRUE
              /\ mpc' = "undo"
              /\ UNCHANGED <<running, reconnect_pending, eos_reconnect_pending, workerVars,
                             owed>>

UndoStart == /\ mpc = "undo"
             /\ wpc = "exited"
             /\ running' = FALSE /\ mpc' = "end"
             /\ UNCHANGED <<flagVars, workerVars, receiverVars, cpc, owed>>

(***************************************************************************)
(* Stop: the flags, the join of the worker, then StopReceiver.             *)
(***************************************************************************)
ForgetfulStop == /\ mpc = "up"
                 /\ running' = FALSE
                 /\ mpc' = "joinWorker"
                 /\ UNCHANGED <<flagVars, workerVars, receiverVars, cpc, owed>>

Stop == /\ mpc = "up"
        /\ running' = FALSE /\ shutdown' = TRUE
        /\ mpc' = "joinWorker"
        /\ UNCHANGED <<reconnect_pending, eos_reconnect_pending, workerVars, receiverVars,
                       cpc, owed>>

DetachedJoinWorker == /\ mpc = "joinWorker"
                      /\ mpc' = "stopReceiver"
                      /\ UNCHANGED <<running, flagVars, workerVars, receiverVars, cpc, owed>>

JoinWorker == /\ mpc = "joinWorker"
              /\ wpc = "exited"
              /\ mpc' = "stopReceiver"
              /\ UNCHANGED <<running, flagVars, workerVars, receiverVars, cpc, owed>>

OwnerStopsReceiver ==
    /\ mpc = "stopReceiver"
    /\ \/ receiver /\ QuitLoop /\ mpc' = "joinLoop"
       \/ ~receiver /\ mpc' = "end" /\ UNCHANGED <<receiverVars, cpc>>
    /\ UNCHANGED <<running, flagVars, workerVars, owed>>

OwnerJoinsLoop == /\ mpc = "joinLoop"
                  /\ JoinLoop
                  /\ mpc' = "end"
                  /\ UNCHANGED <<running, flagVars, workerVars, owed>>

Owner == \/ Start \/ StartOK \/ StartFails \/ UndoStart
         \/ Stop \/ JoinWorker \/ OwnerStopsReceiver \/ OwnerJoinsLoop

-----------------------------------------------------------------------------
(***************************************************************************)
(* A sleep of the worker that is not cut short by a shutdown, and the age  *)
(* the watchdog waits for, are seconds: by then a StartReceiver that was   *)
(* under way has returned and a new main loop thread is running.           *)
(***************************************************************************)
LoopStarted == mpc # "startReceiver" /\ lpc \notin {"spawned", "made"}

(***************************************************************************)
(* ReconnectWorker.                                                        *)
(***************************************************************************)
WorkerTop == /\ wpc = "top"
             /\ wpc' = IF shutdown THEN "exited" ELSE "wait"
             /\ UNCHANGED <<ownerVars, flagVars, backoff_sec, is_eos, receiverVars, cpc, owed>>

WorkerWakes == /\ wpc = "wait"
               /\ wpc' = IF shutdown THEN "exited"
                         ELSE IF reconnect_pending THEN "take" ELSE "watch"
               /\ UNCHANGED <<ownerVars, flagVars, backoff_sec, is_eos, receiverVars, cpc, owed>>

(***************************************************************************)
(* The frame-age watchdog knows only receivers that delivered a frame.     *)
(***************************************************************************)
BlindWatchdog ==
    /\ wpc = "watch"
    /\ wpc' = IF reconnect_pending THEN "take" ELSE "top"
    /\ UNCHANGED <<ownerVars, flagVars, backoff_sec, is_eos, receiverVars, cpc, owed>>

Watchdog == /\ wpc = "watch"
            /\ LET fires == receiver /\ got /\ stale IN
               /\ eos_reconnect_pending' = (eos_reconnect_pending \/ fires)
               /\ reconnect_pending' = (reconnect_pending \/ fires)
               /\ wpc' = IF reconnect_pending \/ fires THEN "take" ELSE "top"
            /\ UNCHANGED <<ownerVars, shutdown, backoff_sec, is_eos, receiverVars, cpc, owed>>

TakeRequest == /\ wpc = "take"
               /\ reconnect_pending' = FALSE
               /\ wpc' = "exchange"
               /\ UNCHANGED <<ownerVars, shutdown, eos_reconnect_pending, backoff_sec, is_eos,
                              receiverVars, cpc, owed>>

ExchangeEos == /\ wpc = "exchange"
               /\ is_eos' = eos_reconnect_pending
               /\ eos_reconnect_pending' = FALSE
               /\ wpc' = IF eos_reconnect_pending THEN "offset" ELSE "backoff"
               /\ UNCHANGED <<ownerVars, shutdown, reconnect_pending, backoff_sec, receiverVars,
                              cpc, owed>>

(***************************************************************************)
(* After EOS: a delay, then ResetSourceOnly rebuilds the pipeline of the   *)
(* same receiver, under receiver_mtx_, which a Start may be holding.  When *)
(* it cannot, the full restart follows at once: nothing has been slept     *)
(* then when (cam_id % 4) * 500 ms is zero.                                *)
(***************************************************************************)
OffsetSleep == /\ wpc = "offset"
               /\ wpc' = IF shutdown THEN "exited" ELSE "reset"
               /\ UNCHANGED <<ownerVars, flagVars, backoff_sec, is_eos, receiverVars, cpc, owed>>

ResetSource == /\ wpc = "reset" /\ mpc # "startReceiver"
               /\ receiver /\ pipeline
               /\ backoff_sec' = Initial
               /\ owed' = FALSE
               /\ wpc' = "top"
               /\ UNCHANGED <<ownerVars, flagVars, is_eos, receiverVars, cpc>>

ResetSourceFails == /\ wpc = "reset" /\ mpc # "startReceiver"
                    /\ pipeline' = FALSE
                    /\ wpc' = "backoff"
                    /\ UNCHANGED <<ownerVars, flagVars, backoff_sec, is_eos, receiver, got, stale,
                                   lpc, quit, cpc, owed>>

(***************************************************************************)
(* The full restart.                                                       *)
(***************************************************************************)
BackoffSleep == /\ wpc = "backoff"
                /\ shutdown \/ is_eos \/ LoopStarted
                /\ wpc' = IF shutdown THEN "exited" ELSE "stop"
                /\ UNCHANGED <<ownerVars, flagVars, backoff_sec, is_eos, receiverVars, cpc, owed>>

WorkerStopsReceiver ==
    /\ wpc = "stop" /\ mpc # "startReceiver"
    /\ \/ receiver /\ QuitLoop /\ wpc' = "joinLoop"
       \/ ~receiver /\ wpc' = "release" /\ UNCHANGED <<receiverVars, cpc>>
    /\ UNCHANGED <<ownerVars, flagVars, backoff_sec, is_eos, owed>>

WorkerJoinsLoop == /\ wpc = "joinLoop"
                   /\ JoinLoop
                   /\ wpc' = "release"
                   /\ UNCHANGED <<ownerVars, flagVars, backoff_sec, is_eos, owed>>

ReleaseSleep == /\ wpc = "release"
                /\ wpc' = IF shutdown THEN "exited" ELSE "restart"
                /\ UNCHANGED <<ownerVars, flagVars, backoff_sec, is_eos, receiverVars, cpc, owed>>

GreaterBackoff == IF 2 * backoff_sec < Max THEN 2 * backoff_sec ELSE Max

Restart == /\ wpc = "restart"
           /\ StartReceiver
           /\ owed' = FALSE
           /\ wpc' = "flow"
           /\ UNCHANGED <<ownerVars, flagVars, backoff_sec, is_eos>>

RestartFails == /\ wpc = "restart"
                /\ StartReceiverFails
                /\ backoff_sec' = GreaterBackoff
                /\ reconnect_pending' = TRUE
                /\ owed' = FALSE
                /\ wpc' = "top"
                /\ UNCHANGED <<ownerVars, shutdown, eos_reconnect_pending, is_eos>>

(***************************************************************************)
(* Frames are watched for up to 6 s: only they make the restart a success. *)
(***************************************************************************)
ClearingFramesFlow ==
    /\ wpc = "flow" /\ got
    /\ backoff_sec' = Initial
    /\ reconnect_pending' = FALSE
    /\ wpc' = "top"
    /\ UNCHANGED <<ownerVars, shutdown, eos_reconnect_pending, is_eos, receiverVars, cpc, owed>>

FramesFlow == /\ wpc = "flow" /\ got
              /\ backoff_sec' = Initial
              /\ wpc' = "top"
              /\ UNCHANGED <<ownerVars, flagVars, is_eos, receiverVars, cpc, owed>>

NoFrames == /\ wpc = "flow" /\ ~got
            /\ shutdown \/ LoopStarted
            /\ backoff_sec' = GreaterBackoff
            /\ reconnect_pending' = TRUE
            /\ wpc' = "top"
            /\ UNCHANGED <<ownerVars, shutdown, eos_reconnect_pending, is_eos, receiverVars, cpc,
                           owed>>

Worker == \/ WorkerTop \/ WorkerWakes \/ Watchdog \/ TakeRequest \/ ExchangeEos
          \/ OffsetSleep \/ ResetSource \/ ResetSourceFails
          \/ BackoffSleep \/ WorkerStopsReceiver \/ WorkerJoinsLoop \/ ReleaseSleep
          \/ Restart \/ RestartFails \/ FramesFlow \/ NoFrames

-----------------------------------------------------------------------------
(***************************************************************************)
(* MainLoopThreadFunc: loop_ is made, runs, and ends when told to, after   *)
(* the callback it is running.                                             *)
(***************************************************************************)
MainLoop == /\ \/ lpc = "spawned" /\ lpc' = "made"
               \/ lpc = "made" /\ lpc' = "looping"
               \/ lpc = "looping" /\ quit /\ cpc # "own" /\ lpc' = "exited"
            /\ UNCHANGED <<ownerVars, flagVars, workerVars, receiver, pipeline, got, stale, quit,
                           cpc, owed>>

(***************************************************************************)
(* OnNewSample, and the age of the last frame.                             *)
(***************************************************************************)
Frame == /\ pipeline
         /\ got' = TRUE /\ stale' = FALSE
         /\ UNCHANGED <<ownerVars, flagVars, workerVars, receiver, pipeline, lpc, quit, cpc, owed>>

Aging == /\ got /\ ~stale /\ LoopStarted
         /\ stale' = TRUE
         /\ UNCHANGED <<ownerVars, flagVars, workerVars, receiver, pipeline, got, lpc, quit, cpc,
                        owed>>

(***************************************************************************)
(* OnBusMessage calls on_error, on_timeout or on_eos; on_eos stores its    *)
(* flag before it calls RequestReconnect.  The watch is there from         *)
(* BuildPipeline to TeardownPipeline, also while StartReceiver is still    *)
(* setting the pipeline to PLAYING.  A loop that was told to quit finishes *)
(* the callback and takes no other; the other loops take it instead.       *)
(***************************************************************************)
OwnLoopBusMessage ==
    /\ pipeline /\ cpc = "idle"
    /\ lpc = "looping" /\ ~quit
    /\ cpc' = "own"
    /\ eos_reconnect_pending' \in {eos_reconnect_pending, TRUE}
    /\ UNCHANGED <<ownerVars, shutdown, reconnect_pending, workerVars, receiverVars, owed>>

OtherLoopBusMessage ==
    /\ pipeline \/ StartingReceiver
    /\ cpc = "idle"
    /\ cpc' = "other"
    /\ eos_reconnect_pending' \in {eos_reconnect_pending, TRUE}
    /\ UNCHANGED <<ownerVars, shutdown, reconnect_pending, workerVars, receiverVars, owed>>

RequestReconnect == /\ cpc # "idle"
                    /\ cpc' = "idle"
                    /\ reconnect_pending' = (reconnect_pending \/ ~shutdown)
                    /\ owed' = (owed \/ ~shutdown)
                    /\ UNCHANGED <<ownerVars, shutdown, eos_reconnect_pending, workerVars,
                                   receiverVars>>

(***************************************************************************)
(* A callback whose receiver was destroyed under it uses freed memory: it  *)
(* goes through all the same, or it ends the process.                      *)
(***************************************************************************)
UseAfterFree == /\ cpc = "orphan"
                /\ mpc' = "crashed"
                /\ UNCHANGED <<running, flagVars, workerVars, receiverVars, cpc, owed>>

Alive == mpc # "crashed"

Callbacks == OwnLoopBusMessage \/ OtherLoopBusMessage \/ RequestReconnect \/ UseAfterFree

Ended == mpc \in {"end", "crashed"} /\ UNCHANGED vars

Next == \/ Owner
        \/ Alive /\ Worker
        \/ Alive /\ MainLoop
        \/ Alive /\ (Frame \/ Aging)
        \/ Alive /\ Callbacks
        \/ Ended

Spec == Init /\ [][Next]_vars

(***************************************************************************)
(* Every thread of a live process is scheduled and every sleep ends; the   *)
(* network owes nothing, nobody has to call Stop, and no other loop has to *)
(* exist.                                                                  *)
(***************************************************************************)
Fairness == /\ WF_vars(Owner /\ ~Stop)
            /\ WF_vars(Alive /\ Worker)
            /\ WF_vars(Alive /\ MainLoop)
            /\ WF_vars(Alive /\ RequestReconnect)

FairSpec == Spec /\ Fairness

-----------------------------------------------------------------------------
TypeOK == /\ mpc \in {"start", "startReceiver", "undo", "up", "joinWorker", "stopReceiver",
                      "joinLoop", "end", "crashed"}
          /\ wpc \in {"down", "top", "wait", "watch", "take", "exchange", "offset", "reset",
                      "backoff", "stop", "joinLoop", "release", "restart", "flow", "exited"}
          /\ lpc \in {"none", "spawned", "made", "looping", "exited"}
          /\ cpc \in {"idle", "own", "other", "orphan"}
          /\ backoff_sec \in Initial..Max
          /\ running \in BOOLEAN /\ shutdown \in BOOLEAN
          /\ reconnect_pending \in BOOLEAN /\ eos_reconnect_pending \in BOOLEAN
          /\ is_eos \in BOOLEAN /\ receiver \in BOOLEAN /\ pipeline \in BOOLEAN
          /\ got \in BOOLEAN /\ stale \in BOOLEAN /\ quit \in BOOLEAN /\ owed \in BOOLEAN

(***************************************************************************)
(* When Stop has returned, or Start has failed, the worker has ended and   *)
(* nothing of a receiver is left, not even of one that the worker was      *)
(* restarting, nor is its main loop.  One thing can be: a bus callback     *)
(* that another loop of the shared context had begun, which Stop does not  *)
(* wait for.                                                               *)
(***************************************************************************)
QuietAfterStop == mpc = "end" => /\ wpc = "exited" /\ lpc = "none"
                                 /\ ~receiver /\ ~pipeline
                                 /\ cpc \in {"idle", "orphan"}

(***************************************************************************)
(* A join waits for a main loop that was never told to quit: Stop came     *)
(* before g_main_loop_run.                                                 *)
(***************************************************************************)
QuitLost == /\ mpc = "joinLoop" \/ wpc = "joinLoop"
            /\ lpc # "exited" /\ ~quit

(***************************************************************************)
(* A stream that stops silently, without an error or EOS on the bus, is    *)
(* reset by the frame-age watchdog.                                        *)
(***************************************************************************)
StaleStreamReset ==
    (mpc = "up" /\ receiver /\ stale)
        ~> (wpc = "reset" \/ ~stale \/ ~receiver \/ shutdown \/ ~Alive)

(***************************************************************************)
(* Every request is followed by an attempt to reconnect, or by Stop; only  *)
(* a worker that lost the quit of a loop, when it restarts after EOS       *)
(* without any sleep, never gets there.                                    *)
(***************************************************************************)
RequestServed == owed ~> (~owed \/ shutdown \/ QuitLost \/ ~Alive)

(***************************************************************************)
(* Stop ends: the worker leaves every sleep, wait and restart it may be    *)
(* in, and each join has something to join; only a quit that came before   *)
(* the main loop ran keeps it for ever.                                    *)
(***************************************************************************)
ClientStopEnds == mpc = "joinWorker" ~> (mpc = "end" \/ QuitLost \/ ~Alive)
=============================================================================
