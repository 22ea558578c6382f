--------------------------- MODULE MCDetectorUnit ---------------------------
(***************************************************************************)
(* Instances of DetectorUnit.  The pairing instance has one frame size and *)
(* no setting changes, lets the in-flight and result queues fill up and    *)
(* stops at any moment; the settings instance has two frame sizes, a       *)
(* threshold of two, four frames (a burst of the other size, then the old  *)
(* size, then another burst) and schedule updates during an update.        *)
(***************************************************************************)
EXTENDS DetectorUnit

(***************************************************************************)
(* The instance about settings and sizes ends where Stop begins.           *)
(***************************************************************************)
BeforeStop == mpc = "run"
=============================================================================
