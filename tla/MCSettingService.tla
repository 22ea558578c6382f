-------------------------- MODULE MCSettingService --------------------------
(***************************************************************************)
(* Two cameras, so that an event names one or both and the second unit is  *)
(* initialised while the first already has its callbacks.                  *)
(***************************************************************************)
EXTENDS SettingService
=============================================================================
