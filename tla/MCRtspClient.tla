---------------------------- MODULE MCRtspClient ----------------------------
(***************************************************************************)
(* The client with a backoff of 1, 2, 4 and 5 seconds: it doubles, is      *)
(* capped and is reset.  Nothing else has to be bounded.                   *)
(***************************************************************************)
EXTENDS RtspClient
=============================================================================
