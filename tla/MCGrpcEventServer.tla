-------------------------- MODULE MCGrpcEventServer --------------------------
(* Two calls: events, requests that may share a uuid, requests without one. *)
EXTENDS GrpcEventServer
==============================================================================
