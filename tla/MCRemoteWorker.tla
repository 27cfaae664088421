--------------------------- MODULE MCRemoteWorker ---------------------------
(* Instances of RemoteWorker for TLC: two paths, so that an answer can be   *)
(* for the wrong one.                                                      *)
EXTENDS RemoteWorker

CONSTANTS a, b
=============================================================================
