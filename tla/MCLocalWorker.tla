--------------------------- MODULE MCLocalWorker ---------------------------
(* Instances of LocalWorker for TLC: two paths, so that an answer can be   *)
(* for the wrong one.                                                      *)
EXTENDS LocalWorker

CONSTANTS a, b
=============================================================================
