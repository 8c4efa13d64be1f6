--------------------------- MODULE MCTimeoutQueue ---------------------------
(***************************************************************************)
(* Instances of TimeoutQueue for TLC.                                      *)
(***************************************************************************)
EXTENDS TimeoutQueue
=============================================================================
