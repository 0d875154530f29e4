-------------------------- MODULE MCRemoteExecution --------------------------
(* One execution on one worker. *)
EXTENDS RemoteExecution, TLC
=============================================================================
