----------------------------- MODULE MCWorkerJob -----------------------------
(* Two submits of one request and one that reuses its execution id. *)
EXTENDS WorkerJob, TLC

CONSTANTS j1, j2, j3, r1, r2, e1

MCJob == {j1, j2, j3}
MCRequestOf == (j1 :> r1) @@ (j2 :> r1) @@ (j3 :> r2)
MCExecutionOf == (j1 :> e1) @@ (j2 :> e1) @@ (j3 :> e1)

=============================================================================
