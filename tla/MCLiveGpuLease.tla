---------------------------- MODULE MCLiveGpuLease ----------------------------
(* Two processes, one of them with two threads, and two campaigns. *)
EXTENDS LiveGpuLease, TLC

CONSTANTS t1, t2, t3, p1, p2

MCThread == {t1, t2, t3}
MCProcess == {p1, p2}
MCHostOf == (t1 :> p1) @@ (t2 :> p2) @@ (t3 :> p2)
=============================================================================
