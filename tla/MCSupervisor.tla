---------------------------- MODULE MCSupervisor ----------------------------
(* Supervisor for TLC: two console requests at a time and three loops, the   *)
(* least for an old thread, a lost one and a current one.                    *)
EXTENDS Supervisor

=============================================================================
