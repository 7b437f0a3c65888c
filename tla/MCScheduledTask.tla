-------------------------- MODULE MCScheduledTask --------------------------
(* Instances of ScheduledTask for TLC. *)
EXTENDS ScheduledTask, TLC

CONSTANTS run1, run2, run3, run4, host1, host2

(* Three ticks on one host and one on another. *)
Homes == (run1 :> host1) @@ (run2 :> host1) @@ (run3 :> host1) @@ (run4 :> host2)

Allow(crash, lapse, error) == [crash |-> crash, lapse |-> lapse, error |-> error]
TwoFaults == {Allow(1, 1, 0), Allow(1, 0, 1), Allow(0, 1, 1)}
=============================================================================
