----------------------------- MODULE MCOnceOnly -----------------------------
(* Instances of OnceOnly for TLC. *)
EXTENDS OnceOnly, TLC

CONSTANTS call1, call2, call3, proc1, proc2, body1, body2

(* Two calls in one process, and one of another body in another. *)
Homes == (call1 :> proc1) @@ (call2 :> proc1) @@ (call3 :> proc2)
Bodies == [c \in Call |-> IF c = call3 THEN body2 ELSE body1]

AllModes == {"remember", "bare", "idempotent"}
(* remember waits as long as its lock lives, handle half as long.            *)
Waits == [m \in Mode |-> IF m = "idempotent" THEN 1 ELSE 2]

Allow(crash, lapse, change, error) ==
  [crash |-> crash, lapse |-> lapse, change |-> change, error |-> error]
OneEvent == {Allow(1, 0, 0, 0), Allow(0, 1, 0, 0), Allow(0, 0, 1, 0), Allow(0, 0, 0, 1)}
=============================================================================
