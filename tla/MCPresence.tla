----------------------------- MODULE MCPresence -----------------------------
(* Instances of Presence for TLC. *)
EXTENDS Presence, TLC

CONSTANTS alice, bob, a1, a2, b1, b2

Owners == [k \in Conn |-> IF k \in {a1, a2} THEN alice ELSE bob]
Firsts == (alice :> a1) @@ (bob :> b1)

Both == {TRUE, FALSE}

Allow(drop, leave, disconnect, hasty, refuse) ==
  [drop |-> drop, leave |-> leave, disconnect |-> disconnect, hasty |-> hasty,
   refuse |-> refuse]
Prompt == {Allow(1, 1, 0, 0, 0), Allow(0, 1, 1, 0, 0), Allow(1, 0, 0, 0, 1)}
=============================================================================
