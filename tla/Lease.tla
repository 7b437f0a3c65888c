------------------------------- MODULE Lease -------------------------------
(***************************************************************************)
(* What a lock driver promises (LockDriver.ts), abstractly: a key has at   *)
(* most one holder; it passes from one to the next only by being free in   *)
(* between; nothing frees it but its holder, its deadline and forceRelease;*)
(* only its holder moves its deadline; and a lock comes to believe that it *)
(* holds the key only when it was granted it.                              *)
(***************************************************************************)
EXTENDS Integers

CONSTANTS Lock, Nobody, Ttl

VARIABLES
  holder,   \* the lock that holds the key, or Nobody
  left,     \* time to its deadline
  granted,  \* locks that were granted the key and have yet to hear of it
  believes, \* locks whose isAcquired is true
  forces    \* uses of forceRelease

vars == <<holder, left, granted, believes, forces>>

Init == /\ holder = Nobody /\ left = 0
        /\ granted = {} /\ believes = {} /\ forces = 0

(* A slow driver may grant a lock whose deadline has passed when it does.    *)
Grant(l) ==
  /\ holder \in {Nobody, l} /\ left' \in 0..Ttl
  /\ holder' = IF left' = 0 THEN Nobody ELSE l
  /\ granted' = granted \cup {l} /\ UNCHANGED <<believes, forces>>

Learn(l) ==
  /\ l \in granted /\ granted' = granted \ {l} /\ believes' = believes \cup {l}
  /\ UNCHANGED <<holder, left, forces>>

Extend(l) ==
  /\ holder = l /\ left' = Ttl
  /\ UNCHANGED <<holder, granted, believes, forces>>

(* A refusal, a loss noticed, a failed call, a crash: none frees the key.    *)
Forget(l) ==
  /\ granted' \in {granted, granted \ {l}}
  /\ believes' \in {believes, believes \ {l}}
  /\ UNCHANGED <<holder, left, forces>>

Release(l) ==
  /\ holder = l /\ holder' = Nobody /\ left' = 0
  /\ believes' \in {believes, believes \ {l}} /\ UNCHANGED <<granted, forces>>

Force == /\ holder' = Nobody /\ left' = 0 /\ forces' = forces + 1
         /\ UNCHANGED <<granted, believes>>

Tick == /\ left > 0 /\ left' = left - 1
        /\ holder' = IF left' = 0 THEN Nobody ELSE holder
        /\ UNCHANGED <<granted, believes, forces>>

Next == \/ \E l \in Lock : Grant(l) \/ Learn(l) \/ Extend(l) \/ Forget(l) \/ Release(l)
        \/ Force \/ Tick

Spec == Init /\ [][Next]_vars
=============================================================================
