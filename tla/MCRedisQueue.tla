---------------------------- MODULE MCRedisQueue ----------------------------
(* Instances of RedisQueue for TLC. *)
EXTENDS RedisQueue, TLC

CONSTANTS jobA, jobB, jobC, key1, work1, work2

Plain(wait, max, delay) == [key |-> NoKey, wait |-> wait, max |-> max, delay |-> delay]
Debounced(max, delay) == [key |-> key1, wait |-> 1, max |-> max, delay |-> delay]
Allow(crash, torn, lapse) == [crash |-> crash, torn |-> torn, lapse |-> lapse]

(* Two debounced jobs under one key, the first retried after a second, and a  *)
(* plain one retried at once; a behaviour dispatches two of the three.        *)
MixedDef == (jobA :> Debounced(2, 1)) @@ (jobB :> Debounced(1, 0))
              @@ (jobC :> Plain(0, 2, 0))

OneCrash == {Allow(1, 0, 0)}
=============================================================================
