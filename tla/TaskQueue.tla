----------------------------- MODULE TaskQueue -----------------------------
(***************************************************************************)
(* What a queue driver promises (QueueDriver.ts), abstractly: a dispatched *)
(* job waits until a worker takes it; one worker at a time works on it; it *)
(* goes back to waiting when that worker returns it, or when the worker    *)
(* has died; it ends once, done or failed, and nothing ended comes back.   *)
(* A debounced dispatch may replace jobs that still wait.                  *)
(***************************************************************************)
CONSTANTS Job, Worker, None

VARIABLES
  state, \* Job -> where it stands
  work   \* Worker -> the job it works on, or None

vars == <<state, work>>

Init == /\ state = [j \in Job |-> "new"]
        /\ work = [w \in Worker |-> None]

AtWork(j) == {w \in Worker : work[w] = j}
Set(js, where) == [j \in Job |-> IF j \in js THEN where ELSE state[j]]
Leave(ws) == [w \in Worker |-> IF w \in ws THEN None ELSE work[w]]

Submit(j, replaced) ==
  /\ state[j] = "new"
  /\ \A old \in replaced : state[old] = "waiting"
  /\ state' = [Set(replaced, "replaced") EXCEPT ![j] = "waiting"]
  /\ UNCHANGED work

(* A job whose worker died may be taken from it, or wait first. *)
Take(w, j) ==
  /\ work[w] = None /\ state[j] \in {"waiting", "taken"} /\ AtWork(j) = {}
  /\ state' = Set({j}, "taken") /\ work' = [work EXCEPT ![w] = j]

Return(w) ==
  /\ work[w] # None
  /\ state' = Set({work[w]}, "waiting") /\ work' = Leave({w})

Reclaim(j) ==
  /\ state[j] = "taken" /\ AtWork(j) = {}
  /\ state' = Set({j}, "waiting") /\ UNCHANGED work

Finish(w, how) ==
  /\ work[w] # None
  /\ state' = Set({work[w]}, how) /\ work' = Leave({w})

Vanish(ws) == work' = Leave(ws) /\ UNCHANGED state

Next ==
  \/ \E ws \in SUBSET Worker : Vanish(ws)
  \/ \E j \in Job, replaced \in SUBSET Job : Submit(j, replaced)
  \/ \E w \in Worker, j \in Job : Take(w, j)
  \/ \E w \in Worker : Return(w) \/ Finish(w, "done") \/ Finish(w, "failed")
  \/ \E j \in Job : Reclaim(j)

Spec == Init /\ [][Next]_vars
=============================================================================
