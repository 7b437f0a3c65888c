---------------------------- MODULE ScheduledTask ----------------------------
(***************************************************************************)
(* One scheduled task declared withoutOverlapping, fired by the cron of    *)
(* several hosts: ScheduledTask's handler, its overlap lock and the beat   *)
(* that keeps the lock while the task runs.  The flag, the lock's handle   *)
(* and the interval are fields of the task, so every run of one host shares*)
(* them.  The lock is what Lease promises; a call of its driver is carried *)
(* out some time after it was made and answered later still, the calls of  *)
(* one host in the order they were made.                                   *)
(***************************************************************************)
EXTENDS Integers, FiniteSets

CONSTANTS
  Run,     \* ticks of the cron that match the schedule
  Host,
  Home,    \* Run -> the host whose cron fires it
  Ttl,     \* ticks of the clock the overlap lock lives
  Faults,  \* what may go wrong: each member bounds a behaviour's crashes, its
           \* lapsed locks and the errors of the lock's driver
  Nobody, None

FaultCount == [crash: Nat, lapse: Nat, error: Nat]

ASSUME TaskAssumption ==
  /\ Home \in [Run -> Host]
  /\ Ttl \in Nat \ {0}
  /\ Faults \subseteq FaultCount
  /\ Nobody \notin Run /\ None \notin Run

VARIABLES
  refresh,  \* the option: does a running task keep its lock alive?
  run,      \* Run -> where its handler is
  running,  \* Host -> _running
  handle,   \* Host -> the run whose lock _lockHandle is, or None
  beat,     \* Host -> the run whose interval _lockHeartbeat is, or None
  timers,   \* runs whose interval has not been cleared
  refreshing, \* Run -> its refresh(): none, sent, or carried out with an answer
  releasing,  \* Run -> the lock whose release() it awaits, or None
  spent,    \* how many of each fault there were
  holder, left, granted, believes, forces  \* the lock: see Lease

Key == INSTANCE Lease WITH Lock <- Run
lockVars == <<holder, left, granted, believes, forces>>
taskVars == <<running, handle, beat, timers>>
callVars == <<refreshing, releasing>>
vars == <<refresh, run, taskVars, callVars, spent, lockVars>>

(* Types; and an interval only lives while its run does. *)
TypeOK ==
  /\ refresh \in BOOLEAN
  /\ run \in [Run -> {"idle", "guarding", "asking", "granted", "running", "releasing",
                      "released", "over", "dead"}]
  /\ running \in [Host -> BOOLEAN]
  /\ handle \in [Host -> Run \cup {None}] /\ beat \in [Host -> Run \cup {None}]
  /\ timers \subseteq {r \in Run : run[r] = "running" /\ refresh}
  /\ refreshing \in [Run -> {"none", "sent", "kept", "lost"}]
  /\ releasing \in [Run -> Run \cup {None}]
  /\ spent \in FaultCount
  /\ holder \in Run \cup {Nobody} /\ left \in 0..Ttl /\ forces = 0
  /\ granted = {r \in Run : run[r] = "granted"}
  /\ believes \subseteq {r \in Run : run[r] = "running"}

Init ==
  /\ refresh \in BOOLEAN
  /\ run = [r \in Run |-> "idle"]
  /\ running = [h \in Host |-> FALSE]
  /\ handle = [h \in Host |-> None] /\ beat = [h \in Host |-> None]
  /\ timers = {}
  /\ refreshing = [r \in Run |-> "none"] /\ releasing = [r \in Run |-> None]
  /\ spent = [crash |-> 0, lapse |-> 0, error |-> 0]
  /\ Key!Init

Spend(what) ==
  /\ spent' = [spent EXCEPT ![what] = @ + 1]
  /\ \E f \in Faults : \A k \in DOMAIN f : spent'[k] <= f[k]
Goes(r, to) == run' = [run EXCEPT ![r] = to]
-----------------------------------------------------------------------------
(* The handler: its guards are asked, and may take their time. *)
Fire(r) ==
  /\ run[r] = "idle" /\ Goes(r, "guarding")
  /\ UNCHANGED <<refresh, taskVars, callVars, spent, lockVars>>

(* They decline, or the task is still running here, or the lock is asked for. *)
Guard_ignoresFlag(r) ==
  /\ run[r] = "guarding"
  /\ Goes(r, "over") \/ Goes(r, "asking")
  /\ UNCHANGED <<refresh, taskVars, callVars, spent, lockVars>>
Guard(r) ==
  /\ run[r] = "guarding"
  /\ Goes(r, "over") \/ (~running[Home[r]] /\ Goes(r, "asking"))
  /\ UNCHANGED <<refresh, taskVars, callVars, spent, lockVars>>

Grant(r) ==
  /\ run[r] = "asking" /\ Key!Grant(r) /\ left' = Ttl
  /\ Goes(r, "granted")
  /\ UNCHANGED <<refresh, taskVars, callVars, spent>>

Refuse(r) ==
  /\ run[r] = "asking" /\ holder # Nobody
  /\ Goes(r, "over")
  /\ UNCHANGED <<refresh, taskVars, callVars, spent, lockVars>>

(* The acquire throws, though it may have been carried out. *)
AcquireFails(r) ==
  /\ run[r] \in {"asking", "granted"} /\ Spend("error")
  /\ Goes(r, "over")
  /\ Key!Forget(r) /\ granted' = granted \ {r} /\ UNCHANGED believes
  /\ UNCHANGED <<refresh, taskVars, callVars>>

(* The calls a run has made while it ran are still unanswered. *)
Awaits(r) == run[r] \in {"releasing", "released"} \/ refreshing[r] # "none"

(* _acquireLock's answer, the interval, and the task begins.  Nobody asked for*)
(* the lock while an older run's flag was up, so that the calls of that run   *)
(* were made before, and are answered.                                        *)
Start(r) ==
  LET h == Home[r]
  IN /\ run[r] = "granted" /\ Key!Learn(r)
     /\ \A q \in Run : Home[q] = h => ~Awaits(q)
     /\ Goes(r, "running")
     /\ running' = [running EXCEPT ![h] = TRUE]
     /\ handle' = [handle EXCEPT ![h] = r]
     /\ IF refresh
        THEN beat' = [beat EXCEPT ![h] = r] /\ timers' = timers \cup {r}
        ELSE UNCHANGED <<beat, timers>>
     /\ UNCHANGED <<refresh, callVars, spent>>
-----------------------------------------------------------------------------
(* _stopHeartbeat of a host: it clears the interval the field holds. *)
StopHeartbeat(h) ==
  /\ timers' = timers \ {beat[h]}
  /\ beat' = [beat EXCEPT ![h] = None]

(* The interval fires: its refresh() asks the driver, unless the lock is      *)
(* known to be lost.                                                          *)
Beat(r) ==
  /\ r \in timers /\ refreshing[r] = "none"
  /\ refreshing' = [refreshing EXCEPT ![r] = IF r \in believes THEN "sent" ELSE "lost"]
  /\ UNCHANGED <<refresh, run, taskVars, releasing, spent, lockVars>>

(* The driver extends the lock, if its owner still holds it. *)
Extends(r) ==
  /\ refreshing[r] = "sent"
  /\ IF holder = r THEN Key!Extend(r) ELSE UNCHANGED lockVars
  /\ refreshing' = [refreshing EXCEPT ![r] = IF holder = r THEN "kept" ELSE "lost"]
  /\ UNCHANGED <<refresh, run, taskVars, releasing, spent>>

(* The refresh() is answered: a lock that is lost is given up, and the host's *)
(* interval and handle with it, and the task runs on.                         *)
Lost(r) ==
  /\ refreshing[r] = "lost"
  /\ Key!Forget(r) /\ believes' = believes \ {r} /\ UNCHANGED granted
  /\ StopHeartbeat(Home[r])
  /\ handle' = [handle EXCEPT ![Home[r]] = None]
  /\ refreshing' = [refreshing EXCEPT ![r] = "none"]
  /\ UNCHANGED <<refresh, run, running, releasing, spent>>

(* Or there is nothing to do: it was extended, or the driver fails. *)
Beaten(r) ==
  /\ refreshing[r] # "none"
  /\ refreshing' = [refreshing EXCEPT ![r] = "none"]
  /\ UNCHANGED <<refresh, run, taskVars, releasing, spent, lockVars>>

(* The task succeeds or fails: the flag, then _releaseLock, which awaits the  *)
(* release() of the handle it finds.  A lock that was given up asks nothing.  *)
Finish_beatsOn(r) ==
  LET h == Home[r]
  IN /\ run[r] = "running"
     /\ running' = [running EXCEPT ![h] = FALSE]
     /\ UNCHANGED <<beat, timers>>
     /\ releasing' = [releasing EXCEPT ![r] = handle[h]]
     /\ Goes(r, IF handle[h] = None THEN "over"
                ELSE IF handle[h] \in believes THEN "releasing" ELSE "released")
     /\ Key!Forget(handle[h]) /\ believes' = believes \ {handle[h]} /\ UNCHANGED granted
     /\ UNCHANGED <<refresh, handle, refreshing, spent>>
Finish(r) ==
  LET h == Home[r]
  IN /\ run[r] = "running"
     /\ running' = [running EXCEPT ![h] = FALSE]
     /\ StopHeartbeat(h)
     /\ releasing' = [releasing EXCEPT ![r] = handle[h]]
     /\ Goes(r, IF handle[h] = None THEN "over"
                ELSE IF handle[h] \in believes THEN "releasing" ELSE "released")
     /\ Key!Forget(handle[h]) /\ believes' = believes \ {handle[h]} /\ UNCHANGED granted
     /\ UNCHANGED <<refresh, handle, refreshing, spent>>

(* The driver removes the lock, if its owner still holds it. *)
Release(r) ==
  /\ run[r] = "releasing" /\ refreshing[r] # "sent"
  /\ Goes(r, "released")
  /\ IF holder = releasing[r] THEN Key!Release(releasing[r]) /\ UNCHANGED believes
     ELSE UNCHANGED lockVars
  /\ UNCHANGED <<refresh, taskVars, callVars, spent>>

(* The release() is answered, and the host's handle cleared.  One that throws *)
(* leaves it.                                                                 *)
Released(r) ==
  /\ run[r] = "released" /\ refreshing[r] = "none"
  /\ Goes(r, "over")
  /\ handle' = [handle EXCEPT ![Home[r]] = None]
  /\ releasing' = [releasing EXCEPT ![r] = None]
  /\ UNCHANGED <<refresh, running, beat, timers, refreshing, spent, lockVars>>

ReleaseFails(r) ==
  /\ run[r] \in {"releasing", "released"} /\ refreshing[r] = "none" /\ Spend("error")
  /\ Goes(r, "over")
  /\ releasing' = [releasing EXCEPT ![r] = None]
  /\ UNCHANGED <<refresh, taskVars, refreshing, lockVars>>
-----------------------------------------------------------------------------
Alive(r) ==
  run[r] \in {"guarding", "asking", "granted", "running", "releasing", "released"}

(* A host dies and starts again, with none of its runs. *)
Crash(h) ==
  LET lost == {r \in Run : Home[r] = h /\ Alive(r)}
  IN /\ lost # {} /\ Spend("crash")
     /\ run' = [r \in Run |-> IF r \in lost THEN "dead" ELSE run[r]]
     /\ running' = [running EXCEPT ![h] = FALSE]
     /\ handle' = [handle EXCEPT ![h] = None] /\ beat' = [beat EXCEPT ![h] = None]
     /\ timers' = timers \ lost
     /\ refreshing' = [r \in Run |-> IF r \in lost THEN "none" ELSE refreshing[r]]
     /\ releasing' = [r \in Run |-> IF r \in lost THEN None ELSE releasing[r]]
     /\ granted' = granted \ lost /\ believes' = believes \ lost
     /\ UNCHANGED <<refresh, holder, left, forces>>

(* Time passes.  The driver answers a run before a lock can lapse; a lock     *)
(* that is kept alive lapses under its run at the cost of a fault.            *)
Tick_noTtl ==
  /\ left > Ttl /\ Key!Tick
  /\ UNCHANGED <<refresh, run, taskVars, callVars, spent>>
Tick ==
  /\ left = 1 => \A r \in Run : run[r] \notin {"asking", "granted"}
  /\ IF left = 1 /\ refresh /\ run[holder] = "running" THEN Spend("lapse")
     ELSE UNCHANGED spent
  /\ Key!Tick
  /\ UNCHANGED <<refresh, run, taskVars, callVars>>

Answer(r) ==
  \/ Guard(r) \/ Grant(r) \/ Refuse(r) \/ Start(r)
  \/ Extends(r) \/ Lost(r) \/ Beaten(r) \/ Release(r) \/ Released(r)

Next ==
  \/ \E r \in Run : \/ Fire(r) \/ Answer(r) \/ Beat(r) \/ Finish(r)
                    \/ AcquireFails(r) \/ ReleaseFails(r)
  \/ \E h \in Host : Crash(h)
  \/ Tick

Spec == Init /\ [][Next]_vars

(* Guards, tasks and the driver answer, and the clock ticks. *)
Fairness == (\A r \in Run : WF_vars(Answer(r)) /\ WF_vars(Finish(r))) /\ SF_vars(Tick)
FairSpec == Spec /\ Fairness
-----------------------------------------------------------------------------
(* Properties. *)

Running == {r \in Run : run[r] = "running"}

(* The task does not overlap with itself on one host, even when its lock is   *)
(* lost while it runs (_running), nor on two as long as the lock is there.    *)
NoOverlap ==
  /\ \A r, q \in Running : Home[r] = Home[q] => r = q
  /\ refresh /\ spent.lapse = 0 => Cardinality(Running) <= 1

(* A run that is over holds the lock no longer, so that the next tick finds   *)
(* it free: what one run does to the fields it shares with the others of its  *)
(* host never keeps another from releasing (_releaseLock, _startHeartbeat).   *)
ReleasedWhenDone ==
  holder # Nobody /\ run[holder] = "over" => spent.error > 0

(* The lock of a host that died, or could not release it, comes back.         *)
LockComesBack ==
  (holder # Nobody /\ run[holder] \in {"over", "dead"}) ~>
    (holder = Nobody \/ run[holder] = "running")
=============================================================================
