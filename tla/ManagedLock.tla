----------------------------- MODULE ManagedLock -----------------------------
(***************************************************************************)
(* Locks on one key: ManagedLock and LockManager's try and block, over any *)
(* of the three drivers.  A lock is one call of try or block with its own  *)
(* owner token; every call is in a process of its own or interleaved with  *)
(* the others at its awaits, and time passes at any of them.               *)
(*                                                                         *)
(* A driver's command takes effect in one step and its answer is read in   *)
(* another.  try is block with no patience: both attempt once, and give up *)
(* at a refusal past the deadline.                                         *)
(***************************************************************************)
EXTENDS Integers, FiniteSets

CONSTANTS
  Lock,    \* ManagedLock instances on the key, one per call of try or block
  Nobody,  \* no owner
  Ttl,     \* ticks a lock lives unless it is extended
  Every,   \* ticks between refreshes
  Timeout, \* ticks block waits for the lock
  Settings \* the drivers and budgets a behaviour may start with: records of
           \* driver, pauses, forces, crashes, reacquires and errors

Driver == {"memory", "sqlite", "redis"}
Setting == [driver: Driver, pauses: Nat, forces: Nat, crashes: Nat,
            reacquires: Nat, errors: Nat]

ASSUME LockAssumption ==
  /\ Nobody \notin Lock
  /\ Ttl \in Nat /\ Every \in Nat \ {0} /\ Every < Ttl
  /\ Timeout \in Nat
  /\ Settings \subseteq Setting

VARIABLES
  setting, \* the setting in force; its driver serves every lock
  spent,   \* what was used of each budget
  record,  \* the key's record: its owner and the time to its deadline
  locks    \* Lock -> the state of the call and of its ManagedLock

vars == <<setting, spent, record, locks>>

(* The critical section: not begun, acquiring, sleeping in block's loop, the *)
(* callback running, released in the finally block, over; or cut short by a  *)
(* lost lock while the callback runs on ("stray"); or the process crashed.   *)
Stage == {"idle", "acquiring", "polling", "running", "releasing", "stray", "done",
          "crashed"}

(* An acquire that has yet to issue, its commands so far, or its answer.     *)
Command == {"none", "start", "purged", "absent", "own", "taken", "yes", "no"}

LockState == [
  stage: Stage, op: Command,
  beat: {"none", "kept", "gone", "error"}, \* refresh's answer, not yet read
  beatIn: 0..Every,    \* time to the next refresh
  held: BOOLEAN,       \* _acquired
  refresh: BOOLEAN,    \* options.refresh
  aborted: BOOLEAN,    \* the signal
  patience: 0..Timeout, \* time to block's deadline
  age: 0..Ttl,         \* history: time since the last acquire began, capped
  lostFor: 0..Every+1] \* history: time the section ran on without its record

(* Types; in particular no record is ever given more than a TTL to live. *)
TypeOK ==
  /\ setting \in Settings
  /\ spent \in [pauses: 0..setting.pauses, forces: 0..setting.forces,
                crashes: 0..setting.crashes, reacquires: 0..setting.reacquires,
                errors: 0..setting.errors]
  /\ record \in [owner: Lock \cup {Nobody}, left: 0..Ttl]
  /\ locks \in [Lock -> LockState]

Free == [owner |-> Nobody, left |-> 0]

Init ==
  /\ setting \in Settings
  /\ spent = [pauses |-> 0, forces |-> 0, crashes |-> 0, reacquires |-> 0, errors |-> 0]
  /\ record = Free
  /\ locks = [l \in Lock |->
       [stage |-> "idle", op |-> "none", beat |-> "none", beatIn |-> 0, held |-> FALSE,
        refresh |-> FALSE, aborted |-> FALSE, patience |-> 0, age |-> 0, lostFor |-> 0]]

Expired == record.left = 0
Owns(l) == record.owner = l /\ ~Expired

(* l's state becomes new. *)
Moves(l, new) == locks' = [locks EXCEPT ![l] = new]
Steps(l, op) == Moves(l, [locks[l] EXCEPT !.op = op])
(* One use of a budget. *)
Spends(budget) == /\ spent[budget] < setting[budget]
                  /\ spent' = [spent EXCEPT ![budget] = @ + 1]
-----------------------------------------------------------------------------
(* acquire() of the three drivers. *)

Memory(l) ==
  /\ setting.driver = "memory" /\ locks[l].op = "start"
  /\ IF Expired \/ record.owner = l
     THEN record' = [owner |-> l, left |-> Ttl] /\ Steps(l, "yes")
     ELSE UNCHANGED record /\ Steps(l, "no")

RedisSet(l) ==
  /\ setting.driver = "redis" /\ locks[l].op = "start"
  /\ IF Expired
     THEN record' = [owner |-> l, left |-> Ttl] /\ Steps(l, "yes")
     ELSE UNCHANGED record /\ Steps(l, "taken")

RedisGet(l) ==
  /\ locks[l].op = "taken"
  /\ Steps(l, IF Owns(l) THEN "own" ELSE "no")
  /\ UNCHANGED record

(* EXPIRE takes no owner, and its answer is not looked at. *)
RedisExpire_adds(l) ==
  /\ setting.driver = "redis" /\ locks[l].op = "own"
  /\ record' = [record EXCEPT !.left = IF Expired THEN 0 ELSE @ + Ttl]
  /\ Steps(l, "yes")
RedisExpire(l) ==
  /\ setting.driver = "redis" /\ locks[l].op = "own"
  /\ record' = [record EXCEPT !.left = IF Expired THEN 0 ELSE Ttl]
  /\ Steps(l, "yes")

SqlitePurge(l) ==
  /\ setting.driver = "sqlite" /\ locks[l].op = "start"
  /\ record' = IF Expired THEN Free ELSE record
  /\ Steps(l, "purged")

(* Neither the SELECT nor the INSERT's key constraint looks at expires_at. *)
SqliteSelect(l) ==
  /\ locks[l].op = "purged"
  /\ Steps(l, CASE record.owner = Nobody -> "absent"
                [] record.owner = l -> "own"
                [] OTHER -> "no")
  /\ UNCHANGED record

(* Both writes put the deadline a TTL after the acquire began. *)
Deadline(l) == Ttl - locks[l].age

SqliteUpdate(l) ==
  /\ setting.driver = "sqlite" /\ locks[l].op = "own"
  /\ record' = IF record.owner = Nobody THEN record
               ELSE [record EXCEPT !.left = Deadline(l)]
  /\ Steps(l, "yes")

SqliteInsert_replaces(l) ==
  /\ locks[l].op = "absent"
  /\ record' = [owner |-> l, left |-> Deadline(l)] /\ Steps(l, "yes")
SqliteInsert(l) ==
  /\ locks[l].op = "absent"
  /\ IF record.owner = Nobody
     THEN record' = [owner |-> l, left |-> Deadline(l)] /\ Steps(l, "yes")
     ELSE UNCHANGED record /\ Steps(l, "no")

Acquire(l) ==
  /\ \/ Memory(l) \/ RedisSet(l) \/ RedisGet(l) \/ RedisExpire(l)
     \/ SqlitePurge(l) \/ SqliteSelect(l) \/ SqliteUpdate(l) \/ SqliteInsert(l)
  /\ UNCHANGED <<setting, spent>>
-----------------------------------------------------------------------------
(* ManagedLock and LockManager. *)

(* try(), or block() with its deadline. *)
Begin(l) ==
  /\ locks[l].stage = "idle"
  /\ \E refresh \in BOOLEAN, patience \in {0, Timeout} :
       Moves(l, [locks[l] EXCEPT !.stage = "acquiring", !.op = "start",
                                 !.refresh = refresh, !.patience = patience])
  /\ UNCHANGED <<setting, spent, record>>

(* The acquire's answer: the callback starts, or try throws, or block sleeps. *)
Granted(l) ==
  /\ locks[l].op = "yes"
  /\ Moves(l, IF locks[l].stage = "acquiring"
              THEN [locks[l] EXCEPT !.op = "none", !.held = TRUE, !.stage = "running",
                                    !.beatIn = IF locks[l].refresh THEN Every ELSE 0,
                                    !.patience = 0]
              ELSE [locks[l] EXCEPT !.op = "none", !.held = TRUE])
  /\ UNCHANGED <<setting, spent, record>>

Refused(l) ==
  /\ locks[l].op = "no"
  /\ Moves(l, [locks[l] EXCEPT !.op = "none", !.held = FALSE,
               !.stage = IF @ # "acquiring" THEN @
                         ELSE IF locks[l].patience = 0 THEN "done" ELSE "polling"])
  /\ UNCHANGED <<setting, spent, record>>

(* block()'s loop attempts again. *)
Retry_deadlineInLoop(l) ==
  /\ locks[l].stage = "polling"
  /\ Moves(l, [locks[l] EXCEPT !.stage = "acquiring", !.op = "start", !.age = 0,
                               !.patience = Timeout])
  /\ UNCHANGED <<setting, spent, record>>
Retry(l) ==
  /\ locks[l].stage = "polling"
  /\ Moves(l, [locks[l] EXCEPT !.stage = "acquiring", !.op = "start", !.age = 0])
  /\ UNCHANGED <<setting, spent, record>>

(* The callback calls acquire() on the lock it was given. *)
Reacquire(l) ==
  /\ locks[l].stage \in {"running", "stray"} /\ locks[l].op = "none"
  /\ Spends("reacquires")
  /\ Moves(l, [locks[l] EXCEPT !.op = "start", !.age = 0])
  /\ UNCHANGED <<setting, record>>

(* A section that ends: its interval is cleared, what a beat under way will   *)
(* answer no longer matters, and release() stops the lock claiming to be held *)
(* before it asks the driver, if there is something to release.               *)
Ended(l) == [locks[l] EXCEPT !.beat = "none", !.beatIn = 0, !.held = FALSE, !.lostFor = 0,
                             !.stage = IF locks[l].held THEN "releasing" ELSE "done"]

(* The lost promise wins the race: the signal, then the finally block, while  *)
(* the callback runs on.                                                      *)
Lost(l) == [Ended(l) EXCEPT !.aborted = TRUE,
                            !.stage = IF locks[l].held THEN "releasing" ELSE "stray"]

(* The interval fires, and refresh() issues extend(). *)
Extends(l) == Owns(l)

Beat_afterLoss(l) ==
  /\ locks[l].stage = "running" /\ locks[l].refresh /\ locks[l].beatIn = 0
  /\ locks[l].beat = "none"
  /\ Moves(l, [locks[l] EXCEPT !.beat = "kept", !.beatIn = Every,
                               !.lostFor = IF Owns(l) THEN 0 ELSE @])
  /\ record' = IF Extends(l) THEN [record EXCEPT !.left = Ttl] ELSE record
  /\ UNCHANGED <<setting, spent>>
Beat(l) ==
  /\ locks[l].stage = "running" /\ locks[l].refresh /\ locks[l].beatIn = 0
  /\ locks[l].beat = "none"
  /\ IF locks[l].held
     THEN /\ Moves(l, [locks[l] EXCEPT !.beat = IF Extends(l) THEN "kept" ELSE "gone",
                                       !.beatIn = Every,
                                       !.lostFor = IF Owns(l) THEN 0 ELSE @])
          /\ record' = IF Extends(l) THEN [record EXCEPT !.left = Ttl] ELSE record
     ELSE Moves(l, Lost(l)) /\ UNCHANGED record
  /\ UNCHANGED <<setting, spent>>

(* The store cannot be reached. *)
BeatFails(l) ==
  /\ locks[l].stage = "running" /\ locks[l].refresh /\ locks[l].beatIn = 0
  /\ locks[l].beat = "none" /\ locks[l].held
  /\ setting.driver # "memory" /\ Spends("errors")
  /\ Moves(l, [locks[l] EXCEPT !.beat = "error", !.beatIn = Every])
  /\ UNCHANGED <<setting, record>>

(* refresh()'s answer: a false gives the lock up; a rejection counts as a    *)
(* lost lock, but leaves _acquired set.                                      *)
BeatReply(l) ==
  /\ locks[l].beat # "none"
  /\ Moves(l, CASE locks[l].beat = "kept" -> [locks[l] EXCEPT !.beat = "none"]
                [] locks[l].beat = "error" -> Lost(l)
                [] locks[l].beat = "gone" ->
                     [Lost(l) EXCEPT !.stage = "stray"])
  /\ UNCHANGED <<setting, spent, record>>

(* release() at the driver: owner-guarded, whether the record lapsed or not. *)
Released_anyOwner(l) == Free
Released(l) == IF record.owner = l THEN Free ELSE record

(* The callback calls release() on the lock it was given. *)
ReleaseEarly(l) ==
  /\ locks[l].stage \in {"running", "stray"} /\ locks[l].op = "none" /\ locks[l].held
  /\ Moves(l, [locks[l] EXCEPT !.held = FALSE])
  /\ record' = Released(l)
  /\ UNCHANGED <<setting, spent>>

(* The callback returns or throws. *)
Finish_leaksOnThrow(l) ==
  /\ locks[l].stage \in {"running", "stray"} /\ locks[l].op = "none"
  /\ \E stage \in {"done", IF locks[l].held THEN "releasing" ELSE "done"} :
       Moves(l, [Ended(l) EXCEPT !.stage = stage, !.age = 0])
  /\ UNCHANGED <<setting, spent, record>>
Finish(l) ==
  /\ locks[l].op = "none"
  /\ \/ /\ locks[l].stage = "running"
        /\ Moves(l, [Ended(l) EXCEPT !.age = 0])
     \/ /\ locks[l].stage = "stray"
        /\ Moves(l, [locks[l] EXCEPT !.stage = "done"])
  /\ UNCHANGED <<setting, spent, record>>

(* The finally block's release(). *)
Release(l) ==
  /\ locks[l].stage = "releasing"
  /\ Moves(l, [locks[l] EXCEPT !.stage = IF locks[l].aborted THEN "stray" ELSE "done"])
  /\ record' = Released(l)
  /\ UNCHANGED <<setting, spent>>

(* The driver throws: an acquire, which may have been carried out, or the    *)
(* release.  What the callback's own acquire throws ends the callback.       *)
DriverThrows(l) ==
  /\ setting.driver # "memory" /\ Spends("errors")
  /\ \/ /\ locks[l].op # "none"
        /\ Moves(l, [Ended(l) EXCEPT !.op = "none", !.age = 0, !.patience = 0,
                     !.stage = CASE locks[l].stage = "running" -> @
                                 [] locks[l].stage = "releasing" -> "releasing"
                                 [] OTHER -> "done"])
     \/ /\ locks[l].stage = "releasing"
        /\ Moves(l, [locks[l] EXCEPT !.stage = "done"])
  /\ UNCHANGED <<setting, record>>

(* The process of a lock dies. *)
Crash(l) ==
  /\ locks[l].stage \notin {"idle", "done", "crashed"}
  /\ setting.driver # "memory" /\ Spends("crashes")
  /\ Moves(l, [Ended(l) EXCEPT !.stage = "crashed", !.op = "none", !.age = 0,
                               !.patience = 0])
  /\ UNCHANGED <<setting, record>>

(* forceRelease() by somebody else: by key, whoever holds it. *)
ForceRelease ==
  /\ Spends("forces") /\ record' = Free
  /\ UNCHANGED <<setting, locks>>
-----------------------------------------------------------------------------
(* A lock has something to do at this very moment: time that passes all the  *)
(* same is a pause, of the process or on the way to the store.               *)
Due(l) ==
  \/ locks[l].op # "none" \/ locks[l].beat # "none"
  \/ locks[l].stage = "releasing"
  \/ locks[l].stage = "running" /\ locks[l].refresh /\ locks[l].beatIn = 0

Less(n) == IF n = 0 THEN 0 ELSE n - 1
UpTo(n, max) == IF n < max THEN n + 1 ELSE max

(* A refreshing section that runs as if it held the lock. *)
Protected(l) == locks[l].stage = "running" /\ locks[l].refresh /\ ~locks[l].aborted

Aged(l) ==
  [locks[l] EXCEPT
     !.beatIn = Less(@), !.patience = Less(@),
     !.age = IF locks[l].op = "none" /\ (locks[l].refresh \/ locks[l].stage # "running")
             THEN 0 ELSE UpTo(@, Ttl),
     !.lostFor = IF Protected(l) /\ ~Owns(l) THEN UpTo(@, Every + 1) ELSE 0]

(* An expired key is gone from redis; in the other stores its record stays.  *)
Elapsed ==
  IF Less(record.left) = 0 /\ setting.driver = "redis" THEN Free
  ELSE [record EXCEPT !.left = Less(@)]

Tick ==
  /\ IF \E l \in Lock : Due(l) THEN Spends("pauses") ELSE UNCHANGED spent
  /\ record' = Elapsed
  /\ locks' = [l \in Lock |-> Aged(l)]
  /\ UNCHANGED setting
-----------------------------------------------------------------------------
Driven(l) == Acquire(l) \/ Granted(l) \/ Refused(l) \/ Retry(l) \/ Beat(l)
               \/ BeatReply(l) \/ Release(l)

Next ==
  \/ \E l \in Lock : \/ Begin(l) \/ Driven(l) \/ Reacquire(l) \/ BeatFails(l)
                     \/ ReleaseEarly(l) \/ Finish(l) \/ DriverThrows(l) \/ Crash(l)
  \/ ForceRelease \/ Tick

Spec == Init /\ [][Next]_vars

(* The event loop and the store answer, and time passes whatever they do.    *)
(* That a callback ever returns is not assumed.                              *)
FairSpec == Spec /\ SF_vars(Tick) /\ \A l \in Lock : WF_vars(Driven(l))
-----------------------------------------------------------------------------
(* Nothing has yet kept a lock from living as long as it expects to. *)
Prompt == spent.pauses = 0 /\ spent.forces = 0

(* A lock that has good reason to believe it holds the key: it was told so,   *)
(* nothing told it otherwise, and it is refreshed or within its TTL.          *)
Trusted(l) ==
  /\ locks[l].stage = "running" /\ locks[l].held /\ locks[l].op = "none"
  /\ locks[l].refresh \/ locks[l].age < Ttl

(* As long as processes and store are prompt, two critical sections overlap   *)
(* only when a TTL was outlived without refreshing, and a refreshed section   *)
(* may outlive any number of TTLs (docs/locks: refreshing).                   *)
TrustedExclusive ==
  Prompt => \A k, l \in Lock : Trusted(k) /\ Trusted(l) => k = l

(* A section that refreshes and lost the key, whatever took it, runs on       *)
(* unaware for no longer than the time to its next refresh.                   *)
LossNoticed == spent.pauses = 0 => \A l \in Lock : locks[l].lostFor <= Every

(* try and block always release the lock (LockManager.try), unless the        *)
(* driver throws or the callback acquires it again after losing it.           *)
NothingLeftHeld ==
  spent.errors = 0 /\ spent.reacquires = 0 =>
    \A l \in Lock : locks[l].stage = "done" => ~Owns(l)

(* A dead process blocks the key for no longer than a TTL.                    *)
CrashedLockFrees == \A l \in Lock : locks[l].stage = "crashed" ~> ~Owns(l)

(* block gets the lock or throws: its deadline bounds the wait.               *)
WaitEnds ==
  \A l \in Lock : locks[l].stage = "acquiring" ~>
                     locks[l].stage \notin {"acquiring", "polling"}

(* Together: nobody is kept from the key by the dead or by waiting for it.    *)
Unblocks == CrashedLockFrees /\ WaitEnds

(* The mapping to Lease: the holder is the owner of a record that has not     *)
(* expired.                                                                   *)
Holder == IF Expired THEN Nobody ELSE record.owner
Granting == {l \in Lock : locks[l].op = "yes"}
Believing == {l \in Lock : locks[l].held}
Promise == INSTANCE Lease WITH holder <- Holder, left <- record.left,
             granted <- Granting, believes <- Believing, forces <- spent.forces
(* The three drivers' acquire, extend and release, command by command, keep   *)
(* the promise of Lease (LockDriver.ts).                                      *)
KeepsPromise == Promise!Spec
=============================================================================
