------------------------- MODULE ManagedLock_proofs -------------------------
(* Theorems about ManagedLock, for any number of locks, any TTL and any       *)
(* budget of faults: its types; that the drivers keep the promise of Lease    *)
(* wherever a lock is acquired once or acquire is one step; that losses are   *)
(* noticed, nothing is left held, and sections that trust their lock exclude  *)
(* each other.                                                                *)
EXTENDS ManagedLock, TLAPS

-----------------------------------------------------------------------------
(* Types. *)

RecordType == [owner: Lock \cup {Nobody}, left: 0..Ttl]
SpentType == [pauses: Nat, forces: Nat, crashes: Nat, reacquires: Nat, errors: Nat]

(* The steps of one lock that only move it. *)
LEMMA MoveTypes ==
  ASSUME NEW l \in Lock, NEW new \in LockState, locks \in [Lock -> LockState], Moves(l, new)
  PROVE  locks' \in [Lock -> LockState]
BY DEF Moves

(* A command leads to a position within acquire.                              *)
LEMMA StepsTypes ==
  ASSUME NEW l \in Lock, NEW op \in Command, locks \in [Lock -> LockState], Steps(l, op)
  PROVE  locks' \in [Lock -> LockState]
<1>1. [locks[l] EXCEPT !.op = op] \in LockState
  BY DEF LockState
<1> QED BY <1>1, MoveTypes DEF Steps

(* A fault spent stays within the setting's budget.                           *)
LEMMA SpendsTypes ==
  ASSUME TypeOK, UNCHANGED setting,
         NEW budget \in {"pauses", "forces", "crashes", "reacquires", "errors"},
         Spends(budget)
  PROVE  spent' \in [pauses: 0..setting.pauses, forces: 0..setting.forces,
                     crashes: 0..setting.crashes, reacquires: 0..setting.reacquires,
                     errors: 0..setting.errors]
<1>1. setting \in Setting
  BY LockAssumption DEF TypeOK
<1> QED BY <1>1 DEF TypeOK, Spends, Setting

(* A step spends one budget at most.                                          *)
LEMMA SpendsOne ==
  ASSUME [Next]_vars
  PROVE  /\ UNCHANGED setting
         /\ \/ UNCHANGED spent
            \/ \E budget \in {"pauses", "forces", "crashes", "reacquires", "errors"} :
                 Spends(budget)
BY DEF Next, Driven, Acquire, Begin, Granted, Refused, Retry, Reacquire, Beat, BeatFails,
       BeatReply, ReleaseEarly, Finish, Release, DriverThrows, Crash, ForceRelease, Tick, vars

(* What is not spent after a step was not spent before, and not by the step.  *)
LEMMA NothingSpent ==
  ASSUME TypeOK, [Next]_vars,
         NEW budget \in {"pauses", "forces", "crashes", "reacquires", "errors"},
         spent'[budget] = 0
  PROVE  spent[budget] = 0 /\ ~Spends(budget)
<1>1. setting \in Setting
  BY LockAssumption DEF TypeOK
<1>2. /\ spent[budget] \in Nat
      /\ DOMAIN spent = {"pauses", "forces", "crashes", "reacquires", "errors"}
  BY <1>1 DEF TypeOK, Setting
<1>3. ASSUME NEW b \in {"pauses", "forces", "crashes", "reacquires", "errors"}, Spends(b)
      PROVE  spent'[budget] = IF b = budget THEN spent[budget] + 1 ELSE spent[budget]
  BY <1>2, <1>3 DEF Spends
<1> QED BY <1>2, <1>3, SpendsOne

(* Types: the commands of acquire.                                            *)
LEMMA AcquireTypes ==
  ASSUME TypeOK, NEW l \in Lock, Acquire(l)
  PROVE  record' \in RecordType /\ locks' \in [Lock -> LockState]
<1> USE LockAssumption DEF RecordType
<1>1. locks \in [Lock -> LockState] /\ record \in RecordType /\ Free \in RecordType
  BY DEF TypeOK, Free
<1>2. Deadline(l) \in 0..Ttl
  BY <1>1 DEF Deadline, LockState
<1>3. \E op \in Command : Steps(l, op)
  BY DEF Acquire, Memory, RedisSet, RedisGet, RedisExpire, SqlitePurge, SqliteSelect,
         SqliteUpdate, SqliteInsert, Command
<1>4. record' \in RecordType
  BY <1>1, <1>2
  DEF Acquire, Memory, RedisSet, RedisGet, RedisExpire, SqlitePurge, SqliteSelect,
      SqliteUpdate, SqliteInsert, Expired
<1> QED BY <1>1, <1>3, <1>4, StepsTypes

(* The bounds of the clocks contain what they are set to.                     *)
LEMMA Bounds ==
  /\ 0 \in 0..Ttl /\ 0 \in 0..Every /\ Every \in 0..Every
  /\ 0 \in 0..Timeout /\ Timeout \in 0..Timeout /\ 0 \in 0..(Every+1)
BY LockAssumption

(* What a section that ends, by itself or because its lock is lost, becomes. *)
LEMMA EndedType ==
  ASSUME NEW l \in Lock, locks \in [Lock -> LockState]
  PROVE  Ended(l) \in LockState /\ Lost(l) \in LockState
<1>1. locks[l] \in LockState
  OBVIOUS
<1>2. ASSUME NEW s \in LockState, NEW stage \in Stage
      PROVE  [s EXCEPT !.beat = "none", !.beatIn = 0, !.held = FALSE, !.lostFor = 0,
                       !.stage = stage] \in LockState
  BY Bounds DEF LockState
<1>3. Ended(l) \in LockState
  <2>1. (IF locks[l].held THEN "releasing" ELSE "done") \in Stage
    BY DEF Stage
  <2> QED BY <1>1, <1>2, <2>1 DEF Ended
<1>4. ASSUME NEW s \in LockState, NEW stage \in Stage
      PROVE  [s EXCEPT !.aborted = TRUE, !.stage = stage] \in LockState
  BY DEF LockState
<1>5. Lost(l) \in LockState
  <2>1. (IF locks[l].held THEN "releasing" ELSE "stray") \in Stage
    BY DEF Stage
  <2> QED BY <1>3, <1>4, <2>1 DEF Lost
<1> QED BY <1>3, <1>5

(* Every move of a lock outside acquire() leads to a lock state. *)
LEMMA LockTypes ==
  ASSUME TypeOK, NEW l \in Lock,
         \/ Begin(l) \/ Granted(l) \/ Refused(l) \/ Retry(l) \/ Reacquire(l) \/ Beat(l)
         \/ BeatFails(l) \/ BeatReply(l) \/ ReleaseEarly(l) \/ Finish(l) \/ Release(l)
         \/ DriverThrows(l) \/ Crash(l)
  PROVE  locks' \in [Lock -> LockState]
<1>1. /\ locks[l] \in LockState /\ Ended(l) \in LockState /\ Lost(l) \in LockState
  BY EndedType DEF TypeOK
<1>2. \A new \in LockState : Moves(l, new) => locks' \in [Lock -> LockState]
  BY MoveTypes DEF TypeOK
<1>3. CASE Begin(l)
  <2>1. ASSUME NEW refresh \in BOOLEAN, NEW patience \in {0, Timeout}
        PROVE  [locks[l] EXCEPT !.stage = "acquiring", !.op = "start",
                                !.refresh = refresh, !.patience = patience] \in LockState
    <3>1. patience \in 0..Timeout
      BY Bounds
    <3> QED BY <1>1, <3>1 DEF LockState, Stage, Command
  <2> QED BY <1>2, <1>3, <2>1 DEF Begin
<1>4. CASE Retry(l)
  <2>1. [locks[l] EXCEPT !.stage = "acquiring", !.op = "start", !.age = 0] \in LockState
    BY <1>1, Bounds DEF LockState, Stage, Command
  <2> QED BY <1>2, <1>4, <2>1 DEF Retry
<1>5. CASE Reacquire(l)
  <2>1. [locks[l] EXCEPT !.op = "start", !.age = 0] \in LockState
    BY <1>1, Bounds DEF LockState, Command
  <2> QED BY <1>2, <1>5, <2>1 DEF Reacquire
<1>6. CASE Granted(l)
  <2>1. ASSUME NEW beatIn \in 0..Every
        PROVE  [locks[l] EXCEPT !.op = "none", !.held = TRUE, !.stage = "running",
                                !.beatIn = beatIn, !.patience = 0] \in LockState
    BY <1>1, Bounds DEF LockState, Stage, Command
  <2>2. [locks[l] EXCEPT !.op = "none", !.held = TRUE] \in LockState
    BY <1>1 DEF LockState, Command
  <2>3. (IF locks[l].refresh THEN Every ELSE 0) \in 0..Every
    BY LockAssumption
  <2>4. [locks[l] EXCEPT !.op = "none", !.held = TRUE, !.stage = "running",
           !.beatIn = IF locks[l].refresh THEN Every ELSE 0, !.patience = 0] \in LockState
    BY <2>1, <2>3
  <2> QED BY <1>2, <1>6, <2>2, <2>4 DEF Granted
<1>7. CASE Refused(l)
  <2>1. ASSUME NEW stage \in Stage
        PROVE  [locks[l] EXCEPT !.op = "none", !.held = FALSE, !.stage = stage] \in LockState
    BY <1>1 DEF LockState, Command
  <2>2. (IF locks[l].stage # "acquiring" THEN locks[l].stage
         ELSE IF locks[l].patience = 0 THEN "done" ELSE "polling") \in Stage
    BY <1>1 DEF LockState, Stage
  <2> QED BY <1>2, <1>7, <2>1, <2>2 DEF Refused
<1>8. CASE Beat(l)
  <2>1. ASSUME NEW beat \in {"kept", "gone"}, NEW lostFor \in 0..Every+1
        PROVE  [locks[l] EXCEPT !.beat = beat, !.beatIn = Every, !.lostFor = lostFor]
                 \in LockState
    BY <1>1, Bounds DEF LockState
  <2>2. (IF Extends(l) THEN "kept" ELSE "gone") \in {"kept", "gone"}
    OBVIOUS
  <2>3. (IF Owns(l) THEN 0 ELSE locks[l].lostFor) \in 0..Every+1
    BY <1>1, Bounds DEF LockState
  <2>4. [locks[l] EXCEPT !.beat = IF Extends(l) THEN "kept" ELSE "gone", !.beatIn = Every,
           !.lostFor = IF Owns(l) THEN 0 ELSE locks[l].lostFor] \in LockState
    BY <2>1, <2>2, <2>3
  <2> QED BY <1>1, <1>2, <1>8, <2>4 DEF Beat
<1>9. CASE BeatFails(l)
  <2>1. [locks[l] EXCEPT !.beat = "error", !.beatIn = Every] \in LockState
    BY <1>1, Bounds DEF LockState
  <2> QED BY <1>2, <1>9, <2>1 DEF BeatFails
<1>10. CASE BeatReply(l)
  <2>1. [locks[l] EXCEPT !.beat = "none"] \in LockState
    BY <1>1 DEF LockState
  <2>2. [Lost(l) EXCEPT !.stage = "stray"] \in LockState
    BY <1>1 DEF LockState, Stage
  <2>3. locks[l].beat \in {"kept", "error", "gone"}
    BY <1>1, <1>10 DEF LockState, BeatReply
  <2> QED BY <1>1, <1>2, <1>10, <2>1, <2>2, <2>3 DEF BeatReply
<1>11. CASE ReleaseEarly(l)
  <2>1. [locks[l] EXCEPT !.held = FALSE] \in LockState
    BY <1>1 DEF LockState
  <2> QED BY <1>2, <1>11, <2>1 DEF ReleaseEarly
<1>12. ASSUME NEW stage \in Stage
       PROVE  [locks[l] EXCEPT !.stage = stage] \in LockState
  BY <1>1 DEF LockState
<1>13. "done" \in Stage /\ "stray" \in Stage
  BY DEF Stage
<1>14. CASE Finish(l)
  <2>1. [Ended(l) EXCEPT !.age = 0] \in LockState
    BY <1>1, Bounds DEF LockState
  <2> QED BY <1>2, <1>12, <1>13, <1>14, <2>1 DEF Finish
<1>15. CASE Release(l)
  <2>1. (IF locks[l].aborted THEN "stray" ELSE "done") \in Stage
    BY <1>13
  <2> QED BY <1>2, <1>12, <1>15, <2>1 DEF Release
<1>16. ASSUME NEW stage \in Stage
       PROVE  [Ended(l) EXCEPT !.op = "none", !.age = 0, !.patience = 0, !.stage = stage]
                \in LockState
  BY <1>1, Bounds DEF LockState, Command
<1>17. CASE DriverThrows(l)
  <2>1. (CASE locks[l].stage = "running" -> Ended(l).stage
           [] locks[l].stage = "releasing" -> "releasing"
           [] OTHER -> "done") \in Stage
    BY <1>1 DEF LockState, Stage
  <2>2. [Ended(l) EXCEPT !.op = "none", !.age = 0, !.patience = 0,
           !.stage = CASE locks[l].stage = "running" -> Ended(l).stage
                       [] locks[l].stage = "releasing" -> "releasing"
                       [] OTHER -> "done"] \in LockState
    BY <1>16, <2>1
  <2> QED BY <1>2, <1>12, <1>13, <1>17, <2>2 DEF DriverThrows
<1>18. CASE Crash(l)
  <2>1. "crashed" \in Stage
    BY DEF Stage
  <2>2. [Ended(l) EXCEPT !.stage = "crashed", !.op = "none", !.age = 0, !.patience = 0]
          \in LockState
    BY <1>1, <2>1, Bounds DEF LockState, Command
  <2> QED BY <1>2, <1>18, <2>2 DEF Crash
<1> QED BY <1>3, <1>4, <1>5, <1>6, <1>7, <1>8, <1>9, <1>10, <1>11, <1>14, <1>15, <1>17, <1>18

(* Nothing but Tick moves every lock at once. *)
LEMMA TickTypes ==
  ASSUME TypeOK, Tick
  PROVE  record' \in RecordType /\ locks' \in [Lock -> LockState]
<1>1. locks \in [Lock -> LockState] /\ record \in RecordType
  BY DEF TypeOK, RecordType
<1>2. record' \in RecordType
  BY <1>1, LockAssumption DEF Tick, Elapsed, Less, Free, RecordType
<1>3. ASSUME NEW l \in Lock
      PROVE  Aged(l) \in LockState
  <2>1. locks[l] \in LockState
    BY <1>1
  <2>2. ASSUME NEW beatIn \in 0..Every, NEW patience \in 0..Timeout, NEW age \in 0..Ttl,
               NEW lostFor \in 0..Every+1
        PROVE  [locks[l] EXCEPT !.beatIn = beatIn, !.patience = patience, !.age = age,
                                !.lostFor = lostFor] \in LockState
    BY <2>1 DEF LockState
  <2>3. /\ locks[l].beatIn \in 0..Every /\ locks[l].patience \in 0..Timeout
        /\ locks[l].age \in 0..Ttl /\ locks[l].lostFor \in 0..Every+1
    BY <2>1 DEF LockState
  <2>4. Less(locks[l].beatIn) \in 0..Every /\ Less(locks[l].patience) \in 0..Timeout
    BY <2>3, LockAssumption DEF Less
  <2>5. UpTo(locks[l].age, Ttl) \in 0..Ttl /\ UpTo(locks[l].lostFor, Every + 1) \in 0..Every+1
    BY <2>3, LockAssumption DEF UpTo
  <2> QED BY <2>2, <2>4, <2>5, Bounds DEF Aged
<1> QED BY <1>2, <1>3 DEF Tick

(* Types of the key's record.                                                 *)
LEMMA RecordTypes ==
  ASSUME TypeOK, NEW l \in Lock,
         \/ Beat(l) \/ ReleaseEarly(l) \/ Release(l) \/ ForceRelease
  PROVE  record' \in RecordType
<1>1. record \in RecordType /\ Free \in RecordType
  BY LockAssumption DEF TypeOK, Free, RecordType
<1>2. [record EXCEPT !.left = Ttl] \in RecordType
  BY <1>1, LockAssumption DEF RecordType
<1> QED BY <1>1, <1>2 DEF Beat, ReleaseEarly, Release, ForceRelease, Released

(* Every step keeps the types.                                                *)
LEMMA NextTypes ==
  ASSUME TypeOK, [Next]_vars
  PROVE  TypeOK'
<1>1. setting' = setting
  BY SpendsOne
<1>2. \/ UNCHANGED spent
      \/ \E budget \in {"pauses", "forces", "crashes", "reacquires", "errors"} : Spends(budget)
  BY SpendsOne
<1>3. record' \in RecordType /\ locks' \in [Lock -> LockState]
  <2>1. record \in RecordType /\ locks \in [Lock -> LockState]
    BY DEF TypeOK, RecordType
  <2>2. CASE UNCHANGED vars
    BY <2>1, <2>2 DEF vars
  <2>3. CASE Tick
    BY <2>3, TickTypes
  <2>4. CASE ForceRelease
    BY <2>1, <2>4, LockAssumption DEF ForceRelease, Free, RecordType
  <2>5. ASSUME NEW l \in Lock,
               \/ Begin(l) \/ Driven(l) \/ Reacquire(l) \/ BeatFails(l)
               \/ ReleaseEarly(l) \/ Finish(l) \/ DriverThrows(l) \/ Crash(l)
        PROVE  record' \in RecordType /\ locks' \in [Lock -> LockState]
    <3>1. CASE Acquire(l)
      BY <3>1, AcquireTypes
    <3>2. CASE Beat(l) \/ ReleaseEarly(l) \/ Release(l)
      BY <3>2, LockTypes, RecordTypes
    <3>3. CASE \/ Begin(l) \/ Granted(l) \/ Refused(l) \/ Retry(l) \/ Reacquire(l)
               \/ BeatFails(l) \/ BeatReply(l) \/ Finish(l) \/ DriverThrows(l) \/ Crash(l)
      <4>1. record' = record
        BY <3>3 DEF Begin, Granted, Refused, Retry, Reacquire, BeatFails, BeatReply, Finish,
                    DriverThrows, Crash
      <4> QED BY <2>1, <3>3, <4>1, LockTypes
    <3> QED BY <2>5, <3>1, <3>2, <3>3 DEF Driven
  <2> QED BY <2>2, <2>3, <2>4, <2>5 DEF Next
<1>4. spent' \in [pauses: 0..setting.pauses, forces: 0..setting.forces,
                  crashes: 0..setting.crashes, reacquires: 0..setting.reacquires,
                  errors: 0..setting.errors]
  BY <1>1, <1>2, SpendsTypes DEF TypeOK
<1> QED BY <1>1, <1>3, <1>4 DEF TypeOK, RecordType

(* The types hold at the start.                                               *)
LEMMA InitTypes ==
  ASSUME Init
  PROVE  TypeOK
<1>1. setting \in Setting
  BY LockAssumption DEF Init
<1>2. spent \in [pauses: 0..setting.pauses, forces: 0..setting.forces,
                 crashes: 0..setting.crashes, reacquires: 0..setting.reacquires,
                 errors: 0..setting.errors]
  BY <1>1 DEF Init, Setting
<1>3. record \in RecordType
  BY LockAssumption DEF Init, Free, RecordType
<1>4. locks \in [Lock -> LockState]
  BY Bounds DEF Init, LockState, Stage, Command
<1> QED BY <1>2, <1>3, <1>4 DEF Init, TypeOK, RecordType

(* Every call, record and budget keeps its type. *)
THEOREM TypeCorrect == Spec => []TypeOK
<1> QED BY InitTypes, NextTypes, PTL DEF Spec
-----------------------------------------------------------------------------
(* The promise of Lease.  The drivers keep it step by step, but for the       *)
(* command that extends a record found to be one's own some time before: it   *)
(* is never issued where a lock is acquired once, or acquire() is one step.   *)

AcquiredOnce == \A s \in Settings : s.driver = "memory" \/ s.reacquires = 0

(* The inductive strengthening: which locks can own the record.  One that has *)
(* not been granted it does not, so as long as no lock was acquired again     *)
(* none finds the record its own.                                             *)
OneStep ==
  setting.driver = "memory" => \A l \in Lock : locks[l].op \in {"none", "start", "yes", "no"}
Newcomer(l) ==
  /\ locks[l].op # "own"
  /\ locks[l].op # "none" => locks[l].stage = "acquiring"
  /\ locks[l].beat # "none" => locks[l].stage = "running"
  /\ locks[l].stage \in {"idle", "acquiring", "polling"} /\ locks[l].op # "yes"
       => record.owner # l
Single == setting.driver = "memory" \/ spent.reacquires = 0
Newcomers ==
  setting.driver # "memory" /\ spent.reacquires = 0 => \A l \in Lock : Newcomer(l)
PInv == TypeOK /\ OneStep /\ Newcomers

(* How a move of one lock shows in the promise. *)
LEMMA MoveMaps ==
  ASSUME NEW l \in Lock, NEW new, locks \in [Lock -> LockState], Moves(l, new)
  PROVE  /\ Granting' = IF new.op = "yes" THEN Granting \cup {l} ELSE Granting \ {l}
         /\ Believing' = IF new.held THEN Believing \cup {l} ELSE Believing \ {l}
         /\ l \in Granting <=> locks[l].op = "yes"
         /\ l \in Believing <=> locks[l].held
<1>1. locks' = [locks EXCEPT ![l] = new]
  BY DEF Moves
<1>2. locks'[l] = new /\ \A k \in Lock \ {l} : locks'[k] = locks[k]
  BY <1>1
<1>3. Granting' = {k \in Lock : locks'[k].op = "yes"}
  BY DEF Granting
<1>4. Believing' = {k \in Lock : locks'[k].held}
  BY DEF Believing
<1>5. Granting' = IF new.op = "yes" THEN Granting \cup {l} ELSE Granting \ {l}
  BY <1>2, <1>3, Zenon DEF Granting
<1>6. Believing' = IF new.held THEN Believing \cup {l} ELSE Believing \ {l}
  <2>1. ASSUME NEW k \in Lock, k # l
        PROVE  k \in Believing' <=> k \in Believing
    BY <1>2, <1>4, <2>1 DEF Believing
  <2>2. l \in Believing' <=> new.held
    BY <1>2, <1>4
  <2>3. Believing \subseteq Lock /\ Believing' \subseteq Lock
    BY DEF Believing
  <2>4. CASE new.held
    BY <2>1, <2>2, <2>3, <2>4, Zenon
  <2>5. CASE ~new.held
    BY <2>1, <2>2, <2>3, <2>5, Zenon
  <2> QED BY <2>4, <2>5
<1> QED BY <1>5, <1>6 DEF Granting, Believing

(* A lock that moves and leaves the key alone forgets at most. *)
LEMMA ForgetMaps ==
  ASSUME NEW l \in Lock, NEW new, locks \in [Lock -> LockState], Moves(l, new),
         new.op = "yes" => locks[l].op = "yes",
         new.held => locks[l].held,
         Holder' = Holder, record'.left = record.left, spent'.forces = spent.forces
  PROVE  Promise!Forget(l)
<1>1. Granting' \in {Granting, Granting \ {l}}
  BY MoveMaps, Zenon
<1>2. Believing' \in {Believing, Believing \ {l}}
  BY MoveMaps, Zenon
<1> QED BY <1>1, <1>2 DEF Promise!Forget

(* acquire() keeps the promise, and only the acquirer's position changes. *)
LEMMA AcquireMaps ==
  ASSUME PInv, Single, NEW l \in Lock, Acquire(l)
  PROVE  Promise!Forget(l) \/ Promise!Grant(l)
<1>1. locks \in [Lock -> LockState] /\ record \in RecordType /\ Nobody \notin Lock
  BY LockAssumption DEF PInv, TypeOK, RecordType
<1>2. Ttl \in Nat /\ Ttl # 0 /\ Ttl \in 0..Ttl /\ 0 \in 0..Ttl
  BY LockAssumption
<1>3. UNCHANGED spent /\ spent'.forces = spent.forces
  BY DEF Acquire
<1>4. ASSUME NEW op, Steps(l, op), op = "yes"
      PROVE  /\ Granting' = Granting \cup {l}
             /\ Believing' = Believing
  <2>1. Moves(l, [locks[l] EXCEPT !.op = op])
    BY <1>4 DEF Steps
  <2>2. [locks[l] EXCEPT !.op = op].op = "yes" /\ [locks[l] EXCEPT !.op = op].held = locks[l].held
    BY <1>1, <1>4 DEF LockState
  <2> QED BY <1>1, <2>1, <2>2, MoveMaps
<1>5. ASSUME NEW op, Steps(l, op), op # "yes", Holder' = Holder, record'.left = record.left
      PROVE  Promise!Forget(l)
  <2>1. Moves(l, [locks[l] EXCEPT !.op = op])
    BY <1>5 DEF Steps
  <2>2. [locks[l] EXCEPT !.op = op].op = op /\ [locks[l] EXCEPT !.op = op].held = locks[l].held
    BY <1>1 DEF LockState
  <2> QED BY <1>1, <1>3, <1>5, <2>1, <2>2, ForgetMaps
<1>6. ASSUME NEW d \in 0..Ttl, record' = [owner |-> l, left |-> d], Steps(l, "yes"),
             Holder \in {Nobody, l}
      PROVE  Promise!Grant(l)
  BY <1>3, <1>4, <1>6 DEF Promise!Grant, Holder, Expired
<1>7. ASSUME UNCHANGED record
      PROVE  Holder' = Holder /\ record'.left = record.left
  BY <1>7 DEF Holder, Expired
<1>8. locks[l].op # "own"
  BY DEF PInv, Single, OneStep, Newcomers, Newcomer
<1>9. Expired \/ record.owner \in {l, Nobody} => Holder \in {Nobody, l}
  BY DEF Holder
<1>10. CASE Memory(l)
  BY <1>2, <1>5, <1>6, <1>7, <1>9, <1>10 DEF Memory
<1>11. CASE RedisSet(l)
  BY <1>2, <1>5, <1>6, <1>7, <1>9, <1>11 DEF RedisSet
<1>12. CASE RedisGet(l)
  <2>1. PICK op \in {"own", "no"} : Steps(l, op)
    BY <1>12 DEF RedisGet
  <2> QED BY <1>5, <1>7, <1>12, <2>1 DEF RedisGet
<1>13. CASE SqlitePurge(l)
  <2>1. Holder' = Holder /\ record'.left = record.left
    BY <1>1, <1>13 DEF SqlitePurge, Holder, Expired, Free, RecordType
  <2> QED BY <1>5, <1>13, <2>1 DEF SqlitePurge
<1>14. CASE SqliteSelect(l)
  <2>1. PICK op \in {"absent", "own", "no"} : Steps(l, op)
    BY <1>14 DEF SqliteSelect
  <2> QED BY <1>5, <1>7, <1>14, <2>1 DEF SqliteSelect
<1>15. CASE SqliteInsert(l)
  <2>1. Deadline(l) \in 0..Ttl
    BY <1>1, <1>2 DEF Deadline, LockState
  <2> QED BY <1>5, <1>6, <1>7, <1>9, <1>15, <2>1 DEF SqliteInsert
<1> QED BY <1>8, <1>10, <1>11, <1>12, <1>13, <1>14, <1>15
        DEF Acquire, RedisExpire, SqliteUpdate

(* The steps of a call that leave the record alone. *)
LEMMA CallMaps ==
  ASSUME PInv, NEW l \in Lock,
         \/ Begin(l) \/ Refused(l) \/ Retry(l) \/ Reacquire(l) \/ BeatFails(l)
         \/ BeatReply(l) \/ Finish(l) \/ DriverThrows(l) \/ Crash(l)
  PROVE  Promise!Forget(l)
<1>1. locks \in [Lock -> LockState] /\ locks[l] \in LockState
  BY DEF PInv, TypeOK
<1>2. record' = record /\ Holder' = Holder /\ record'.left = record.left
  BY DEF Begin, Refused, Retry, Reacquire, BeatFails, BeatReply, Finish, DriverThrows, Crash,
         Holder, Expired
<1>3. spent'.forces = spent.forces
  BY DEF PInv, TypeOK, Begin, Refused, Retry, Reacquire, BeatFails, BeatReply, Finish,
         DriverThrows, Crash, Spends
<1>4. ASSUME NEW new, Moves(l, new),
             new.op = "yes" => locks[l].op = "yes", new.held => locks[l].held
      PROVE  Promise!Forget(l)
  BY <1>1, <1>2, <1>3, <1>4, ForgetMaps
<1>5. /\ Ended(l) \in LockState /\ Ended(l).op = locks[l].op /\ Ended(l).held = FALSE
      /\ Lost(l) \in LockState /\ Lost(l).op = locks[l].op /\ Lost(l).held = FALSE
  BY <1>1, EndedType DEF LockState, Ended, Lost
<1>6. CASE Begin(l)
  <2>1. PICK refresh \in BOOLEAN, patience \in {0, Timeout} :
          Moves(l, [locks[l] EXCEPT !.stage = "acquiring", !.op = "start",
                                    !.refresh = refresh, !.patience = patience])
    BY <1>6, Zenon DEF Begin
  <2> QED BY <1>1, <1>4, <2>1 DEF LockState
<1>7. CASE Refused(l)
  BY <1>1, <1>4, <1>7 DEF Refused, LockState
<1>8. CASE Retry(l)
  BY <1>1, <1>4, <1>8 DEF Retry, LockState
<1>9. CASE Reacquire(l)
  BY <1>1, <1>4, <1>9 DEF Reacquire, LockState
<1>10. CASE BeatFails(l)
  BY <1>1, <1>4, <1>10 DEF BeatFails, LockState
<1>11. CASE BeatReply(l)
  BY <1>1, <1>4, <1>5, <1>11 DEF BeatReply, LockState
<1>12. CASE Finish(l)
  BY <1>1, <1>4, <1>5, <1>12 DEF Finish, LockState
<1>13. CASE DriverThrows(l)
  BY <1>1, <1>4, <1>5, <1>13 DEF DriverThrows, LockState
<1>14. CASE Crash(l)
  BY <1>1, <1>4, <1>5, <1>14 DEF Crash, LockState
<1> QED BY <1>6, <1>7, <1>8, <1>9, <1>10, <1>11, <1>12, <1>13, <1>14

(* The callback starts; a beat extends the record or finds it gone. *)
LEMMA GrantedMaps ==
  ASSUME PInv, NEW l \in Lock, Granted(l)
  PROVE  Promise!Learn(l)
<1>1. locks \in [Lock -> LockState] /\ locks[l] \in LockState
  BY DEF PInv, TypeOK
<1>2. UNCHANGED <<record, spent>> /\ locks[l].op = "yes"
  BY DEF Granted
<1>3. ASSUME NEW new, Moves(l, new), new.op = "none", new.held = TRUE
      PROVE  Promise!Learn(l)
  BY <1>1, <1>2, <1>3, MoveMaps DEF Promise!Learn, Holder, Expired
<1> QED BY <1>1, <1>3 DEF Granted, LockState

(* A refresh is an extension, a loss noticed, or a stutter.                   *)
LEMMA BeatMaps ==
  ASSUME PInv, NEW l \in Lock, Beat(l)
  PROVE  Promise!Forget(l) \/ Promise!Extend(l)
<1>1. locks \in [Lock -> LockState] /\ locks[l] \in LockState /\ record \in RecordType
  BY DEF PInv, TypeOK, RecordType
<1>2. UNCHANGED spent
  BY DEF Beat
<1>3. CASE locks[l].held /\ Extends(l)
  <2>1. record' = [record EXCEPT !.left = Ttl]
    BY <1>3 DEF Beat
  <2>2. Holder = l /\ Holder' = l /\ record'.left = Ttl
    BY <1>1, <1>3, <2>1, LockAssumption DEF Extends, Owns, Holder, Expired, RecordType
  <2>3. ASSUME NEW new, Moves(l, new), new.op = locks[l].op, new.held = locks[l].held
        PROVE  Granting' = Granting /\ Believing' = Believing
    BY <1>1, <2>3, MoveMaps
  <2>4. Granting' = Granting /\ Believing' = Believing
    BY <1>1, <1>3, <2>3 DEF Beat, LockState
  <2> QED BY <1>2, <2>2, <2>4 DEF Promise!Extend
<1>4. CASE locks[l].held /\ ~Extends(l)
  <2>1. record' = record
    BY <1>4 DEF Beat
  <2>2. ASSUME NEW new, Moves(l, new), new.op = locks[l].op, new.held = locks[l].held
        PROVE  Promise!Forget(l)
    BY <1>1, <1>2, <2>1, <2>2, ForgetMaps DEF Holder, Expired
  <2> QED BY <1>1, <1>4, <2>2 DEF Beat, LockState
<1>5. CASE ~locks[l].held
  <2>1. Lost(l).op = locks[l].op /\ Lost(l).held = FALSE
    BY <1>1, EndedType DEF LockState, Ended, Lost
  <2> QED BY <1>1, <1>2, <1>5, <2>1, ForgetMaps DEF Beat, Holder, Expired
<1> QED BY <1>3, <1>4, <1>5

(* release(), in the finally block or early: the owner's, or nobody's. *)
LEMMA ReleaseMaps ==
  ASSUME PInv, NEW l \in Lock, ReleaseEarly(l) \/ Release(l)
  PROVE  Promise!Forget(l) \/ Promise!Release(l)
<1>1. locks \in [Lock -> LockState] /\ locks[l] \in LockState /\ record \in RecordType
  BY DEF PInv, TypeOK, RecordType
<1>2. UNCHANGED spent /\ record' = Released(l)
  BY DEF ReleaseEarly, Release
<1>3. PICK new : Moves(l, new) /\ new.op = locks[l].op /\ (new.held => locks[l].held)
  BY <1>1 DEF ReleaseEarly, Release, LockState
<1>4. CASE Owns(l)
  <2>1. Holder = l /\ Holder' = Nobody /\ record'.left = 0
    BY <1>2, <1>4 DEF Owns, Released, Free, Holder, Expired
  <2>2. Granting' = Granting /\ Believing' \in {Believing, Believing \ {l}}
    BY <1>1, <1>3, MoveMaps, Zenon
  <2> QED BY <1>2, <2>1, <2>2 DEF Promise!Release
<1>5. CASE ~Owns(l)
  <2>1. Holder' = Holder /\ record'.left = record.left
    BY <1>1, <1>2, <1>5 DEF Owns, Released, Free, Holder, Expired
  <2> QED BY <1>1, <1>2, <1>3, <2>1, ForgetMaps
<1> QED BY <1>4, <1>5

(* Time passes for the lease too.                                             *)
LEMMA TickMaps ==
  ASSUME PInv, Tick
  PROVE  Promise!Tick \/ UNCHANGED Promise!vars
<1>1. locks \in [Lock -> LockState] /\ record \in RecordType /\ setting \in Setting
  BY LockAssumption DEF PInv, TypeOK, RecordType
<1>2. spent'.forces = spent.forces
  BY DEF PInv, TypeOK, Tick, Spends
<1>3. \A l \in Lock : locks'[l].op = locks[l].op /\ locks'[l].held = locks[l].held
  BY <1>1 DEF Tick, Aged, LockState
<1>4. Granting' = Granting /\ Believing' = Believing
  BY <1>3 DEF Granting, Believing
<1>5. record.left \in Nat /\ record' = Elapsed
  BY <1>1, LockAssumption DEF RecordType, Tick
<1>6. CASE record.left = 0
  BY <1>1, <1>2, <1>4, <1>5, <1>6
  DEF Promise!vars, Elapsed, Less, Free, Holder, Expired, RecordType
<1>7. CASE record.left > 0
  BY <1>1, <1>2, <1>4, <1>5, <1>7
  DEF Promise!Tick, Elapsed, Less, Free, Holder, Expired, RecordType
<1> QED BY <1>5, <1>6, <1>7

(* Every step is one of Lease, or a stutter.                                  *)
LEMMA NextMaps ==
  ASSUME PInv, Single, [Next]_vars
  PROVE  [Promise!Next]_Promise!vars
<1>1. CASE UNCHANGED vars
  BY <1>1 DEF vars, Promise!vars, Holder, Expired, Granting, Believing
<1>2. CASE Tick
  BY <1>2, TickMaps DEF Promise!Next
<1>3. CASE ForceRelease
  <2>1. Holder' = Nobody /\ record'.left = 0 /\ spent'.forces = spent.forces + 1
    BY <1>3 DEF PInv, TypeOK, ForceRelease, Spends, Free, Holder, Expired
  <2>2. Granting' = Granting /\ Believing' = Believing
    BY <1>3 DEF ForceRelease, Granting, Believing
  <2> QED BY <2>1, <2>2 DEF Promise!Next, Promise!Force
<1>4. ASSUME NEW l \in Lock,
             \/ Begin(l) \/ Driven(l) \/ Reacquire(l) \/ BeatFails(l)
             \/ ReleaseEarly(l) \/ Finish(l) \/ DriverThrows(l) \/ Crash(l)
      PROVE  Promise!Next
  <2>1. \/ Promise!Grant(l) \/ Promise!Learn(l) \/ Promise!Extend(l) \/ Promise!Forget(l)
        \/ Promise!Release(l)
    BY <1>4, AcquireMaps, CallMaps, GrantedMaps, BeatMaps, ReleaseMaps DEF Driven
  <2> QED BY <2>1 DEF Promise!Next
<1> QED BY <1>1, <1>2, <1>3, <1>4 DEF Next

(* Where the record's owner comes from, and which locks a step leaves alone. *)
LEMMA OwnerMoves ==
  ASSUME PInv, NEW l \in Lock, NEW new, Moves(l, new),
         record'.owner \in {record.owner, Nobody} \/ (record'.owner = l /\ new.op = "yes"),
         setting' = setting
  PROVE  \A k \in Lock \ {l} : Newcomer(k) => Newcomer(k)'
<1>1. \A k \in Lock \ {l} : locks'[k] = locks[k]
  BY DEF PInv, TypeOK, Moves
<1>2. \A k \in Lock \ {l} : record.owner # k => record'.owner # k
  BY LockAssumption
<1> QED BY <1>1, <1>2 DEF Newcomer

(* A lock moves through acquire without owning the record.                    *)
LEMMA NewcomerSteps ==
  ASSUME PInv, setting.driver # "memory", spent.reacquires = 0, ~Spends("reacquires"),
         NEW l \in Lock,
         \/ Begin(l) \/ Driven(l) \/ Reacquire(l) \/ BeatFails(l)
         \/ ReleaseEarly(l) \/ Finish(l) \/ DriverThrows(l) \/ Crash(l)
  PROVE  Newcomers'
<1>1. /\ locks \in [Lock -> LockState] /\ locks[l] \in LockState /\ record \in RecordType
      /\ Newcomer(l) /\ \A k \in Lock : Newcomer(k)
  BY DEF PInv, TypeOK, RecordType, Newcomers
<1>2. UNCHANGED setting
  BY DEF Driven, Acquire, Begin, Granted, Refused, Retry, Reacquire, Beat, BeatFails, BeatReply,
         ReleaseEarly, Finish, Release, DriverThrows, Crash
<1>4. ~Reacquire(l)
  BY DEF Reacquire
<1>3. ASSUME NEW new, Moves(l, new), UNCHANGED setting,
             \/ record'.owner \in {record.owner, Nobody}
             \/ record'.owner = l /\ new.op = "yes",
             new.op # "own",
             new.op # "none" => new.stage = "acquiring",
             new.beat # "none" => new.stage = "running",
             new.stage \in {"idle", "acquiring", "polling"} /\ new.op # "yes"
               => record'.owner # l
      PROVE  Newcomers'
  <2>1. \A k \in Lock \ {l} : Newcomer(k)'
    BY <1>1, <1>3, OwnerMoves
  <2>2. locks'[l] = new
    BY <1>1, <1>3 DEF Moves
  <2>3. Newcomer(l)'
    BY <1>3, <2>2 DEF Newcomer
  <2> QED BY <2>1, <2>3 DEF Newcomers
<1>6. Nobody # l
  BY LockAssumption
<1>7. CASE Begin(l)
  <2>1. ASSUME NEW refresh \in BOOLEAN, NEW patience \in {0, Timeout},
               Moves(l, [locks[l] EXCEPT !.stage = "acquiring", !.op = "start",
                                         !.refresh = refresh, !.patience = patience])
        PROVE  Newcomers'
    BY <1>1, <1>2, <1>3, <1>7, <2>1 DEF Begin, Newcomer, LockState
  <2> QED BY <1>7, <2>1 DEF Begin
<1>8. CASE Granted(l)
  BY <1>1, <1>2, <1>3, <1>8 DEF Granted, Newcomer, LockState
<1>9. CASE Refused(l)
  BY <1>1, <1>2, <1>3, <1>9 DEF Refused, Newcomer, LockState
<1>10. CASE Retry(l)
  BY <1>1, <1>2, <1>3, <1>10 DEF Retry, Newcomer, LockState
<1>11. /\ Ended(l) \in LockState /\ Ended(l).op = locks[l].op /\ Ended(l).beat = "none"
       /\ Ended(l).stage \in {"releasing", "done"}
       /\ Lost(l) \in LockState /\ Lost(l).op = locks[l].op /\ Lost(l).beat = "none"
       /\ Lost(l).stage \in {"releasing", "stray"}
  <2>1. Ended(l) \in LockState /\ Lost(l) \in LockState
    BY <1>1, EndedType
  <2>2. /\ Ended(l).op = locks[l].op /\ Ended(l).beat = "none"
        /\ Ended(l).stage \in {"releasing", "done"}
    BY <1>1 DEF LockState, Ended
  <2>3. /\ Lost(l).op = Ended(l).op /\ Lost(l).beat = Ended(l).beat
        /\ Lost(l).stage \in {"releasing", "stray"}
    BY <2>1 DEF LockState, Lost
  <2> QED BY <2>1, <2>2, <2>3
<1>12. CASE Beat(l)
  <2>1. record'.owner = record.owner
    BY <1>1, <1>12 DEF Beat, RecordType
  <2> QED BY <1>1, <1>2, <1>3, <1>11, <1>12, <2>1 DEF Beat, Newcomer, LockState
<1>13. CASE BeatFails(l)
  BY <1>1, <1>2, <1>3, <1>13 DEF BeatFails, Newcomer, LockState
<1>14. CASE BeatReply(l)
  <2>1. locks[l].beat \in {"kept", "error", "gone"}
    BY <1>1, <1>14 DEF BeatReply, LockState
  <2>2. record' = record
    BY <1>14 DEF BeatReply
  <2>3. CASE Moves(l, [locks[l] EXCEPT !.beat = "none"])
    BY <1>1, <1>2, <1>3, <2>2, <2>3 DEF Newcomer, LockState
  <2>4. CASE Moves(l, Lost(l))
    BY <1>1, <1>2, <1>3, <1>11, <2>1, <2>2, <2>4 DEF Newcomer, LockState
  <2>5. CASE Moves(l, [Lost(l) EXCEPT !.stage = "stray"])
    BY <1>1, <1>2, <1>3, <1>11, <2>1, <2>2, <2>5 DEF Newcomer, LockState
  <2> QED BY <1>14, <2>1, <2>3, <2>4, <2>5 DEF BeatReply
<1>15. CASE ReleaseEarly(l)
  BY <1>1, <1>2, <1>3, <1>6, <1>15 DEF ReleaseEarly, Released, Free, Newcomer, LockState
<1>16. CASE Release(l)
  BY <1>1, <1>2, <1>3, <1>6, <1>16 DEF Release, Released, Free, Newcomer, LockState
<1>17. CASE Finish(l)
  BY <1>1, <1>2, <1>3, <1>11, <1>17 DEF Finish, Newcomer, LockState
<1>18. CASE DriverThrows(l)
  <2> DEFINE over == [Ended(l) EXCEPT !.op = "none", !.age = 0, !.patience = 0,
                        !.stage = CASE locks[l].stage = "running" -> @
                                    [] locks[l].stage = "releasing" -> "releasing"
                                    [] OTHER -> "done"]
  <2>2. CASE locks[l].op # "none" /\ Moves(l, over)
    <3>1. locks[l].stage = "acquiring"
      BY <1>1, <2>2 DEF Newcomer
    <3>2. over.op = "none" /\ over.beat = "none" /\ over.stage = "done"
      BY <1>11, <3>1 DEF LockState
    <3>3. record' = record
      BY <1>18 DEF DriverThrows
    <3> HIDE DEF over
    <3> QED BY <1>2, <1>3, <2>2, <3>2, <3>3
  <2>3. CASE locks[l].stage = "releasing" /\ Moves(l, [locks[l] EXCEPT !.stage = "done"])
    BY <1>1, <1>2, <1>3, <1>18, <2>3 DEF DriverThrows, Newcomer, LockState
  <2> QED BY <1>18, <2>2, <2>3 DEF DriverThrows
<1>19. CASE Crash(l)
  BY <1>1, <1>2, <1>3, <1>11, <1>19 DEF Crash, Newcomer, LockState
<1>20. CASE Acquire(l)
  <2>1. ASSUME NEW op, Steps(l, op),
               \/ record'.owner \in {record.owner, Nobody}
               \/ record'.owner = l /\ op = "yes",
               op # "own", op # "none", locks[l].op \notin {"none", "yes"}
        PROVE  Newcomers'
    <3>1. Moves(l, [locks[l] EXCEPT !.op = op])
      BY <2>1 DEF Steps
    <3>2. /\ [locks[l] EXCEPT !.op = op].op = op
          /\ [locks[l] EXCEPT !.op = op].beat = locks[l].beat
          /\ [locks[l] EXCEPT !.op = op].stage = locks[l].stage
      BY <1>1 DEF LockState
    <3>3. locks[l].stage = "acquiring" /\ locks[l].beat = "none" /\ record.owner # l
      BY <1>1, <2>1 DEF Newcomer
    <3> QED BY <1>2, <1>3, <1>6, <2>1, <3>1, <3>2, <3>3
  <2>2. locks[l].op # "own" /\ (locks[l].op \notin {"none", "yes"} => record.owner # l)
    BY <1>1 DEF Newcomer
  <2>3. CASE RedisSet(l)
    BY <2>1, <2>3 DEF RedisSet
  <2>4. CASE RedisGet(l)
    BY <2>1, <2>2, <2>4 DEF RedisGet, Owns
  <2>5. CASE SqlitePurge(l)
    BY <2>1, <2>5 DEF SqlitePurge, Free
  <2>6. CASE SqliteSelect(l)
    <3>1. PICK op \in {"absent", "no"} : Steps(l, op)
      BY <2>2, <2>6 DEF SqliteSelect
    <3> QED BY <2>1, <2>6, <3>1 DEF SqliteSelect
  <2>7. CASE SqliteInsert(l)
    BY <2>1, <2>7 DEF SqliteInsert
  <2> QED BY <1>20, <2>2, <2>3, <2>4, <2>5, <2>6, <2>7
          DEF Acquire, Memory, RedisExpire, SqliteUpdate
<1> QED BY <1>4, <1>7, <1>8, <1>9, <1>10, <1>12, <1>13, <1>14, <1>15, <1>16, <1>17, <1>18,
           <1>19, <1>20 DEF Driven

(* The memory driver's acquire has no commands between its call and answer. *)
LEMMA OneStepKept ==
  ASSUME PInv, setting.driver = "memory", NEW l \in Lock,
         \/ Begin(l) \/ Driven(l) \/ Reacquire(l) \/ BeatFails(l)
         \/ ReleaseEarly(l) \/ Finish(l) \/ DriverThrows(l) \/ Crash(l)
  PROVE  OneStep'
<1>1. /\ locks \in [Lock -> LockState] /\ locks[l] \in LockState
      /\ \A k \in Lock : locks[k].op \in {"none", "start", "yes", "no"}
  BY DEF PInv, TypeOK, OneStep
<1>2. ASSUME NEW new, Moves(l, new), new.op \in {"none", "start", "yes", "no"}
      PROVE  OneStep'
  BY <1>1, <1>2 DEF Moves, OneStep
<1>3. /\ Ended(l) \in LockState /\ Ended(l).op = locks[l].op
      /\ Lost(l) \in LockState /\ Lost(l).op = locks[l].op
  BY <1>1, EndedType DEF LockState, Ended, Lost
<1>4. CASE Begin(l)
  <2>1. ASSUME NEW refresh \in BOOLEAN, NEW patience \in {0, Timeout},
               Moves(l, [locks[l] EXCEPT !.stage = "acquiring", !.op = "start",
                                         !.refresh = refresh, !.patience = patience])
        PROVE  OneStep'
    BY <1>1, <1>2, <2>1 DEF LockState
  <2> QED BY <1>4, <2>1 DEF Begin
<1>5. CASE Acquire(l)
  BY <1>1, <1>2, <1>5 DEF Acquire, Memory, RedisSet, RedisGet, RedisExpire, SqlitePurge,
                          SqliteSelect, SqliteUpdate, SqliteInsert, Steps, LockState
<1>6. CASE Granted(l) \/ Refused(l) \/ Retry(l) \/ Reacquire(l)
  BY <1>1, <1>2, <1>6 DEF Granted, Refused, Retry, Reacquire, LockState
<1>7. CASE Beat(l) \/ BeatFails(l)
  BY <1>1, <1>2, <1>3, <1>7 DEF Beat, BeatFails, LockState
<1>8. CASE BeatReply(l)
  <2>1. locks[l].beat \in {"kept", "error", "gone"}
    BY <1>1, <1>8 DEF BeatReply, LockState
  <2> QED BY <1>1, <1>2, <1>3, <1>8, <2>1 DEF BeatReply, LockState
<1>9. CASE ReleaseEarly(l) \/ Release(l) \/ Finish(l)
  BY <1>1, <1>2, <1>3, <1>9 DEF ReleaseEarly, Release, Finish, LockState
<1>10. ~DriverThrows(l) /\ ~Crash(l)
  BY DEF DriverThrows, Crash
<1> QED BY <1>4, <1>5, <1>6, <1>7, <1>8, <1>9, <1>10 DEF Driven

(* Every step keeps the invariant.                                            *)
LEMMA NextInv ==
  ASSUME PInv, [Next]_vars
  PROVE  PInv'
<1>1. TypeOK'
  BY NextTypes DEF PInv
<1>2. spent'.reacquires = 0 => spent.reacquires = 0 /\ ~Spends("reacquires")
  BY NothingSpent DEF PInv
<1>3. UNCHANGED setting
  BY SpendsOne
<1>4. locks \in [Lock -> LockState] /\ record \in RecordType
  BY DEF PInv, TypeOK, RecordType
<1>5. CASE UNCHANGED vars
  BY <1>5 DEF vars, PInv, TypeOK, OneStep, Newcomers, Newcomer
<1>6. CASE ForceRelease \/ Tick
  <2>1. \A l \in Lock : /\ locks'[l].op = locks[l].op /\ locks'[l].stage = locks[l].stage
                        /\ locks'[l].beat = locks[l].beat
    <3>1. \A l \in Lock : /\ Aged(l).op = locks[l].op /\ Aged(l).stage = locks[l].stage
                          /\ Aged(l).beat = locks[l].beat
      BY <1>4 DEF Aged, LockState
    <3>2. CASE ForceRelease
      BY <3>2 DEF ForceRelease
    <3>3. CASE Tick
      BY <3>1, <3>3 DEF Tick
    <3> QED BY <1>6, <3>2, <3>3
  <2>2. record'.owner \in {record.owner, Nobody}
    BY <1>4, <1>6 DEF ForceRelease, Tick, Elapsed, Free, RecordType
  <2>3. OneStep'
    BY <1>3, <2>1 DEF PInv, OneStep
  <2>4. \A l \in Lock : record.owner # l => record'.owner # l
    BY <2>2, LockAssumption
  <2>5. Newcomers'
    BY <1>2, <1>3, <2>1, <2>4 DEF PInv, Newcomers, Newcomer
  <2> QED BY <1>1, <2>3, <2>5 DEF PInv
<1>7. ASSUME NEW l \in Lock,
             \/ Begin(l) \/ Driven(l) \/ Reacquire(l) \/ BeatFails(l)
             \/ ReleaseEarly(l) \/ Finish(l) \/ DriverThrows(l) \/ Crash(l)
      PROVE  PInv'
  <2>1. CASE setting.driver = "memory"
    <3>1. Newcomers'
      BY <1>3, <2>1 DEF Newcomers
    <3>2. OneStep'
      BY <1>4, <1>7, <2>1, OneStepKept DEF PInv
    <3> QED BY <1>1, <3>1, <3>2 DEF PInv
  <2>2. CASE setting.driver # "memory"
    <3>1. Newcomers'
      <4>1. CASE spent'.reacquires = 0
        BY <1>2, <1>7, <2>2, <4>1, NewcomerSteps
      <4>2. CASE spent'.reacquires # 0
        BY <4>2 DEF Newcomers
      <4> QED BY <4>1, <4>2
    <3>2. OneStep'
      BY <1>3, <2>2 DEF OneStep
    <3> QED BY <1>1, <3>1, <3>2 DEF PInv
  <2> QED BY <2>1, <2>2
<1> QED BY <1>5, <1>6, <1>7 DEF Next

(* The invariant holds at the start.                                          *)
LEMMA InitInv ==
  ASSUME Init
  PROVE  PInv
<1>1. TypeOK
  BY InitTypes
<1>2. \A l \in Lock : locks[l].op = "none" /\ locks[l].beat = "none" /\ record.owner # l
  BY LockAssumption DEF Init, Free
<1> QED BY <1>1, <1>2 DEF PInv, OneStep, Newcomers, Newcomer

(* The three drivers implement Lease: at most one holder, which only its own  *)
(* release, its deadline or forceRelease removes, and which alone moves its   *)
(* deadline; provided that a lock of sqlite or redis is acquired once.        *)
THEOREM LeaseKept ==
  ASSUME AcquiredOnce
  PROVE  Spec => KeepsPromise
<1>1. Init => Promise!Init
  BY DEF Init, Promise!Init, Holder, Expired, Free, Granting, Believing
<1>2. Init => PInv
  BY InitInv
<1>3. PInv /\ [Next]_vars => PInv'
  BY NextInv
<1>4. PInv /\ [Next]_vars => [Promise!Next]_Promise!vars
  <2>1. PInv => Single
    <3>1. PInv => spent.reacquires \in 0..setting.reacquires /\ setting \in Settings
      BY DEF PInv, TypeOK
    <3> QED BY <3>1 DEF AcquiredOnce, Single
  <2> QED BY <2>1, NextMaps
<1> QED BY <1>1, <1>2, <1>3, <1>4, PTL DEF Spec, KeepsPromise, Promise!Spec
-----------------------------------------------------------------------------
(* What a step of one lock is. *)

Own(l) ==
  \/ Begin(l) \/ Driven(l) \/ Reacquire(l) \/ BeatFails(l)
  \/ ReleaseEarly(l) \/ Finish(l) \/ DriverThrows(l) \/ Crash(l)

(* It moves no other lock.                                                    *)
LEMMA OthersStay ==
  ASSUME TypeOK, NEW l \in Lock, Own(l)
  PROVE  \A k \in Lock \ {l} : locks'[k] = locks[k]
<1>1. \E new : Moves(l, new)
  BY DEF Own, Driven, Acquire, Begin, Granted, Refused, Retry, Reacquire, Beat, BeatFails,
         BeatReply, ReleaseEarly, Finish, Release, DriverThrows, Crash, Memory, RedisSet,
         RedisGet, RedisExpire, SqlitePurge, SqliteSelect, SqliteUpdate, SqliteInsert, Steps
<1> QED BY <1>1 DEF Moves, TypeOK

(* What a section that ends, or whose lock is lost, looks like.               *)
LEMMA EndedFields ==
  ASSUME NEW l \in Lock, locks \in [Lock -> LockState]
  PROVE  /\ Ended(l) \in LockState /\ Lost(l) \in LockState
         /\ Ended(l).stage = IF locks[l].held THEN "releasing" ELSE "done"
         /\ Lost(l).stage = IF locks[l].held THEN "releasing" ELSE "stray"
         /\ \A e \in {Ended(l), Lost(l)} :
              /\ e.op = locks[l].op /\ e.beat = "none" /\ e.beatIn = 0 /\ e.held = FALSE
              /\ e.lostFor = 0 /\ e.refresh = locks[l].refresh /\ e.age = locks[l].age
<1>1. Ended(l) \in LockState /\ Lost(l) \in LockState /\ locks[l] \in LockState
  BY EndedType
<1>2. /\ Ended(l).stage = IF locks[l].held THEN "releasing" ELSE "done"
      /\ Ended(l).op = locks[l].op /\ Ended(l).beat = "none" /\ Ended(l).beatIn = 0
      /\ Ended(l).held = FALSE /\ Ended(l).lostFor = 0 /\ Ended(l).refresh = locks[l].refresh
      /\ Ended(l).age = locks[l].age
  BY <1>1 DEF Ended, LockState
<1>3. /\ Lost(l).stage = IF locks[l].held THEN "releasing" ELSE "stray"
      /\ Lost(l).op = Ended(l).op /\ Lost(l).beat = Ended(l).beat
      /\ Lost(l).beatIn = Ended(l).beatIn /\ Lost(l).held = Ended(l).held
      /\ Lost(l).lostFor = Ended(l).lostFor /\ Lost(l).refresh = Ended(l).refresh
      /\ Lost(l).age = Ended(l).age
  BY <1>1 DEF Lost, LockState
<1> QED BY <1>1, <1>2, <1>3

-----------------------------------------------------------------------------
(* A lost lock is noticed.  The time a section has run on without its record  *)
(* and the time to its next refresh add up to no more than Every, until the   *)
(* refresh has been refused or has failed; then nothing else comes first.     *)

Noticing(l) ==
  /\ locks[l].lostFor <= Every
  /\ IF locks[l].stage = "running" /\ locks[l].refresh
     THEN locks[l].beat \in {"none", "kept"} => locks[l].lostFor + locks[l].beatIn <= Every
     ELSE locks[l].lostFor = 0
NoticeInv == spent.pauses = 0 => \A l \in Lock : Noticing(l)

(* A step of one lock.                                                        *)
LEMMA OwnNoticing ==
  ASSUME TypeOK, NEW l \in Lock, Noticing(l), Own(l)
  PROVE  Noticing(l)'
<1>1. /\ locks \in [Lock -> LockState] /\ locks[l] \in LockState
      /\ locks[l].beatIn \in 0..Every /\ Every \in Nat
  BY LockAssumption DEF TypeOK, LockState
<1>2. ASSUME NEW new, Moves(l, new), new.lostFor <= Every,
             IF new.stage = "running" /\ new.refresh
             THEN new.beat \in {"none", "kept"} => new.lostFor + new.beatIn <= Every
             ELSE new.lostFor = 0
      PROVE  Noticing(l)'
  <2>1. locks'[l] = new
    BY <1>1, <1>2 DEF Moves
  <2> QED BY <1>2, <2>1 DEF Noticing
<1>3. /\ Ended(l) \in LockState /\ Ended(l).stage \in {"releasing", "done"}
      /\ Ended(l).lostFor = 0
      /\ Lost(l) \in LockState /\ Lost(l).stage \in {"releasing", "stray"}
      /\ Lost(l).lostFor = 0
  BY <1>1, EndedFields
<1>4. CASE Begin(l)
  <2>1. ASSUME NEW refresh \in BOOLEAN, NEW patience \in {0, Timeout},
               Moves(l, [locks[l] EXCEPT !.stage = "acquiring", !.op = "start",
                                         !.refresh = refresh, !.patience = patience])
        PROVE  Noticing(l)'
    BY <1>1, <1>2, <1>4, <2>1 DEF Begin, Noticing, LockState
  <2> QED BY <1>4, <2>1 DEF Begin
<1>5. CASE Acquire(l)
  <2>1. PICK op : Steps(l, op)
    BY <1>5 DEF Acquire, Memory, RedisSet, RedisGet, RedisExpire, SqlitePurge, SqliteSelect,
                SqliteUpdate, SqliteInsert
  <2> QED BY <1>1, <1>2, <2>1 DEF Steps, Noticing, LockState
<1>6. CASE Granted(l)
  <2>1. CASE locks[l].stage = "acquiring"
    <3>1. PICK first \in 0..Every :
            Moves(l, [locks[l] EXCEPT !.op = "none", !.held = TRUE, !.stage = "running",
                                      !.beatIn = first, !.patience = 0])
      BY <1>6, <2>1, Bounds DEF Granted
    <3>2. locks[l].lostFor = 0
      BY <2>1 DEF Noticing
    <3> DEFINE new == [locks[l] EXCEPT !.op = "none", !.held = TRUE, !.stage = "running",
                                       !.beatIn = first, !.patience = 0]
    <3>3. new.lostFor = 0 /\ new.beatIn = first /\ new.stage = "running" /\ Moves(l, new)
      BY <1>1, <3>1, <3>2 DEF LockState
    <3>4. 0 <= Every /\ 0 + first <= Every
      BY <1>1
    <3> HIDE DEF new
    <3> QED BY <1>2, <3>3, <3>4
  <2>2. CASE locks[l].stage # "acquiring"
    <3> DEFINE new == [locks[l] EXCEPT !.op = "none", !.held = TRUE]
    <3>1. /\ new.stage = locks[l].stage /\ new.refresh = locks[l].refresh
          /\ new.beat = locks[l].beat /\ new.beatIn = locks[l].beatIn
          /\ new.lostFor = locks[l].lostFor
      BY <1>1 DEF LockState
    <3>2. Moves(l, new)
      BY <1>6, <2>2 DEF Granted
    <3> HIDE DEF new
    <3> QED BY <1>2, <3>1, <3>2 DEF Noticing
  <2> QED BY <2>1, <2>2
<1>7. CASE Refused(l) \/ Retry(l) \/ Reacquire(l)
  BY <1>1, <1>2, <1>7 DEF Refused, Retry, Reacquire, Noticing, LockState
<1>8. CASE Beat(l)
  <2>1. CASE Moves(l, Lost(l))
    BY <1>1, <1>2, <1>3, <2>1
  <2>2. CASE Moves(l, [locks[l] EXCEPT !.beat = IF Extends(l) THEN "kept" ELSE "gone",
                                       !.beatIn = Every,
                                       !.lostFor = IF Owns(l) THEN 0 ELSE @])
    <3> DEFINE new == [locks[l] EXCEPT !.beat = IF Extends(l) THEN "kept" ELSE "gone",
                                       !.beatIn = Every,
                                       !.lostFor = IF Owns(l) THEN 0 ELSE @]
    <3>1. /\ new.lostFor = IF Owns(l) THEN 0 ELSE locks[l].lostFor
          /\ new.beatIn = Every /\ new.beat = IF Owns(l) THEN "kept" ELSE "gone"
          /\ new.stage = "running" /\ new.refresh = TRUE
      BY <1>1, <1>8 DEF Beat, Extends, LockState
    <3>2. locks[l].lostFor <= Every
      BY DEF Noticing
    <3> HIDE DEF new
    <3>3. Moves(l, new)
      BY <2>2 DEF new
    <3> QED BY <1>1, <1>2, <3>1, <3>2, <3>3
  <2> QED BY <1>8, <2>1, <2>2 DEF Beat
<1>9. CASE BeatFails(l)
  BY <1>1, <1>2, <1>9 DEF BeatFails, Noticing, LockState
<1>10. CASE BeatReply(l)
  <2>1. CASE locks[l].beat = "kept"
    BY <1>1, <1>2, <1>10, <2>1 DEF BeatReply, Noticing, LockState
  <2>2. CASE locks[l].beat \in {"error", "gone"}
    <3>1. Moves(l, Lost(l)) \/ Moves(l, [Lost(l) EXCEPT !.stage = "stray"])
      BY <1>10, <2>2 DEF BeatReply
    <3>2. /\ [Lost(l) EXCEPT !.stage = "stray"].stage = "stray"
          /\ [Lost(l) EXCEPT !.stage = "stray"].lostFor = 0
      BY <1>3 DEF LockState
    <3>3. CASE Moves(l, Lost(l))
      BY <1>1, <1>2, <1>3, <3>3
    <3>4. CASE Moves(l, [Lost(l) EXCEPT !.stage = "stray"])
      <4> DEFINE new == [Lost(l) EXCEPT !.stage = "stray"]
      <4>1. Moves(l, new) /\ new.stage = "stray" /\ new.lostFor = 0
        BY <3>2, <3>4
      <4> HIDE DEF new
      <4> QED BY <1>1, <1>2, <4>1
    <3> QED BY <3>1, <3>3, <3>4
  <2> QED BY <1>1, <1>10, <2>1, <2>2 DEF BeatReply, LockState
<1>11. CASE ReleaseEarly(l) \/ Release(l)
  BY <1>1, <1>2, <1>11 DEF ReleaseEarly, Release, Noticing, LockState
<1>12. CASE Finish(l)
  BY <1>1, <1>2, <1>3, <1>12 DEF Finish, Noticing, LockState
<1>13. CASE DriverThrows(l)
  <2> DEFINE over == [Ended(l) EXCEPT !.op = "none", !.age = 0, !.patience = 0,
                        !.stage = CASE locks[l].stage = "running" -> @
                                    [] locks[l].stage = "releasing" -> "releasing"
                                    [] OTHER -> "done"]
  <2>1. over.lostFor = 0 /\ over.stage \in {"releasing", "done"}
    BY <1>3 DEF LockState
  <2>2. CASE Moves(l, over)
    <3> HIDE DEF over
    <3> QED BY <1>1, <1>2, <2>1, <2>2
  <2>3. CASE locks[l].stage = "releasing" /\ Moves(l, [locks[l] EXCEPT !.stage = "done"])
    BY <1>1, <1>2, <2>3 DEF Noticing, LockState
  <2> QED BY <1>13, <2>2, <2>3 DEF DriverThrows
<1>14. CASE Crash(l)
  <2> DEFINE new == [Ended(l) EXCEPT !.stage = "crashed", !.op = "none", !.age = 0,
                                     !.patience = 0]
  <2>1. Moves(l, new) /\ new.stage = "crashed" /\ new.lostFor = 0
    BY <1>3, <1>14 DEF Crash, LockState
  <2> HIDE DEF new
  <2> QED BY <1>1, <1>2, <2>1
<1> QED BY <1>4, <1>5, <1>6, <1>7, <1>8, <1>9, <1>10, <1>11, <1>12, <1>13, <1>14, Zenon
        DEF Own, Driven

(* A tick that is no pause finds no refresh due.                              *)
LEMMA TickNoticing ==
  ASSUME TypeOK, NEW l \in Lock, Noticing(l), Tick, ~Spends("pauses")
  PROVE  Noticing(l)'
<1>1. /\ locks[l] \in LockState /\ locks'[l] = Aged(l) /\ ~Due(l)
      /\ locks[l].beatIn \in 0..Every /\ locks[l].lostFor \in 0..Every+1 /\ Every \in Nat
  BY LockAssumption DEF TypeOK, Tick, LockState
<1>2. /\ Aged(l).stage = locks[l].stage /\ Aged(l).refresh = locks[l].refresh
      /\ Aged(l).beat = locks[l].beat /\ Aged(l).beatIn = Less(locks[l].beatIn)
      /\ Aged(l).lostFor = IF Protected(l) /\ ~Owns(l)
                           THEN UpTo(locks[l].lostFor, Every + 1) ELSE 0
  BY <1>1 DEF Aged, LockState
<1>3. CASE Protected(l)
  <2>1. locks[l].beatIn # 0 /\ locks[l].beat = "none"
    BY <1>1, <1>3 DEF Due, Protected
  <2>2. locks[l].lostFor + locks[l].beatIn <= Every
    BY <1>3, <2>1 DEF Noticing, Protected
  <2>3. /\ Aged(l).lostFor + Aged(l).beatIn <= Every /\ Aged(l).lostFor <= Every
        /\ Aged(l).lostFor \in Nat
    <3>1. Aged(l).beatIn = locks[l].beatIn - 1
      BY <1>1, <1>2, <2>1 DEF Less
    <3>2. Aged(l).lostFor \in {0, locks[l].lostFor + 1}
      BY <1>1, <1>2, <2>1, <2>2 DEF UpTo
    <3> QED BY <1>1, <2>1, <2>2, <3>1, <3>2
  <2> QED BY <1>1, <1>2, <1>3, <2>3 DEF Noticing, Protected
<1>4. CASE ~Protected(l)
  BY <1>1, <1>2, <1>4, LockAssumption DEF Noticing, Less
<1> QED BY <1>3, <1>4

(* A section that refreshes and lost the key, whatever took it, runs on        *)
(* unaware for no longer than the time to its next refresh, as long as no      *)
(* process pauses (ManagedLock's interval and refresh).                        *)
THEOREM LossesNoticed == Spec => []LossNoticed
<1>1. Init => NoticeInv
  BY LockAssumption DEF Init, NoticeInv, Noticing
<1>2. TypeOK /\ NoticeInv /\ [Next]_vars => NoticeInv'
  <2> SUFFICES ASSUME TypeOK, NoticeInv, [Next]_vars, spent'.pauses = 0, NEW k \in Lock
               PROVE  Noticing(k)'
    BY DEF NoticeInv
  <2>1. Noticing(k) /\ ~Spends("pauses")
    BY NothingSpent DEF NoticeInv
  <2>2. CASE UNCHANGED vars \/ ForceRelease
    BY <2>1, <2>2 DEF vars, ForceRelease, Noticing
  <2>3. CASE Tick
    BY <2>1, <2>3, TickNoticing
  <2>4. CASE \E l \in Lock : Own(l)
    <3>1. PICK l \in Lock : Own(l)
      BY <2>4
    <3>2. k # l => locks'[k] = locks[k]
      BY <3>1, OthersStay
    <3> QED BY <2>1, <3>1, <3>2, OwnNoticing DEF Noticing
  <2> QED BY <2>2, <2>3, <2>4 DEF Next, Own
<1>3. NoticeInv => LossNoticed
  BY DEF NoticeInv, Noticing, LossNoticed
<1> QED BY <1>1, <1>2, <1>3, InitTypes, NextTypes, PTL DEF Spec
-----------------------------------------------------------------------------
(* Nothing is left held.  A lock owns the record only between the grant of    *)
(* its acquire and its own release: while it runs and was not told otherwise, *)
(* or while it is being released.                                             *)

Spare(l) ==
  /\ locks[l].op # "none" => locks[l].stage = "acquiring"
  /\ locks[l].beat # "none" => locks[l].stage = "running"
  /\ \/ locks[l].stage \in {"idle", "polling", "done", "stray"}
     \/ locks[l].stage = "acquiring" /\ locks[l].op # "yes"
     \/ locks[l].stage = "running" /\ (locks[l].beat = "gone" \/ ~locks[l].held)
     => ~Owns(l)
Clean == spent.errors = 0 /\ spent.reacquires = 0
SpareInv == Clean => \A l \in Lock : Spare(l)

(* As long as no lock is acquired again none finds the record its own.        *)
LEMMA NoneFindsItsOwn ==
  ASSUME PInv, spent.reacquires = 0, NEW l \in Lock
  PROVE  locks[l].op # "own"
BY DEF PInv, OneStep, Newcomers, Newcomer

(* A lock that does not own the record is not given it by others.             *)
LEMMA NotGiven ==
  ASSUME PInv, spent.reacquires = 0, NEW l \in Lock, Own(l),
         NEW k \in Lock \ {l}, ~Owns(k)
  PROVE  ~Owns(k)'
<1>1. record \in RecordType /\ k # Nobody /\ locks[l].op # "own"
  BY LockAssumption, NoneFindsItsOwn DEF PInv, TypeOK, RecordType
<1>2. CASE UNCHANGED record
  BY <1>2 DEF Owns, Expired
<1>3. CASE record'.owner \in {l, Nobody}
  BY <1>1, <1>3 DEF Owns
<1>4. CASE Acquire(l)
  <2>1. UNCHANGED record \/ record'.owner \in {l, Nobody}
    BY <1>1, <1>4 DEF Acquire, Memory, RedisSet, RedisGet, RedisExpire, SqlitePurge,
       SqliteSelect, SqliteUpdate, SqliteInsert, Free
  <2> QED BY <1>2, <1>3, <2>1
<1>5. CASE Beat(l)
  <2>1. UNCHANGED record \/ (record.owner = l /\ record' = [record EXCEPT !.left = Ttl])
    BY <1>5 DEF Beat, Extends, Owns
  <2>2. record' = [record EXCEPT !.left = Ttl] => record'.owner = record.owner
    BY <1>1 DEF RecordType
  <2> QED BY <1>2, <1>3, <2>1, <2>2
<1>6. CASE ReleaseEarly(l) \/ Release(l)
  <2>1. UNCHANGED record \/ record'.owner = Nobody
    BY <1>6 DEF ReleaseEarly, Release, Released, Free
  <2> QED BY <1>2, <1>3, <2>1
<1>7. CASE \/ Begin(l) \/ Granted(l) \/ Refused(l) \/ Retry(l) \/ BeatReply(l) \/ Reacquire(l)
           \/ BeatFails(l) \/ Finish(l) \/ DriverThrows(l) \/ Crash(l)
  <2>1. UNCHANGED record
    BY <1>7 DEF Begin, Granted, Refused, Retry, BeatReply, Reacquire, BeatFails, Finish,
       DriverThrows, Crash
  <2> QED BY <1>2, <2>1
<1> QED BY <1>4, <1>5, <1>6, <1>7 DEF Own, Driven

(* A lock's own step.                                                         *)
LEMMA OwnSpare ==
  ASSUME PInv, spent.reacquires = 0, NEW l \in Lock, Spare(l), Own(l),
         ~Spends("errors"), ~Spends("reacquires")
  PROVE  Spare(l)'
<1>1. /\ locks \in [Lock -> LockState] /\ locks[l] \in LockState
      /\ record \in RecordType /\ l # Nobody /\ locks[l].op # "own"
  BY LockAssumption, NoneFindsItsOwn DEF PInv, TypeOK, RecordType
<1>2. ASSUME NEW new, Moves(l, new),
             new.op # "none" => new.stage = "acquiring",
             new.beat # "none" => new.stage = "running",
             \/ new.stage \in {"idle", "polling", "done", "stray"}
             \/ new.stage = "acquiring" /\ new.op # "yes"
             \/ new.stage = "running" /\ (new.beat = "gone" \/ ~new.held)
             => ~Owns(l)'
      PROVE  Spare(l)'
  <2>1. locks'[l] = new
    BY <1>1, <1>2 DEF Moves
  <2> QED BY <1>2, <2>1 DEF Spare
<1>3. /\ Ended(l) \in LockState /\ Ended(l).beat = "none" /\ Ended(l).op = locks[l].op
      /\ Ended(l).stage = IF locks[l].held THEN "releasing" ELSE "done"
      /\ Lost(l) \in LockState /\ Lost(l).beat = "none" /\ Lost(l).op = locks[l].op
      /\ Lost(l).stage = IF locks[l].held THEN "releasing" ELSE "stray"
  BY <1>1, EndedFields
<1>4. UNCHANGED record => (Owns(l)' <=> Owns(l))
  BY DEF Owns, Expired
<1>5. record' = Released(l) => ~Owns(l)'
  BY <1>1 DEF Released, Free, Owns
<1>6. CASE Begin(l)
  <2>1. PICK refresh \in BOOLEAN, patience \in {0, Timeout} :
               Moves(l, [locks[l] EXCEPT !.stage = "acquiring", !.op = "start",
                                         !.refresh = refresh, !.patience = patience])
    BY <1>6 DEF Begin
  <2> DEFINE new == [locks[l] EXCEPT !.stage = "acquiring", !.op = "start",
                                     !.refresh = refresh, !.patience = patience]
  <2>2. new.stage = "acquiring" /\ new.op = "start" /\ new.beat = locks[l].beat
    BY <1>1 DEF LockState
  <2>3. locks[l].beat = "none" /\ ~Owns(l)'
    BY <1>4, <1>6 DEF Begin, Spare
  <2> HIDE DEF new
  <2>4. Moves(l, new)
    BY <2>1 DEF new
  <2> QED BY <1>2, <2>2, <2>3, <2>4
<1>7. CASE Acquire(l)
  <2>1. PICK op \in Command \ {"none"} : Steps(l, op) /\ (op = "yes" \/ UNCHANGED record
                                                     \/ record'.owner = Nobody)
    BY <1>1, <1>7 DEF Acquire, Memory, RedisSet, RedisGet, RedisExpire, SqlitePurge,
       SqliteSelect, SqliteUpdate, SqliteInsert, Free, Command
  <2>2. locks[l].op \notin {"none", "yes"}
    BY <1>7 DEF Acquire, Memory, RedisSet, RedisGet, RedisExpire, SqlitePurge, SqliteSelect,
       SqliteUpdate, SqliteInsert
  <2>3. locks[l].stage = "acquiring" /\ locks[l].beat = "none" /\ ~Owns(l)
    BY <2>2 DEF Spare
  <2>4. op = "yes" \/ ~Owns(l)'
    BY <1>1, <1>4, <2>1, <2>3 DEF Owns
  <2> DEFINE new == [locks[l] EXCEPT !.op = op]
  <2>5. new.stage = locks[l].stage /\ new.beat = locks[l].beat /\ new.op = op /\ Moves(l, new)
    BY <1>1, <2>1 DEF Steps, LockState
  <2> HIDE DEF new
  <2> QED BY <1>2, <2>3, <2>4, <2>5
<1>8. CASE Granted(l)
  <2>1. locks[l].stage = "acquiring" /\ locks[l].beat = "none"
    BY <1>8 DEF Granted, Spare
  <2> DEFINE new == [locks[l] EXCEPT !.op = "none", !.held = TRUE, !.stage = "running",
                                     !.beatIn = IF locks[l].refresh THEN Every ELSE 0,
                                     !.patience = 0]
  <2>2. /\ new.stage = "running" /\ new.held = TRUE /\ new.op = "none"
        /\ new.beat = locks[l].beat /\ Moves(l, new)
    BY <1>1, <1>8, <2>1 DEF Granted, LockState
  <2> HIDE DEF new
  <2> QED BY <1>2, <2>1, <2>2
<1>9. CASE Refused(l)
  <2>1. locks[l].stage = "acquiring" /\ locks[l].beat = "none" /\ ~Owns(l)'
    BY <1>4, <1>9 DEF Refused, Spare
  <2> DEFINE new == [locks[l] EXCEPT !.op = "none", !.held = FALSE,
               !.stage = IF @ # "acquiring" THEN @
                         ELSE IF locks[l].patience = 0 THEN "done" ELSE "polling"]
  <2>2. new.stage # "running" /\ new.op = "none" /\ new.beat = locks[l].beat /\ Moves(l, new)
    BY <1>1, <1>9, <2>1 DEF Refused, LockState
  <2> HIDE DEF new
  <2> QED BY <1>2, <2>1, <2>2
<1>10. CASE Retry(l)
  <2>1. locks[l].beat = "none" /\ ~Owns(l)'
    BY <1>4, <1>10 DEF Retry, Spare
  <2> DEFINE new == [locks[l] EXCEPT !.stage = "acquiring", !.op = "start", !.age = 0]
  <2>2. /\ new.stage = "acquiring" /\ new.op = "start" /\ new.beat = locks[l].beat
        /\ Moves(l, new)
    BY <1>1, <1>10 DEF Retry, LockState
  <2> HIDE DEF new
  <2> QED BY <1>2, <2>1, <2>2
<1>11. ASSUME Moves(l, Lost(l)), UNCHANGED record, locks[l].stage = "running"
       PROVE  Spare(l)'
  <2>1. locks[l].op = "none" /\ (locks[l].held \/ ~Owns(l)')
    BY <1>4, <1>11 DEF Spare
  <2> QED BY <1>2, <1>3, <1>11, <2>1
<1>12. CASE Beat(l)
  <2>1. CASE locks[l].held
    <3> DEFINE new == [locks[l] EXCEPT !.beat = IF Extends(l) THEN "kept" ELSE "gone",
                                       !.beatIn = Every,
                                       !.lostFor = IF Owns(l) THEN 0 ELSE @]
    <3>1. /\ new.beat = IF Owns(l) THEN "kept" ELSE "gone"
          /\ new.stage = "running" /\ new.held = TRUE /\ new.op = locks[l].op
      BY <1>1, <1>12, <2>1 DEF Beat, Extends, LockState
    <3>2. Moves(l, new)
      BY <1>12, <2>1 DEF Beat
    <3>3. Owns(l) \/ ~Owns(l)'
      BY <1>4, <1>12, <2>1 DEF Beat, Extends
    <3>4. locks[l].op = "none"
      BY <1>12 DEF Beat, Spare
    <3> HIDE DEF new
    <3> QED BY <1>2, <3>1, <3>2, <3>3, <3>4
  <2>2. CASE ~locks[l].held
    BY <1>11, <1>12, <2>2 DEF Beat
  <2> QED BY <2>1, <2>2
<1>13. CASE BeatReply(l)
  <2>1. locks[l].stage = "running" /\ locks[l].op = "none" /\ UNCHANGED record
    BY <1>13 DEF BeatReply, Spare
  <2>2. CASE locks[l].beat = "kept"
    <3> DEFINE new == [locks[l] EXCEPT !.beat = "none"]
    <3>1. /\ new.beat = "none" /\ new.stage = "running" /\ new.held = locks[l].held
          /\ new.op = locks[l].op /\ Moves(l, new)
      BY <1>1, <1>13, <2>1, <2>2 DEF BeatReply, LockState
    <3>2. locks[l].held \/ ~Owns(l)'
      BY <1>4, <2>1 DEF Spare
    <3> HIDE DEF new
    <3> QED BY <1>2, <2>1, <3>1, <3>2
  <2>3. CASE locks[l].beat = "error"
    BY <1>11, <1>13, <2>1, <2>3 DEF BeatReply
  <2>4. CASE locks[l].beat = "gone"
    <3> DEFINE new == [Lost(l) EXCEPT !.stage = "stray"]
    <3>1. new.beat = "none" /\ new.stage = "stray" /\ new.op = locks[l].op /\ Moves(l, new)
      BY <1>3, <1>13, <2>4 DEF BeatReply, LockState
    <3>2. ~Owns(l)'
      BY <1>4, <2>1, <2>4 DEF Spare
    <3> HIDE DEF new
    <3> QED BY <1>2, <2>1, <3>1, <3>2
  <2> QED BY <1>1, <1>13, <2>2, <2>3, <2>4 DEF BeatReply, LockState
<1>14. CASE ReleaseEarly(l)
  <2> DEFINE new == [locks[l] EXCEPT !.held = FALSE]
  <2>1. /\ new.op = locks[l].op /\ new.beat = locks[l].beat /\ new.stage = locks[l].stage
        /\ Moves(l, new)
    BY <1>1, <1>14 DEF ReleaseEarly, LockState
  <2>2. ~Owns(l)' /\ locks[l].stage # "acquiring"
    BY <1>5, <1>14 DEF ReleaseEarly
  <2> HIDE DEF new
  <2> QED BY <1>2, <2>1, <2>2 DEF Spare
<1>15. CASE Finish(l)
  <2>1. UNCHANGED record /\ locks[l].op = "none"
    BY <1>15 DEF Finish
  <2>2. CASE locks[l].stage = "running" /\ Moves(l, [Ended(l) EXCEPT !.age = 0])
    <3> DEFINE new == [Ended(l) EXCEPT !.age = 0]
    <3>1. /\ new.op = "none" /\ new.beat = "none"
          /\ new.stage = IF locks[l].held THEN "releasing" ELSE "done"
      BY <1>3, <2>1 DEF LockState
    <3>2. locks[l].held \/ ~Owns(l)'
      BY <1>4, <2>1, <2>2 DEF Spare
    <3>3. Moves(l, new)
      BY <2>2
    <3> HIDE DEF new
    <3> QED BY <1>2, <3>1, <3>2, <3>3
  <2>3. CASE locks[l].stage = "stray" /\ Moves(l, [locks[l] EXCEPT !.stage = "done"])
    <3>1. locks[l].beat = "none" /\ ~Owns(l)'
      BY <1>4, <2>1, <2>3 DEF Spare
    <3> QED BY <1>1, <1>2, <2>1, <2>3, <3>1 DEF LockState
  <2> QED BY <1>15, <2>2, <2>3 DEF Finish
<1>16. CASE Release(l)
  <2> DEFINE new == [locks[l] EXCEPT !.stage = IF locks[l].aborted THEN "stray" ELSE "done"]
  <2>1. /\ new.op = locks[l].op /\ new.beat = locks[l].beat /\ new.stage \in {"stray", "done"}
        /\ Moves(l, new)
    BY <1>1, <1>16 DEF Release, LockState
  <2>2. locks[l].op = "none" /\ locks[l].beat = "none" /\ ~Owns(l)'
    BY <1>5, <1>16 DEF Release, Spare
  <2> HIDE DEF new
  <2> QED BY <1>2, <2>1, <2>2
<1>17. CASE Crash(l)
  <2> DEFINE new == [Ended(l) EXCEPT !.stage = "crashed", !.op = "none", !.age = 0,
                                     !.patience = 0]
  <2>1. new.stage = "crashed" /\ new.op = "none" /\ new.beat = "none" /\ Moves(l, new)
    BY <1>3, <1>17 DEF Crash, LockState
  <2> HIDE DEF new
  <2> QED BY <1>2, <2>1
<1>18. ~Reacquire(l) /\ ~BeatFails(l) /\ ~DriverThrows(l)
  BY DEF Reacquire, BeatFails, DriverThrows
<1> QED BY <1>6, <1>7, <1>8, <1>9, <1>10, <1>12, <1>13, <1>14, <1>15, <1>16, <1>17, <1>18
        DEF Own, Driven

(* Time and forceRelease give nobody the record.                              *)
LEMMA ClockSpare ==
  ASSUME TypeOK, NEW l \in Lock, Spare(l), Tick \/ ForceRelease
  PROVE  Spare(l)'
<1>1. locks[l] \in LockState /\ record \in RecordType /\ l # Nobody
  BY LockAssumption DEF TypeOK, RecordType
<1>2. /\ locks'[l].op = locks[l].op /\ locks'[l].stage = locks[l].stage
      /\ locks'[l].beat = locks[l].beat /\ locks'[l].held = locks[l].held
  <2>1. /\ Aged(l).op = locks[l].op /\ Aged(l).stage = locks[l].stage
        /\ Aged(l).beat = locks[l].beat /\ Aged(l).held = locks[l].held
    BY <1>1 DEF Aged, LockState
  <2>2. CASE Tick
    BY <2>1, <2>2 DEF Tick
  <2>3. CASE ForceRelease
    BY <2>3 DEF ForceRelease
  <2> QED BY <2>2, <2>3
<1>3. ~Owns(l) => ~Owns(l)'
  <2>1. record.left \in Nat
    BY <1>1, LockAssumption DEF RecordType
  <2> QED BY <1>1, <2>1 DEF Tick, ForceRelease, Elapsed, Less, Free, Owns, Expired, RecordType
<1> QED BY <1>2, <1>3 DEF Spare

(* try and block always release the lock: unless the driver throws, or the     *)
(* callback acquires it again, a section that is over does not own the record, *)
(* whatever the section did, however long it paused and whoever crashed.       *)
THEOREM NothingStaysHeld == Spec => []NothingLeftHeld
<1>1. Init => PInv /\ SpareInv
  BY InitInv, LockAssumption DEF Init, SpareInv, Spare, Owns, Free
<1>2. PInv /\ SpareInv /\ [Next]_vars => PInv' /\ SpareInv'
  <2> SUFFICES ASSUME PInv, SpareInv, [Next]_vars PROVE SpareInv'
    BY NextInv
  <2> SUFFICES ASSUME spent'.errors = 0, spent'.reacquires = 0, NEW k \in Lock
               PROVE  Spare(k)'
    BY DEF SpareInv, Clean
  <2>1. TypeOK
    BY DEF PInv
  <2>2. /\ spent.errors = 0 /\ ~Spends("errors")
        /\ spent.reacquires = 0 /\ ~Spends("reacquires")
    BY <2>1, NothingSpent
  <2>3. \A l \in Lock : Spare(l)
    BY <2>2 DEF SpareInv, Clean
  <2>4. CASE UNCHANGED vars
    BY <2>3, <2>4 DEF vars, Spare, Owns, Expired
  <2>5. CASE Tick \/ ForceRelease
    BY <2>1, <2>3, <2>5, ClockSpare
  <2>6. CASE \E l \in Lock : Own(l)
    <3>1. PICK l \in Lock : Own(l)
      BY <2>6
    <3>2. CASE k = l
      BY <2>2, <2>3, <3>1, <3>2, OwnSpare
    <3>3. CASE k # l
      BY <2>1, <2>2, <2>3, <3>1, <3>3, OthersStay, NotGiven DEF Spare
    <3> QED BY <3>2, <3>3
  <2> QED BY <2>4, <2>5, <2>6 DEF Next, Own
<1>3. SpareInv => NothingLeftHeld
  BY DEF SpareInv, Clean, Spare, NothingLeftHeld
<1> QED BY <1>1, <1>2, <1>3, PTL DEF Spec
-----------------------------------------------------------------------------
(* Who trusts its lock owns the record.  As long as nobody pauses and nobody  *)
(* forces, no time passes within an acquire, so what its commands found still *)
(* holds at the next; the record of a section that refreshes lives TTL - Every *)
(* past its next refresh, that of one that does not as long as it believes.   *)

(* No time has passed since a pending acquire began.                          *)
Fresh(n) == n.op # "none" \/ n.stage = "idle" => n.age = 0

(* What the commands of a pending acquire found still holds.                  *)
Founded(l, n, rec) ==
  /\ n.op = "purged" /\ rec.owner = l => rec.left > 0
  /\ n.op = "own" /\ n.stage \in {"acquiring", "running"} => rec.owner = l /\ rec.left > 0
  /\ n.op = "yes" /\ n.stage \in {"acquiring", "running"} => rec.owner = l /\ rec.left = Ttl

(* A section that was told it holds the lock has the record, for long enough. *)
Backed(l, n, rec) ==
  n.stage = "running" /\ n.held =>
    /\ n.refresh => /\ rec.owner = l
                    /\ rec.left + Every >= Ttl + (IF n.beat = "error" THEN 0 ELSE n.beatIn)
    /\ ~n.refresh /\ n.op = "none" /\ n.age < Ttl => rec.owner = l /\ rec.left + n.age >= Ttl

Timely(l) ==
  Fresh(locks[l]) /\ Founded(l, locks[l], record) /\ Backed(l, locks[l], record)
TimelyInv == Prompt => \A l \in Lock : Timely(l)

(* acquire() and extend() shorten nobody's record.                            *)
LEMMA OwnerKept ==
  ASSUME TypeOK, NEW k \in Lock, Fresh(locks[k]), Acquire(k) \/ Beat(k),
         NEW l \in Lock, Owns(l)
  PROVE  record'.owner = l /\ record'.left \in {record.left, Ttl}
<1>1. /\ record \in RecordType /\ Nobody # l /\ record.owner = l /\ record.left # 0
      /\ locks[k] \in LockState /\ Ttl \in Nat
  BY LockAssumption DEF TypeOK, RecordType, Owns, Expired
<1>2. ASSUME NEW d, record' = [record EXCEPT !.left = d]
      PROVE  record'.owner = l /\ record'.left = d
  BY <1>1, <1>2 DEF RecordType
<1>3. CASE UNCHANGED record
  BY <1>1, <1>3
<1>4. CASE Memory(k)
  <2>1. UNCHANGED record \/ (k = l /\ record' = [owner |-> l, left |-> Ttl])
    BY <1>1, <1>4 DEF Memory, Expired
  <2> QED BY <1>3, <2>1
<1>5. CASE RedisSet(k) \/ RedisGet(k) \/ SqlitePurge(k) \/ SqliteSelect(k) \/ SqliteInsert(k)
  BY <1>1, <1>3, <1>5
  DEF RedisSet, RedisGet, SqlitePurge, SqliteSelect, SqliteInsert, Expired
<1>6. CASE RedisExpire(k)
  BY <1>1, <1>2, <1>6 DEF RedisExpire, Expired
<1>7. CASE SqliteUpdate(k)
  <2>1. Deadline(k) = Ttl
    BY <1>1, <1>7 DEF SqliteUpdate, Fresh, Deadline, LockState
  <2> QED BY <1>1, <1>2, <1>7, <2>1 DEF SqliteUpdate
<1>8. CASE Beat(k)
  BY <1>2, <1>3, <1>8 DEF Beat
<1> QED BY <1>4, <1>5, <1>6, <1>7, <1>8 DEF Acquire

(* Nor does any other step of another lock.                                   *)
LEMMA OthersKeep ==
  ASSUME TypeOK, NEW k \in Lock, Fresh(locks[k]), Own(k), NEW l \in Lock \ {k}, Owns(l)
  PROVE  record'.owner = l /\ record'.left \in {record.left, Ttl}
<1>1. CASE Acquire(k) \/ Beat(k)
  BY <1>1, OwnerKept
<1>2. CASE ReleaseEarly(k) \/ Release(k)
  <2>1. record.owner = l
    BY DEF Owns
  <2>2. UNCHANGED record
    BY <1>2, <2>1 DEF ReleaseEarly, Release, Released
  <2> QED BY <2>1, <2>2
<1>3. CASE \/ Begin(k) \/ Granted(k) \/ Refused(k) \/ Retry(k) \/ BeatReply(k) \/ Reacquire(k)
           \/ BeatFails(k) \/ Finish(k) \/ DriverThrows(k) \/ Crash(k)
  <2>1. UNCHANGED record
    BY <1>3 DEF Begin, Granted, Refused, Retry, BeatReply, Reacquire, BeatFails, Finish,
       DriverThrows, Crash
  <2> QED BY <2>1 DEF Owns
<1> QED BY <1>1, <1>2, <1>3 DEF Own, Driven

(* Another lock's step makes nobody the owner but itself.                     *)
LEMMA OthersGive ==
  ASSUME TypeOK, NEW k \in Lock, Own(k), NEW l \in Lock \ {k}, record'.owner = l
  PROVE  record.owner = l
<1>1. record \in RecordType /\ Nobody # l
  BY LockAssumption DEF TypeOK, RecordType
<1>2. ASSUME NEW d, record' = [record EXCEPT !.left = d]
      PROVE  record.owner = l
  BY <1>1, <1>2 DEF RecordType
<1>3. CASE UNCHANGED record
  BY <1>3
<1>4. CASE Acquire(k)
  BY <1>1, <1>2, <1>3, <1>4
  DEF Acquire, Memory, RedisSet, RedisGet, RedisExpire, SqlitePurge, SqliteSelect,
      SqliteUpdate, SqliteInsert, Free
<1>5. CASE Beat(k)
  BY <1>2, <1>3, <1>5 DEF Beat
<1>6. CASE ReleaseEarly(k) \/ Release(k)
  BY <1>1, <1>6 DEF ReleaseEarly, Release, Released, Free
<1>7. CASE \/ Begin(k) \/ Granted(k) \/ Refused(k) \/ Retry(k) \/ BeatReply(k) \/ Reacquire(k)
           \/ BeatFails(k) \/ Finish(k) \/ DriverThrows(k) \/ Crash(k)
  <2>1. UNCHANGED record
    BY <1>7 DEF Begin, Granted, Refused, Retry, BeatReply, Reacquire, BeatFails, Finish,
       DriverThrows, Crash
  <2> QED BY <2>1
<1> QED BY <1>4, <1>5, <1>6, <1>7 DEF Own, Driven

(* So what a lock found, and what backs its section, outlives others' steps.  *)
LEMMA OthersTimely ==
  ASSUME TypeOK, TypeOK', NEW k \in Lock, Fresh(locks[k]), Own(k),
         NEW l \in Lock \ {k}, Timely(l)
  PROVE  Timely(l)'
<1>1. locks'[l] = locks[l] /\ locks[l] \in LockState
  BY OthersStay DEF TypeOK
<1>2. PICK n \in LockState : n = locks[l] /\ n = locks'[l]
  BY <1>1
<1>3. /\ record \in RecordType /\ record' \in RecordType /\ Ttl \in Nat /\ Every \in Nat
      /\ Every < Ttl /\ n.beatIn \in Nat /\ n.age \in Nat
  BY <1>2, LockAssumption DEF TypeOK, RecordType, LockState
<1>4. record.left \in 0..Ttl /\ record'.left \in 0..Ttl
  BY <1>3 DEF RecordType
<1>5. record.owner = l /\ record.left > 0
        => record'.owner = l /\ record'.left >= record.left
  <2>1. record.owner = l /\ record.left > 0 => Owns(l)
    BY <1>4 DEF Owns, Expired
  <2> QED BY <1>3, <1>4, <2>1, OthersKeep
<1>6. record'.owner = l => record.owner = l
  BY OthersGive
<1>7. Founded(l, n, record')
  <2>1. Founded(l, n, record)
    BY <1>2 DEF Timely
  <2> QED BY <1>3, <1>4, <1>5, <1>6, <2>1 DEF Founded
<1>8. Backed(l, n, record')
  <2>1. Backed(l, n, record)
    BY <1>2 DEF Timely
  <2>2. CASE n.stage = "running" /\ n.held /\ n.refresh
    <3> DEFINE rest == IF n.beat = "error" THEN 0 ELSE n.beatIn
    <3>1. rest \in Nat /\ record.owner = l /\ record.left + Every >= Ttl + rest
      BY <1>3, <2>1, <2>2 DEF Backed
    <3>2. Backed(l, n, record') <=> record'.owner = l /\ record'.left + Every >= Ttl + rest
      BY <2>2 DEF Backed
    <3> HIDE DEF rest
    <3> QED BY <1>3, <1>4, <1>5, <3>1, <3>2
  <2>3. CASE n.stage = "running" /\ n.held /\ ~n.refresh /\ n.op = "none" /\ n.age < Ttl
    <3>1. record.owner = l /\ record.left + n.age >= Ttl
      BY <2>1, <2>3 DEF Backed
    <3>2. record'.owner = l /\ record'.left + n.age >= Ttl
      BY <1>3, <1>4, <1>5, <2>3, <3>1
    <3> QED BY <2>3, <3>2 DEF Backed
  <2> QED BY <2>2, <2>3 DEF Backed
<1>9. Fresh(n)
  BY <1>2 DEF Timely
<1> QED BY <1>2, <1>7, <1>8, <1>9 DEF Timely

(* The commands of its own acquire().                                         *)
LEMMA AcquireTimely ==
  ASSUME TypeOK, NEW l \in Lock, Timely(l), Acquire(l)
  PROVE  Timely(l)'
<1>1. /\ locks \in [Lock -> LockState] /\ locks[l] \in LockState /\ record \in RecordType
      /\ Nobody # l /\ Ttl \in Nat /\ Every \in Nat \ {0} /\ Every < Ttl
      /\ record.left \in 0..Ttl
  BY LockAssumption DEF TypeOK, RecordType
<1>2. PICK old \in LockState : old = locks[l]
  BY <1>1
<1>3. Fresh(old) /\ Founded(l, old, record) /\ Backed(l, old, record) /\ old.op # "none"
  <2>1. old.op # "none"
    BY <1>2 DEF Acquire, Memory, RedisSet, RedisGet, RedisExpire, SqlitePurge, SqliteSelect,
       SqliteUpdate, SqliteInsert
  <2> QED BY <1>2, <2>1 DEF Timely
<1>4. ASSUME NEW op \in Command \ {"none"}, Steps(l, op),
             op = "purged" /\ record'.owner = l => record'.left > 0,
             op = "own" /\ old.stage \in {"acquiring", "running"}
               => record'.owner = l /\ record'.left > 0,
             op = "yes" /\ old.stage \in {"acquiring", "running"}
               => record'.owner = l /\ record'.left = Ttl
      PROVE  Timely(l)'
  <2> DEFINE new == [old EXCEPT !.op = op]
  <2>1. /\ new.op = op /\ new.stage = old.stage /\ new.held = old.held
        /\ new.refresh = old.refresh /\ new.beat = old.beat /\ new.beatIn = old.beatIn
        /\ new.age = old.age
    BY DEF LockState
  <2>2. locks'[l] = new
    BY <1>1, <1>2, <1>4 DEF Steps, Moves
  <2> HIDE DEF new
  <2>3. Fresh(new) /\ Founded(l, new, record')
    BY <1>3, <1>4, <2>1 DEF Fresh, Founded
  <2>4. Backed(l, new, record')
    <3>1. CASE new.stage = "running" /\ new.held /\ new.refresh
      <4> DEFINE rest == IF old.beat = "error" THEN 0 ELSE old.beatIn
      <4>1. rest \in 0..Every /\ record.owner = l /\ record.left + Every >= Ttl + rest
        BY <1>1, <1>3, <2>1, <3>1 DEF Backed, LockState
      <4>2. Backed(l, new, record') <=> record'.owner = l /\ record'.left + Every >= Ttl + rest
        BY <2>1, <3>1 DEF Backed
      <4>3. Owns(l)
        <5> HIDE DEF rest
        <5> QED BY <1>1, <4>1 DEF Owns, Expired
      <4>4. record'.owner = l /\ record'.left \in {record.left, Ttl}
        BY <1>2, <1>3, <4>3, OwnerKept
      <4> HIDE DEF rest
      <4> QED BY <1>1, <4>1, <4>2, <4>4
    <3> QED BY <1>4, <2>1, <3>1 DEF Backed
  <2>5. \A n \in {new} : n = locks'[l]
    BY <2>2
  <2> QED BY <2>2, <2>3, <2>4 DEF Timely
<1>5. CASE Memory(l)
  <2>1. \/ Steps(l, "no")
        \/ Steps(l, "yes") /\ record' = [owner |-> l, left |-> Ttl]
    BY <1>5 DEF Memory
  <2> QED BY <1>4, <2>1 DEF Command
<1>6. CASE RedisSet(l)
  <2>1. \/ Steps(l, "taken")
        \/ Steps(l, "yes") /\ record' = [owner |-> l, left |-> Ttl]
    BY <1>6 DEF RedisSet
  <2> QED BY <1>4, <2>1 DEF Command
<1>7. CASE RedisGet(l)
  <2>1. Steps(l, "no") \/ (Steps(l, "own") /\ Owns(l) /\ UNCHANGED record)
    BY <1>7 DEF RedisGet
  <2>2. Owns(l) => record.owner = l /\ record.left > 0
    BY <1>1 DEF Owns, Expired
  <2> QED BY <1>4, <2>1, <2>2 DEF Command
<1>8. CASE RedisExpire(l)
  <2>1. /\ Steps(l, "yes") /\ old.op = "own"
        /\ record' = [record EXCEPT !.left = IF Expired THEN 0 ELSE Ttl]
    BY <1>2, <1>8 DEF RedisExpire
  <2>2. old.stage \in {"acquiring", "running"} => record'.owner = l /\ record'.left = Ttl
    BY <1>1, <1>3, <2>1 DEF Founded, RecordType, Expired
  <2> QED BY <1>4, <2>1, <2>2 DEF Command
<1>9. CASE SqlitePurge(l)
  <2>1. Steps(l, "purged") /\ (record'.owner = l => record'.left > 0)
    BY <1>1, <1>9 DEF SqlitePurge, Free, Expired
  <2> QED BY <1>4, <2>1 DEF Command
<1>10. CASE SqliteSelect(l)
  <2>1. UNCHANGED record /\ old.op = "purged"
    BY <1>2, <1>10 DEF SqliteSelect
  <2>2. PICK op \in {"absent", "own", "no"} : Steps(l, op) /\ (op = "own" => record.owner = l)
    BY <1>10 DEF SqliteSelect
  <2>3. op = "own" => record.left > 0
    BY <1>3, <2>1, <2>2 DEF Founded
  <2> QED BY <1>4, <2>1, <2>2, <2>3 DEF Command
<1>11. Deadline(l) = Ttl
  BY <1>1, <1>2, <1>3 DEF Fresh, Deadline
<1>12. CASE SqliteUpdate(l)
  <2>1. /\ Steps(l, "yes") /\ old.op = "own"
        /\ record' = IF record.owner = Nobody THEN record ELSE [record EXCEPT !.left = Ttl]
    BY <1>2, <1>11, <1>12 DEF SqliteUpdate
  <2>2. old.stage \in {"acquiring", "running"} => record'.owner = l /\ record'.left = Ttl
    BY <1>1, <1>3, <2>1 DEF Founded, RecordType
  <2> QED BY <1>4, <2>1, <2>2 DEF Command
<1>13. CASE SqliteInsert(l)
  <2>1. \/ Steps(l, "no")
        \/ Steps(l, "yes") /\ record' = [owner |-> l, left |-> Ttl]
    BY <1>11, <1>13 DEF SqliteInsert
  <2> QED BY <1>4, <2>1 DEF Command
<1> QED BY <1>5, <1>6, <1>7, <1>8, <1>9, <1>10, <1>12, <1>13 DEF Acquire

(* Its other steps.                                                           *)
LEMMA OwnTimely ==
  ASSUME TypeOK, NEW l \in Lock, Timely(l), Own(l)
  PROVE  Timely(l)'
<1>1. /\ locks \in [Lock -> LockState] /\ locks[l] \in LockState /\ record \in RecordType
      /\ Nobody # l /\ Ttl \in Nat /\ Every \in Nat \ {0} /\ Every < Ttl
      /\ record.left \in 0..Ttl
  BY LockAssumption DEF TypeOK, RecordType
<1>2. PICK old \in LockState : old = locks[l]
  BY <1>1
<1>3. /\ Fresh(old) /\ Founded(l, old, record) /\ Backed(l, old, record)
      /\ old.beatIn \in 0..Every /\ old.age \in Nat
  BY <1>2 DEF Timely, LockState
(* The generic step: a new state that is fresh, founded and backed.           *)
<1>4. ASSUME NEW new, Moves(l, new), Fresh(new), Founded(l, new, record'),
             Backed(l, new, record')
      PROVE  Timely(l)'
  <2>1. locks'[l] = new
    BY <1>1, <1>4 DEF Moves
  <2> QED BY <1>4, <2>1 DEF Timely
(* One without an acquire under way that is not, or not known to be, held.    *)
<1>5. ASSUME NEW new, Moves(l, new), new.op \in {"none", "start"},
             new.op = "start" \/ new.stage = "idle" => new.age = 0,
             new.stage = "running" => ~new.held
      PROVE  Timely(l)'
  BY <1>4, <1>5 DEF Fresh, Founded, Backed
(* One that leaves the section.                                               *)
<1>6. ASSUME NEW new, Moves(l, new), new.op = old.op, new.age = old.age,
             new.stage \notin {"idle", "acquiring", "running"},
             UNCHANGED record \/ record' = Free
      PROVE  Timely(l)'
  <2>1. Fresh(new)
    BY <1>3, <1>6 DEF Fresh
  <2>2. Founded(l, new, record')
    BY <1>1, <1>3, <1>6 DEF Founded, Free
  <2>3. Backed(l, new, record')
    BY <1>6 DEF Backed
  <2> QED BY <1>4, <1>6, <2>1, <2>2, <2>3
<1>7. /\ Ended(l) \in LockState /\ Ended(l).held = FALSE /\ Ended(l).op = old.op
      /\ Ended(l).stage \in {"releasing", "done"} /\ Ended(l).age = old.age
      /\ Lost(l) \in LockState /\ Lost(l).op = old.op /\ Lost(l).age = old.age
      /\ Lost(l).stage \in {"releasing", "stray"}
  BY <1>1, <1>2, EndedFields
<1>8. CASE Begin(l)
  <2>1. PICK refresh \in BOOLEAN, patience \in {0, Timeout} :
               Moves(l, [old EXCEPT !.stage = "acquiring", !.op = "start",
                                    !.refresh = refresh, !.patience = patience])
    BY <1>2, <1>8 DEF Begin
  <2> DEFINE new == [old EXCEPT !.stage = "acquiring", !.op = "start",
                                !.refresh = refresh, !.patience = patience]
  <2>2. new.stage = "acquiring" /\ new.op = "start" /\ new.age = old.age
    BY DEF LockState
  <2>3. old.age = 0
    BY <1>2, <1>3, <1>8 DEF Begin, Fresh
  <2>4. Moves(l, new)
    BY <2>1
  <2> HIDE DEF new
  <2> QED BY <1>5, <2>2, <2>3, <2>4
<1>9. CASE Granted(l)
  <2>1. old.op = "yes" /\ old.age = 0 /\ UNCHANGED record
    BY <1>2, <1>3, <1>9 DEF Granted, Fresh
  <2>2. ASSUME NEW new, Moves(l, new), new.op = "none", new.age = 0,
               new.stage = "running" => old.stage \in {"acquiring", "running"},
               new.beatIn \in 0..Every
        PROVE  Timely(l)'
    <3>1. new.stage = "running" => record'.owner = l /\ record'.left = Ttl
      BY <1>3, <2>1, <2>2 DEF Founded
    <3>2. Fresh(new) /\ Founded(l, new, record')
      BY <2>2 DEF Fresh, Founded
    <3>3. Backed(l, new, record')
      BY <1>1, <2>2, <3>1 DEF Backed
    <3> QED BY <1>4, <2>2, <3>2, <3>3
  <2>3. CASE old.stage = "acquiring"
    <3> DEFINE new == [old EXCEPT !.op = "none", !.held = TRUE, !.stage = "running",
                                  !.beatIn = IF old.refresh THEN Every ELSE 0,
                                  !.patience = 0]
    <3>1. new.op = "none" /\ new.age = old.age /\ new.beatIn \in 0..Every
      BY <1>1 DEF LockState
    <3>2. Moves(l, new)
      BY <1>2, <1>9, <2>3 DEF Granted
    <3> HIDE DEF new
    <3> QED BY <2>1, <2>2, <2>3, <3>1, <3>2
  <2>4. CASE old.stage # "acquiring"
    <3> DEFINE new == [old EXCEPT !.op = "none", !.held = TRUE]
    <3>1. /\ new.op = "none" /\ new.age = old.age /\ new.beatIn = old.beatIn
          /\ new.stage = old.stage
      BY DEF LockState
    <3>2. Moves(l, new)
      BY <1>2, <1>9, <2>4 DEF Granted
    <3> HIDE DEF new
    <3> QED BY <1>3, <2>1, <2>2, <3>1, <3>2
  <2> QED BY <2>3, <2>4
<1>10. CASE Refused(l)
  <2> DEFINE new == [old EXCEPT !.op = "none", !.held = FALSE,
               !.stage = IF @ # "acquiring" THEN @
                         ELSE IF old.patience = 0 THEN "done" ELSE "polling"]
  <2>1. /\ new.op = "none" /\ new.held = FALSE /\ new.age = old.age
        /\ new.stage = "idle" => old.stage = "idle"
    BY DEF LockState
  <2>2. Moves(l, new)
    BY <1>2, <1>10 DEF Refused
  <2> HIDE DEF new
  <2> QED BY <1>3, <1>5, <2>1, <2>2 DEF Fresh
<1>11. CASE Retry(l)
  <2> DEFINE new == [old EXCEPT !.stage = "acquiring", !.op = "start", !.age = 0]
  <2>1. new.op = "start" /\ new.age = 0 /\ new.stage = "acquiring"
    BY DEF LockState
  <2>2. Moves(l, new)
    BY <1>2, <1>11 DEF Retry
  <2> HIDE DEF new
  <2> QED BY <1>5, <2>1, <2>2
<1>12. CASE Reacquire(l)
  <2> DEFINE new == [old EXCEPT !.op = "start", !.age = 0]
  <2>1. /\ new.op = "start" /\ new.age = 0 /\ new.stage = old.stage /\ new.held = old.held
        /\ new.refresh = old.refresh /\ new.beat = old.beat /\ new.beatIn = old.beatIn
    BY DEF LockState
  <2>2. Moves(l, new) /\ UNCHANGED record
    BY <1>2, <1>12 DEF Reacquire
  <2> HIDE DEF new
  <2>3. Fresh(new) /\ Founded(l, new, record')
    BY <2>1 DEF Fresh, Founded
  <2>4. Backed(l, new, record')
    BY <1>3, <2>1, <2>2 DEF Backed
  <2> QED BY <1>4, <2>2, <2>3, <2>4
<1>13. CASE Beat(l)
  <2>1. old.stage = "running" /\ old.refresh /\ old.beatIn = 0 /\ old.beat = "none"
    BY <1>2, <1>13 DEF Beat
  <2>2. CASE old.held
    <3>1. record.owner = l /\ record.left > 0
      <4>1. record.owner = l /\ record.left + Every >= Ttl + 0
        BY <1>3, <2>1, <2>2 DEF Backed
      <4> QED BY <1>1, <4>1
    <3>2. Extends(l) /\ record' = [record EXCEPT !.left = Ttl]
      BY <1>1, <1>2, <1>13, <2>2, <3>1 DEF Beat, Extends, Owns, Expired
    <3>3. record'.owner = l /\ record'.left = Ttl
      BY <1>1, <3>1, <3>2 DEF RecordType
    <3> DEFINE new == [old EXCEPT !.beat = IF Extends(l) THEN "kept" ELSE "gone",
                                  !.beatIn = Every,
                                  !.lostFor = IF Owns(l) THEN 0 ELSE @]
    <3>4. /\ new.op = old.op /\ new.stage = "running" /\ new.refresh = TRUE
          /\ new.beatIn = Every /\ new.age = old.age /\ new.beat = "kept"
      BY <2>1, <3>2 DEF LockState
    <3>5. Moves(l, new)
      BY <1>2, <1>13, <2>2 DEF Beat
    <3> HIDE DEF new
    <3>6. Fresh(new)
      BY <1>3, <3>4 DEF Fresh
    <3>7. Founded(l, new, record')
      BY <1>1, <3>3 DEF Founded
    <3>8. Backed(l, new, record')
      BY <1>1, <3>3, <3>4 DEF Backed
    <3> QED BY <1>4, <3>5, <3>6, <3>7, <3>8
  <2>3. CASE ~old.held
    BY <1>2, <1>6, <1>7, <1>13, <2>3 DEF Beat
  <2> QED BY <2>2, <2>3
<1>14. CASE BeatFails(l)
  <2> DEFINE new == [old EXCEPT !.beat = "error", !.beatIn = Every]
  <2>1. /\ new.op = old.op /\ new.age = old.age /\ new.stage = old.stage
        /\ new.held = old.held /\ new.refresh = old.refresh /\ new.beat = "error"
    BY DEF LockState
  <2>2. /\ Moves(l, new) /\ UNCHANGED record /\ old.beatIn = 0 /\ old.refresh
        /\ old.beat = "none"
    BY <1>2, <1>14 DEF BeatFails
  <2> HIDE DEF new
  <2>3. Fresh(new) /\ Founded(l, new, record')
    BY <1>3, <2>1, <2>2 DEF Fresh, Founded
  <2>4. Backed(l, new, record')
    BY <1>3, <2>1, <2>2 DEF Backed
  <2> QED BY <1>4, <2>2, <2>3, <2>4
<1>15. CASE BeatReply(l)
  <2>1. UNCHANGED record
    BY <1>15 DEF BeatReply
  <2>2. old.beat \in {"kept", "error", "gone"}
    BY <1>2, <1>15 DEF BeatReply, LockState
  <2>3. CASE old.beat = "kept"
    <3> DEFINE new == [old EXCEPT !.beat = "none"]
    <3>1. /\ new.op = old.op /\ new.age = old.age /\ new.stage = old.stage
          /\ new.held = old.held /\ new.refresh = old.refresh /\ new.beat = "none"
          /\ new.beatIn = old.beatIn
      BY DEF LockState
    <3>2. Moves(l, new)
      BY <1>2, <1>15, <2>3 DEF BeatReply
    <3> HIDE DEF new
    <3>3. Fresh(new) /\ Founded(l, new, record')
      BY <1>3, <2>1, <3>1 DEF Fresh, Founded
    <3>4. Backed(l, new, record')
      BY <1>3, <2>1, <2>3, <3>1 DEF Backed
    <3> QED BY <1>4, <3>2, <3>3, <3>4
  <2>4. CASE old.beat = "error"
    BY <1>2, <1>6, <1>7, <1>15, <2>1, <2>4 DEF BeatReply
  <2>5. CASE old.beat = "gone"
    <3> DEFINE new == [Lost(l) EXCEPT !.stage = "stray"]
    <3>1. new.op = old.op /\ new.age = old.age /\ new.stage = "stray"
      BY <1>7 DEF LockState
    <3>2. Moves(l, new)
      BY <1>2, <1>15, <2>5 DEF BeatReply
    <3> HIDE DEF new
    <3> QED BY <1>6, <2>1, <3>1, <3>2
  <2> QED BY <2>2, <2>3, <2>4, <2>5
<1>16. CASE ReleaseEarly(l)
  <2> DEFINE new == [old EXCEPT !.held = FALSE]
  <2>1. new.op = old.op /\ new.stage = old.stage /\ new.held = FALSE
    BY DEF LockState
  <2>2. Moves(l, new) /\ old.op = "none" /\ old.stage # "idle"
    BY <1>2, <1>16 DEF ReleaseEarly
  <2> HIDE DEF new
  <2> QED BY <1>5, <2>1, <2>2
<1>17. CASE Finish(l)
  <2>1. old.op = "none"
    BY <1>2, <1>17 DEF Finish
  <2>2. CASE Moves(l, [Ended(l) EXCEPT !.age = 0])
    <3> DEFINE new == [Ended(l) EXCEPT !.age = 0]
    <3>1. new.op = old.op /\ new.age = 0 /\ new.held = FALSE
      BY <1>7 DEF LockState
    <3>2. Moves(l, new)
      BY <2>2
    <3> HIDE DEF new
    <3> QED BY <1>5, <2>1, <3>1, <3>2
  <2>3. CASE Moves(l, [old EXCEPT !.stage = "done"])
    <3> DEFINE new == [old EXCEPT !.stage = "done"]
    <3>1. new.op = old.op /\ new.stage = "done"
      BY DEF LockState
    <3>2. Moves(l, new)
      BY <2>3
    <3> HIDE DEF new
    <3> QED BY <1>5, <2>1, <3>1, <3>2
  <2> QED BY <1>2, <1>17, <2>2, <2>3 DEF Finish
<1>18. CASE Release(l)
  <2> DEFINE new == [old EXCEPT !.stage = IF old.aborted THEN "stray" ELSE "done"]
  <2>1. new.op = old.op /\ new.age = old.age /\ new.stage \in {"stray", "done"}
    BY DEF LockState
  <2>2. Moves(l, new) /\ (UNCHANGED record \/ record' = Free)
    BY <1>2, <1>18 DEF Release, Released
  <2> HIDE DEF new
  <2> QED BY <1>6, <2>1, <2>2
<1>19. CASE DriverThrows(l)
  <2>1. UNCHANGED record
    BY <1>19 DEF DriverThrows
  <2> DEFINE over == [Ended(l) EXCEPT !.op = "none", !.age = 0, !.patience = 0,
                        !.stage = CASE old.stage = "running" -> @
                                    [] old.stage = "releasing" -> "releasing"
                                    [] OTHER -> "done"]
  <2>2. over.op = "none" /\ over.age = 0 /\ over.held = FALSE
    BY <1>7 DEF LockState
  <2> DEFINE new == [old EXCEPT !.stage = "done"]
  <2>3. new.op = old.op /\ new.age = old.age /\ new.stage = "done"
    BY DEF LockState
  <2>4. Moves(l, over) \/ Moves(l, new)
    BY <1>2, <1>19 DEF DriverThrows
  <2> HIDE DEF over, new
  <2> QED BY <1>5, <1>6, <2>1, <2>2, <2>3, <2>4
<1>20. CASE Crash(l)
  <2> DEFINE new == [Ended(l) EXCEPT !.stage = "crashed", !.op = "none", !.age = 0,
                                     !.patience = 0]
  <2>1. new.op = "none" /\ new.stage = "crashed"
    BY <1>7 DEF LockState
  <2>2. Moves(l, new)
    BY <1>20 DEF Crash
  <2> HIDE DEF new
  <2> QED BY <1>5, <2>1, <2>2
<1>21. CASE Acquire(l)
  BY <1>21, AcquireTimely
<1> QED BY <1>8, <1>9, <1>10, <1>11, <1>12, <1>13, <1>14, <1>15, <1>16, <1>17, <1>18, <1>19,
           <1>20, <1>21 DEF Own, Driven

(* Time runs for the record and for the section alike.                        *)
LEMMA TickTimely ==
  ASSUME TypeOK, NEW l \in Lock, Timely(l), Tick, ~Spends("pauses")
  PROVE  Timely(l)'
<1>1. /\ locks[l] \in LockState /\ record \in RecordType
      /\ Nobody # l /\ Ttl \in Nat /\ Every \in Nat \ {0} /\ Every < Ttl
      /\ record.left \in 0..Ttl /\ locks'[l] = Aged(l) /\ ~Due(l)
  BY LockAssumption DEF TypeOK, RecordType, Tick
<1>2. PICK old \in LockState : old = locks[l]
  BY <1>1
<1>3. PICK new : new = Aged(l)
  OBVIOUS
<1>4. /\ old.op = "none" /\ old.beat = "none" /\ old.beatIn \in 0..Every /\ old.age \in 0..Ttl
      /\ Backed(l, old, record)
      /\ (old.stage = "running" /\ old.refresh => old.beatIn # 0)
  BY <1>1, <1>2 DEF Due, Timely, LockState
<1>5. /\ new.op = "none" /\ new.beat = "none" /\ new.stage = old.stage
      /\ new.held = old.held /\ new.refresh = old.refresh /\ new.beatIn = Less(old.beatIn)
      /\ new.age = IF old.refresh \/ old.stage # "running" THEN 0 ELSE UpTo(old.age, Ttl)
  BY <1>2, <1>3, <1>4 DEF Aged, LockState
<1>6. record.left > 1 => record'.owner = record.owner /\ record'.left = record.left - 1
  BY <1>1 DEF Tick, Elapsed, Less, RecordType
<1>7. Fresh(new) /\ Founded(l, new, record')
  BY <1>5 DEF Fresh, Founded
<1>8. new.stage = "running" /\ new.held /\ new.refresh
        => record'.owner = l /\ record'.left + Every >= Ttl + new.beatIn
  <2> SUFFICES ASSUME new.stage = "running", new.held, new.refresh
               PROVE  record'.owner = l /\ record'.left + Every >= Ttl + new.beatIn
    OBVIOUS
  <2>1. record.owner = l /\ record.left + Every >= Ttl + old.beatIn /\ old.beatIn # 0
    BY <1>4, <1>5 DEF Backed
  <2>2. record.left > 1 /\ new.beatIn = old.beatIn - 1
    BY <1>1, <1>4, <1>5, <2>1 DEF Less
  <2> QED BY <1>1, <1>4, <1>6, <2>1, <2>2
<1>9. new.stage = "running" /\ new.held /\ ~new.refresh /\ new.age < Ttl
        => record'.owner = l /\ record'.left + new.age >= Ttl
  <2> SUFFICES ASSUME new.stage = "running", new.held, ~new.refresh, new.age < Ttl
               PROVE  record'.owner = l /\ record'.left + new.age >= Ttl
    OBVIOUS
  <2>1. new.age = old.age + 1 /\ old.age + 1 < Ttl
    BY <1>1, <1>4, <1>5 DEF UpTo
  <2>2. record.owner = l /\ record.left + old.age >= Ttl
    BY <1>1, <1>4, <1>5, <2>1 DEF Backed
  <2> QED BY <1>1, <1>4, <1>6, <2>1, <2>2
<1>10. Backed(l, new, record')
  BY <1>5, <1>8, <1>9 DEF Backed
<1>11. locks'[l] = new
  BY <1>1, <1>3
<1> QED BY <1>7, <1>10, <1>11 DEF Timely

(* Two critical sections that both have good reason to believe they hold the  *)
(* key are one: as long as nobody pauses and nobody forces a release, whatever *)
(* crashes, throws or is acquired again, the sections overlap only when one    *)
(* outlived its TTL without refreshing.                                        *)
THEOREM SectionsExclusive == Spec => []TrustedExclusive
<1>1. Init => TimelyInv
  BY DEF Init, TimelyInv, Timely, Fresh, Founded, Backed
<1>2. TypeOK /\ TimelyInv /\ [Next]_vars => TimelyInv'
  <2> SUFFICES ASSUME TypeOK, TimelyInv, [Next]_vars, Prompt', NEW k \in Lock
               PROVE  Timely(k)'
    BY DEF TimelyInv
  <2>1. Prompt /\ ~Spends("pauses") /\ ~Spends("forces")
    BY NothingSpent DEF Prompt
  <2>2. \A l \in Lock : Timely(l)
    BY <2>1 DEF TimelyInv
  <2>3. CASE UNCHANGED vars
    BY <2>2, <2>3 DEF vars, Timely
  <2>4. CASE Tick
    BY <2>1, <2>2, <2>4, TickTimely
  <2>5. CASE \E l \in Lock : Own(l)
    <3>1. PICK l \in Lock : Own(l)
      BY <2>5
    <3>2. CASE k = l
      BY <2>2, <3>1, <3>2, OwnTimely
    <3>3. CASE k # l
      <4>1. Fresh(locks[l]) /\ k \in Lock \ {l}
        BY <2>2, <3>3 DEF Timely
      <4> QED BY <2>2, <3>1, <4>1, OthersTimely, NextTypes
    <3> QED BY <3>2, <3>3
  <2>6. ~ForceRelease
    BY <2>1 DEF ForceRelease
  <2> QED BY <2>3, <2>4, <2>5, <2>6 DEF Next, Own
<1>3. TypeOK /\ TimelyInv => TrustedExclusive
  <2> SUFFICES ASSUME TypeOK, TimelyInv, Prompt, NEW k \in Lock, NEW l \in Lock,
                      Trusted(k), Trusted(l)
               PROVE  k = l
    BY DEF TrustedExclusive
  <2>1. \A m \in Lock : Trusted(m) => record.owner = m
    BY DEF TimelyInv, Timely, Backed, Trusted
  <2> QED BY <2>1
<1> QED BY <1>1, <1>2, <1>3, InitTypes, NextTypes, PTL DEF Spec
=============================================================================
