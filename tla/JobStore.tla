------------------------------ MODULE JobStore ------------------------------
(***************************************************************************)
(* The three tables of the SQLite queue driver and its statements.  Every  *)
(* operator below that primes a variable is ONE statement (or one          *)
(* transaction): the unit the database makes atomic.  A method of the      *)
(* driver that issues two statements is two steps of its caller, in module *)
(* JobQueue.                                                               *)
(*                                                                         *)
(* Timestamps are kept as distances from the present, which is all the     *)
(* driver's predicates compare: `due` is available_at - now (0 once it has *)
(* passed) and `age` is now - reserved_at (capped at the visibility        *)
(* timeout, past which nothing distinguishes two ages).                    *)
(***************************************************************************)
EXTENDS Integers, Sequences, FiniteSets

CONSTANTS
  Job,         \* what can be queued: a class with its payload, minus the chain
  Queue,       \* queue names
  Batch,       \* batch ids
  NoBatch,     \* NULL in batch_id
  DebounceKey, \* debounce keys
  NoKey,       \* NULL in debounce_key
  Visibility   \* seconds a claimed row stays invisible

ASSUME VisibilityAssumption == Visibility \in Nat \ {0}
ASSUME NullAssumption == NoBatch \notin Batch /\ NoKey \notin DebounceKey

VARIABLES
  jobs,       \* zerotal_jobs: row id -> row
  lastId,     \* its AUTOINCREMENT counter
  failed,     \* zerotal_failed_jobs: row id -> row
  lastFailed, \* its AUTOINCREMENT counter
  batches     \* zerotal_job_batches: batch id -> row

storeVars == <<jobs, lastId, failed, lastFailed, batches>>
-----------------------------------------------------------------------------
Unreserved == -1    \* reserved_at IS NULL

Policy == [queue: Queue, max: Nat \ {0}, delay: Nat]

JobRow == [job: Job, chain: Seq(Job), policy: Policy, attempts: Nat, due: Nat,
           age: -1..Visibility, batch: Batch \cup {NoBatch},
           key: DebounceKey \cup {NoKey}]

FailedRow == [job: Job, chain: Seq(Job), queue: Queue, attempts: Nat]

BatchRow == [pending: Int, failed: Nat, finished: BOOLEAN]

JobsTypeOK ==
  /\ lastId \in Nat
  /\ DOMAIN jobs \subseteq 1..lastId
  /\ jobs \in [DOMAIN jobs -> JobRow]

FailedTypeOK ==
  /\ lastFailed \in Nat
  /\ DOMAIN failed \subseteq 1..lastFailed
  /\ failed \in [DOMAIN failed -> FailedRow]

BatchesTypeOK ==
  /\ DOMAIN batches \subseteq Batch
  /\ batches \in [DOMAIN batches -> BatchRow]

StoreTypeOK == JobsTypeOK /\ FailedTypeOK /\ BatchesTypeOK

StoreInit ==
  /\ jobs = << >> /\ lastId = 0
  /\ failed = << >> /\ lastFailed = 0
  /\ batches = << >>
-----------------------------------------------------------------------------
(* Tables as partial functions. *)
With(table, id, row) ==
  [i \in DOMAIN table \cup {id} |-> IF i = id THEN row ELSE table[i]]
Without(table, ids) == [i \in DOMAIN table \ ids |-> table[i]]

Max0(n) == IF n < 0 THEN 0 ELSE n

(* The row a push inserts: never attempted, not reserved. *)
FreshRow(j, chain, policy, due, batch, key) ==
  [job |-> j, chain |-> chain, policy |-> policy, attempts |-> 0, due |-> due,
   age |-> Unreserved, batch |-> batch, key |-> key]

InsertJob(row) ==
  /\ lastId' = lastId + 1
  /\ jobs' = With(jobs, lastId + 1, row)

(* Rows the partial unique index covers. *)
Holders(key) == {i \in DOMAIN jobs : jobs[i].key = key /\ jobs[i].age = Unreserved}

(* INSERT ... ON CONFLICT (debounce_key) DO UPDATE: the pending row keeps its  *)
(* id, attempts and batch, and takes the new payload, policy and run-at.       *)
UpsertDebounced(row) ==
  IF Holders(row.key) = {}
  THEN InsertJob(row)
  ELSE /\ jobs' = [i \in DOMAIN jobs |->
                     IF i \in Holders(row.key)
                     THEN [jobs[i] EXCEPT !.job = row.job, !.chain = row.chain,
                                          !.policy = row.policy, !.due = row.due]
                     ELSE jobs[i]]
       /\ UNCHANGED lastId
-----------------------------------------------------------------------------
(* pop: the oldest due row that is free or whose reservation went stale. *)
Claimable_ignoresReservation(q) ==
  {i \in DOMAIN jobs : jobs[i].policy.queue = q /\ jobs[i].due = 0}
Claimable_neverReclaims(q) ==
  {i \in DOMAIN jobs : /\ jobs[i].policy.queue = q /\ jobs[i].due = 0
                       /\ jobs[i].age = Unreserved}
Claimable(q) ==
  {i \in DOMAIN jobs : /\ jobs[i].policy.queue = q
                       /\ jobs[i].due = 0
                       /\ jobs[i].age = Unreserved \/ jobs[i].age >= Visibility}

Claimed(i) == [jobs[i] EXCEPT !.attempts = @ + 1, !.age = 0]

IsOldest(i, ids) == i \in ids /\ \A k \in ids : i <= k

ClaimRow_removes(i) ==     \* DELETE ... RETURNING in place of a reservation
  /\ jobs' = Without(jobs, {i})
  /\ UNCHANGED lastId
ClaimRow(i) ==
  /\ jobs' = [jobs EXCEPT ![i] = Claimed(i)]
  /\ UNCHANGED lastId

DeleteJob(i) ==
  /\ jobs' = Without(jobs, {i})
  /\ UNCHANGED lastId

InsertFailed(row, attempts) ==
  /\ lastFailed' = lastFailed + 1
  /\ failed' = With(failed, lastFailed + 1,
                    [job |-> row.job, chain |-> row.chain,
                     queue |-> row.policy.queue, attempts |-> attempts])

DeleteFailed(ids) ==
  /\ failed' = Without(failed, ids)
  /\ UNCHANGED lastFailed

(* retry clears reserved_at, which puts the row back under the unique index:   *)
(* the statement is refused when another pending row holds the key.            *)
RetryRefused_never(i) == FALSE
RetryRefused(i) ==
  /\ i \in DOMAIN jobs
  /\ jobs[i].key # NoKey
  /\ Holders(jobs[i].key) \ {i} # {}

RetryJob(i, delay) ==
  /\ ~RetryRefused(i)
  /\ jobs' = [k \in DOMAIN jobs |->
                IF k = i THEN [jobs[k] EXCEPT !.due = delay, !.age = Unreserved]
                         ELSE jobs[k]]
  /\ UNCHANGED lastId
-----------------------------------------------------------------------------
CreateBatch(b, total) ==
  batches' = With(batches, b, [pending |-> total, failed |-> 0, finished |-> FALSE])

(* recordBatchJobComplete / recordBatchJobFailed: the row after one more job  *)
(* is accounted for, and the status the caller is told.                       *)
Counted(b, failures) ==
  [pending  |-> batches[b].pending - 1,
   failed   |-> batches[b].failed + failures,
   finished |-> batches[b].finished \/ batches[b].pending - 1 <= 0]

BatchStatus_ignoresFailed(b, failures) ==
  IF b \notin DOMAIN batches THEN "pending"
  ELSE IF Counted(b, failures).pending > 0 THEN "pending" ELSE "complete"
BatchStatus(b, failures) ==
  IF b \notin DOMAIN batches THEN "pending"
  ELSE IF Counted(b, failures).pending > 0 THEN "pending"
  ELSE IF Counted(b, failures).failed > 0 THEN "failed" ELSE "complete"

RecordBatch(b, failures) ==
  batches' = IF b \in DOMAIN batches
             THEN [batches EXCEPT ![b] = Counted(b, failures)] ELSE batches

(* One second of wall-clock time, as the driver's predicates see it. *)
Older(age) == IF age = Unreserved \/ age = Visibility THEN age ELSE age + 1

ElapseStore ==
  /\ jobs' = [i \in DOMAIN jobs |->
                [jobs[i] EXCEPT !.due = Max0(@ - 1), !.age = Older(@)]]
  /\ UNCHANGED <<lastId, failed, lastFailed, batches>>

(* The index keeps at most one free row per debounce key. *)
KeysUnique == \A k \in DebounceKey : Cardinality(Holders(k)) <= 1
=============================================================================
