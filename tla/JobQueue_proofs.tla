--------------------------- MODULE JobQueue_proofs ---------------------------
(***************************************************************************)
(* Theorems about JobQueue.                                                *)
(*                                                                         *)
(* The first part says what each statement of the driver leaves of the     *)
(* tables, the next two prove the types and that claims are exclusive as   *)
(* long as every claim is settled within the visibility timeout.  Then     *)
(* come lemmas that read a step backwards: where a row, a failed row, a    *)
(* runner's position, an acceptance or a batch's count can have come from. *)
(* The rest builds on those: debounced rows, no job lost, chains in order, *)
(* attempts honoured, batches with sound callbacks and success that stands.*)
(***************************************************************************)
EXTENDS JobQueue, FiniteSetTheorems, TLAPS

-----------------------------------------------------------------------------
(* What each statement of the driver does to the tables' types and rows. *)

(* push: the new row is the only change, under an id never used before. *)
LEMMA InsertJobEffect ==
  ASSUME JobsTypeOK, NEW row \in JobRow, InsertJob(row)
  PROVE  /\ JobsTypeOK'
         /\ lastId' = lastId + 1
         /\ lastId + 1 \notin DOMAIN jobs
         /\ DOMAIN jobs' = DOMAIN jobs \cup {lastId + 1}
         /\ jobs'[lastId + 1] = row
         /\ \A i \in DOMAIN jobs : jobs'[i] = jobs[i]
<1>1. lastId + 1 \notin DOMAIN jobs /\ lastId \in Nat
  BY DEF JobsTypeOK
<1>2. jobs \in [DOMAIN jobs -> JobRow]
  BY DEF JobsTypeOK
<1>3. /\ DOMAIN jobs' = DOMAIN jobs \cup {lastId + 1}
      /\ jobs' \in [DOMAIN jobs \cup {lastId + 1} -> JobRow]
      /\ jobs'[lastId + 1] = row
      /\ \A i \in DOMAIN jobs \ {lastId + 1} : jobs'[i] = jobs[i]
  BY <1>2 DEF InsertJob, With
<1> QED BY <1>1, <1>3 DEF InsertJob, JobsTypeOK

(* delete: the row goes, nothing else changes. *)
LEMMA DeleteJobEffect ==
  ASSUME JobsTypeOK, NEW i, DeleteJob(i)
  PROVE  /\ JobsTypeOK'
         /\ lastId' = lastId
         /\ DOMAIN jobs' = DOMAIN jobs \ {i}
         /\ \A k \in DOMAIN jobs \ {i} : jobs'[k] = jobs[k]
<1>1. jobs \in [DOMAIN jobs -> JobRow]
  BY DEF JobsTypeOK
<1>2. /\ DOMAIN jobs' = DOMAIN jobs \ {i}
      /\ jobs' \in [DOMAIN jobs \ {i} -> JobRow]
      /\ \A k \in DOMAIN jobs \ {i} : jobs'[k] = jobs[k]
  BY <1>1 DEF DeleteJob, Without
<1> QED BY <1>2 DEF DeleteJob, JobsTypeOK

(* pop: one more attempt, reserved now. *)
LEMMA ClaimRowEffect ==
  ASSUME JobsTypeOK, NEW i \in DOMAIN jobs, ClaimRow(i)
  PROVE  /\ JobsTypeOK'
         /\ Claimed(i) \in JobRow
         /\ Claimed(i).age = 0
         /\ lastId' = lastId
         /\ DOMAIN jobs' = DOMAIN jobs
         /\ jobs'[i] = Claimed(i)
         /\ \A k \in DOMAIN jobs \ {i} : jobs'[k] = jobs[k]
<1>1. jobs[i] \in JobRow
  BY DEF JobsTypeOK
<1>2. Claimed(i) \in JobRow /\ Claimed(i).age = 0
  <2>1. jobs[i].attempts + 1 \in Nat /\ 0 \in -1..Visibility
    BY <1>1, VisibilityAssumption DEF JobRow
  <2> QED BY <1>1, <2>1 DEF Claimed, JobRow
<1> QED BY <1>2 DEF ClaimRow, JobsTypeOK

(* retry: the row is free again, due after its delay. *)
LEMMA RetryJobEffect ==
  ASSUME JobsTypeOK, NEW i, NEW delay \in Nat, RetryJob(i, delay)
  PROVE  /\ JobsTypeOK'
         /\ lastId' = lastId
         /\ DOMAIN jobs' = DOMAIN jobs
         /\ \A k \in DOMAIN jobs \ {i} : jobs'[k] = jobs[k]
<1>1. \A k \in DOMAIN jobs : [jobs[k] EXCEPT !.due = delay, !.age = Unreserved] \in JobRow
  <2> TAKE k \in DOMAIN jobs
  <2>1. jobs[k] \in JobRow
    BY DEF JobsTypeOK
  <2>2. Unreserved \in -1..Visibility
    BY VisibilityAssumption DEF Unreserved
  <2> QED BY <2>1, <2>2 DEF JobRow
<1> QED BY <1>1 DEF RetryJob, JobsTypeOK

(* pushDebounced: a new row, or a free row rewritten and still free. *)
LEMMA UpsertEffect ==
  ASSUME JobsTypeOK, NEW row \in JobRow, UpsertDebounced(row)
  PROVE  /\ JobsTypeOK'
         /\ lastId' \in {lastId, lastId + 1}
         /\ lastId + 1 \notin DOMAIN jobs
         /\ DOMAIN jobs \subseteq DOMAIN jobs'
         /\ DOMAIN jobs' \subseteq DOMAIN jobs \cup {lastId + 1}
         /\ \A i \in DOMAIN jobs : jobs'[i].age = jobs[i].age
<1>1. CASE Holders(row.key) = {}
  <2>1. InsertJob(row)
    BY <1>1 DEF UpsertDebounced
  <2> QED BY <2>1, InsertJobEffect
<1>2. CASE Holders(row.key) # {}
  <2>1. \A i \in DOMAIN jobs :
          LET new == [jobs[i] EXCEPT !.job = row.job, !.chain = row.chain,
                                     !.policy = row.policy, !.due = row.due]
          IN new \in JobRow /\ new.age = jobs[i].age
    <3> TAKE i \in DOMAIN jobs
    <3>1. jobs[i] \in JobRow
      BY DEF JobsTypeOK
    <3> QED BY <3>1 DEF JobRow
  <2>2. /\ jobs' = [i \in DOMAIN jobs |->
                     IF i \in Holders(row.key)
                     THEN [jobs[i] EXCEPT !.job = row.job, !.chain = row.chain,
                                          !.policy = row.policy, !.due = row.due]
                     ELSE jobs[i]]
        /\ lastId' = lastId
    BY <1>2 DEF UpsertDebounced
  <2>3. lastId + 1 \notin DOMAIN jobs
    BY DEF JobsTypeOK
  <2> QED BY <2>1, <2>2, <2>3 DEF JobsTypeOK
<1> QED BY <1>1, <1>2

(* A second: every reservation that is not stale yet ages by one. *)
LEMMA ElapseEffect ==
  ASSUME JobsTypeOK, ElapseStore
  PROVE  /\ JobsTypeOK'
         /\ lastId' = lastId
         /\ DOMAIN jobs' = DOMAIN jobs
         /\ \A i \in DOMAIN jobs : jobs'[i].age = Older(jobs[i].age)
<1>1. \A i \in DOMAIN jobs :
        LET new == [jobs[i] EXCEPT !.due = Max0(@ - 1), !.age = Older(@)]
        IN new \in JobRow /\ new.age = Older(jobs[i].age)
  <2> TAKE i \in DOMAIN jobs
  <2>1. jobs[i] \in JobRow
    BY DEF JobsTypeOK
  <2>2. Max0(jobs[i].due - 1) \in Nat
    BY <2>1 DEF JobRow, Max0
  <2>3. Older(jobs[i].age) \in -1..Visibility
    BY <2>1, VisibilityAssumption DEF JobRow, Older, Unreserved
  <2> QED BY <2>1, <2>2, <2>3 DEF JobRow
<1> QED BY <1>1 DEF ElapseStore, JobsTypeOK

(* fail's INSERT and the console's DELETEs on the failed table. *)
LEMMA InsertFailedEffect ==
  ASSUME FailedTypeOK, NEW row \in JobRow, NEW n \in Nat, InsertFailed(row, n)
  PROVE  FailedTypeOK'
<1> DEFINE f == [job |-> row.job, chain |-> row.chain,
                 queue |-> row.policy.queue, attempts |-> n]
<1>1. f \in FailedRow
  BY DEF JobRow, Policy, FailedRow
<1>2. failed \in [DOMAIN failed -> FailedRow]
  BY DEF FailedTypeOK
<1>3. /\ DOMAIN failed' = DOMAIN failed \cup {lastFailed + 1}
      /\ failed' \in [DOMAIN failed \cup {lastFailed + 1} -> FailedRow]
  BY <1>1, <1>2 DEF InsertFailed, With
<1> QED BY <1>3 DEF InsertFailed, FailedTypeOK

(* A failed row is deleted by its id.                                         *)
LEMMA DeleteFailedEffect ==
  ASSUME FailedTypeOK, NEW ids, DeleteFailed(ids)
  PROVE  FailedTypeOK'
<1>1. failed \in [DOMAIN failed -> FailedRow]
  BY DEF FailedTypeOK
<1>2. /\ DOMAIN failed' = DOMAIN failed \ ids
      /\ failed' \in [DOMAIN failed \ ids -> FailedRow]
  BY <1>1 DEF DeleteFailed, Without
<1> QED BY <1>2 DEF DeleteFailed, FailedTypeOK

(* The batch table's two statements. *)
LEMMA CreateBatchEffect ==
  ASSUME BatchesTypeOK, NEW b \in Batch, NEW n \in Nat, CreateBatch(b, n)
  PROVE  BatchesTypeOK'
<1> DEFINE row == [pending |-> n, failed |-> 0, finished |-> FALSE]
<1>1. row \in BatchRow
  BY DEF BatchRow
<1>2. batches \in [DOMAIN batches -> BatchRow]
  BY DEF BatchesTypeOK
<1>3. /\ DOMAIN batches' = DOMAIN batches \cup {b}
      /\ batches' \in [DOMAIN batches \cup {b} -> BatchRow]
  BY <1>1, <1>2 DEF CreateBatch, With
<1> QED BY <1>3 DEF BatchesTypeOK

(* A batch's row is inserted or counted.                                      *)
LEMMA RecordBatchEffect ==
  ASSUME BatchesTypeOK, NEW b \in Batch, NEW n \in {0, 1}, RecordBatch(b, n)
  PROVE  BatchesTypeOK'
<1>1. CASE b \in DOMAIN batches
  <2>1. batches[b] \in BatchRow
    BY <1>1 DEF BatchesTypeOK
  <2>2. Counted(b, n) \in BatchRow
    BY <2>1 DEF Counted, BatchRow
  <2> QED BY <1>1, <2>2 DEF RecordBatch, BatchesTypeOK
<1>2. CASE b \notin DOMAIN batches
  BY <1>2 DEF RecordBatch, BatchesTypeOK
<1> QED BY <1>1, <1>2

-----------------------------------------------------------------------------
(* The helpers' effect on the runners. *)

(* The record a busy runner works on. *)
LEMMA BusyClaim ==
  ASSUME RunnerTypeOK, AwaitsOK, NEW r \in Runner, pc[r] \in Busy
  PROVE  /\ claim[r] \in Claim
         /\ Record(r) \in JobRow
         /\ Record(r).policy \in Policy
  BY DEF AwaitsOK, Claim, Record, JobRow

(* Ending a job resets the runner and may complete a drain. *)
LEMMA EndJobTypes ==
  ASSUME RunnerTypeOK, ProcessTypeOK, AwaitsOK, NEW r \in Runner, pc[r] # "idle", EndJob(r)
  PROVE  /\ RunnerTypeOK' /\ ProcessTypeOK' /\ AwaitsOK'
         /\ pc'[r] \in {"pop", "idle"}
         /\ \A s \in Runner \ {r} :
              pc'[s] = pc[s] /\ claim'[s] = claim[s] /\ held'[s] = held[s]
<1> USE DEF RunnerTypeOK
<1>1. pc' = [pc EXCEPT ![r] = IF MoreQueues(r) THEN "pop" ELSE "idle"]
  BY DEF EndJob, Goto
<1>2. pc' \in [Runner -> PCs] /\ pc'[r] \in {"pop", "idle"}
  BY <1>1 DEF PCs
<1>3. sweep[r] \in Seq(Queue)
  OBVIOUS
<1>4. MoreQueues(r) => Tail(sweep[r]) \in Seq(Queue) /\ Tail(sweep[r]) # << >>
  BY <1>3 DEF MoreQueues
<1>5. /\ sweep' \in [Runner -> Seq(Queue)]
      /\ pc'[r] # "idle" => sweep'[r] # << >>
  BY <1>1, <1>4 DEF EndJob
<1>6. claim' \in [Runner -> Claim \cup {NoClaim}]
  BY DEF EndJob
<1>7. held' \in [Runner -> 0..Visibility]
  BY VisibilityAssumption DEF EndJob
<1>8. todo' \in [Runner -> Seq(Job)] /\ guarded' \in [Runner -> BOOLEAN]
  BY DEF EndJob
<1>9. ProcessTypeOK'
  BY DEF EndJob, ProcessTypeOK
<1>10. \A s \in Runner \ {r} :
         /\ pc'[s] = pc[s] /\ claim'[s] = claim[s] /\ held'[s] = held[s]
         /\ sweep'[s] = sweep[s] /\ todo'[s] = todo[s]
         /\ guarded'[s] = guarded[s]
  BY DEF EndJob, Goto
<1>11. AwaitsOK'
  <2>1. ~guarded'[r]
    BY DEF EndJob
  <2> QED BY <1>2, <1>5, <1>10, <2>1 DEF AwaitsOK, Busy, Settling
<1> QED BY <1>2, <1>5, <1>6, <1>7, <1>8, <1>9, <1>10, <1>11

(* Going on to another await of the same job. *)
LEMMA ContinueTypes ==
  ASSUME RunnerTypeOK, ProcessTypeOK, AwaitsOK, NEW r \in Runner, pc[r] \in Busy,
         NEW next \in Busy, Continue(r, next),
         next = "chain" => Record(r).chain # << >>,
         next \in {"count", "countFailed", "fetch", "callbacks"}
           => Record(r).batch # NoBatch,
         todo' \in [Runner -> Seq(Job)],
         \A s \in Runner \ {r} : todo'[s] = todo[s] /\ guarded'[s] = guarded[s],
         next = "callbacks" => todo'[r] # << >>,
         guarded' \in [Runner -> BOOLEAN]
  PROVE  /\ RunnerTypeOK' /\ ProcessTypeOK' /\ AwaitsOK'
         /\ pc' = [pc EXCEPT ![r] = next]
         /\ claim' = claim /\ held' = held
<1> USE DEF RunnerTypeOK
<1>1. /\ pc' = [pc EXCEPT ![r] = next]
      /\ UNCHANGED <<claim, held, sweep, proc, drainAge>>
  BY DEF Continue, Goto, processVars
<1>2. pc' \in [Runner -> PCs]
  BY <1>1 DEF PCs
<1>3. ProcessTypeOK'
  BY <1>1 DEF ProcessTypeOK
<1>4. \A s \in Runner \ {r} :
        pc'[s] = pc[s] /\ todo'[s] = todo[s] /\ guarded'[s] = guarded[s]
  BY <1>1
<1>5. pc'[r] = next /\ pc[r] # "idle"
  BY <1>1 DEF Busy, Settling
<1>6. AwaitsOK'
  BY <1>1, <1>4, <1>5 DEF AwaitsOK, Record
<1> QED BY <1>1, <1>2, <1>3, <1>6

(* The catch block chooses between burying the job and retrying it. *)
LEMMA FailingTypes ==
  ASSUME RunnerTypeOK, ProcessTypeOK, AwaitsOK, NEW r \in Runner, pc[r] \in Busy,
         Failing(r)
  PROVE  /\ RunnerTypeOK' /\ ProcessTypeOK' /\ AwaitsOK'
         /\ \E next \in {"bury", "retry"} : pc' = [pc EXCEPT ![r] = next]
         /\ claim' = claim /\ held' = held
<1>1. PICK next \in {"bury", "retry"} : Continue(r, next)
  BY DEF Failing
<1>2. /\ todo' \in [Runner -> Seq(Job)]
      /\ \A s \in Runner \ {r} : todo'[s] = todo[s] /\ guarded'[s] = guarded[s]
      /\ guarded' \in [Runner -> BOOLEAN]
  BY DEF Failing, RunnerTypeOK
<1>3. next \in Busy
  BY DEF Busy, Settling
<1> QED BY <1>1, <1>2, <1>3, ContinueTypes

(* After the chain step: count the batch job, or end. *)
LEMMA CountOrEndTypes ==
  ASSUME RunnerTypeOK, ProcessTypeOK, AwaitsOK, NEW r \in Runner, pc[r] \in Busy,
         CountOrEnd(r)
  PROVE  /\ RunnerTypeOK' /\ ProcessTypeOK' /\ AwaitsOK'
         /\ \/ pc' = [pc EXCEPT ![r] = "count"] /\ claim' = claim /\ held' = held
            \/ EndJob(r)
<1>1. CASE Record(r).batch # NoBatch
  <2>1. Continue(r, "count") /\ UNCHANGED <<todo, guarded>>
    BY <1>1 DEF CountOrEnd
  <2>2. "count" \in Busy
    BY DEF Busy
  <2> QED BY <1>1, <2>1, <2>2, ContinueTypes DEF RunnerTypeOK
<1>2. CASE Record(r).batch = NoBatch
  <2>1. EndJob(r)
    BY <1>2 DEF CountOrEnd
  <2>2. pc[r] # "idle"
    BY DEF Busy, Settling
  <2> QED BY <2>1, <2>2, EndJobTypes
<1> QED BY <1>1, <1>2

-----------------------------------------------------------------------------
(* The rows that dispatch, chains, callbacks and the console insert. *)

(* What is stored in the table is a row.                                      *)
LEMMA StoredRow ==
  ASSUME NEW j \in Job, NEW chain \in Seq(Job), NEW fallback \in Policy
  PROVE  Stored(j, chain, fallback) \in JobRow
<1>1. Def[j].policy \in Policy
  BY ScenarioAssumption DEF JobDef
<1>2. Unreserved \in -1..Visibility
  BY VisibilityAssumption DEF Unreserved
<1> QED BY <1>1, <1>2 DEF Stored, FreshRow, JobRow

(* A push keeps the types.                                                    *)
LEMMA EnqueueTypes ==
  ASSUME JobsTypeOK, accepted \subseteq Job, dropped \subseteq Job,
         NEW j \in Job, NEW b \in Batch \cup {NoBatch}, Enqueue(j, b)
  PROVE  /\ JobsTypeOK' /\ accepted' \subseteq Job /\ dropped' \subseteq Job
         /\ lastId' \in {lastId, lastId + 1}
         /\ DOMAIN jobs' \subseteq DOMAIN jobs \cup {lastId + 1}
         /\ \A i \in DOMAIN jobs : jobs'[i].age = jobs[i].age
<1> DEFINE d == Def[j]
           row == FreshRow(j, d.chain, d.policy, d.debounce, b,
                           IF d.debounce > 0 THEN d.key ELSE NoKey)
           rows == /\ JobsTypeOK'
                   /\ lastId' \in {lastId, lastId + 1}
                   /\ DOMAIN jobs' \subseteq DOMAIN jobs \cup {lastId + 1}
                   /\ \A i \in DOMAIN jobs : jobs'[i].age = jobs[i].age
<1>1. d \in JobDef
  BY ScenarioAssumption
<1>2. Unreserved \in -1..Visibility
  BY VisibilityAssumption DEF Unreserved
<1>3. row \in JobRow
  BY <1>1, <1>2 DEF FreshRow, JobRow, JobDef
<1>4. accepted' \subseteq Job
  BY DEF Enqueue
<1>5. CASE d.debounce > 0
  <2>1. UpsertDebounced(row) /\ dropped' = dropped \cup {jobs[i].job : i \in Holders(d.key)}
    BY <1>5 DEF Enqueue
  <2>2. \A i \in Holders(d.key) : jobs[i].job \in Job
    BY DEF Holders, JobsTypeOK, JobRow
  <2>3. rows
    <3> HIDE DEF row
    <3> QED BY <1>3, <2>1, UpsertEffect
  <2> QED BY <1>4, <2>1, <2>2, <2>3
<1>6. CASE ~(d.debounce > 0)
  <2>1. InsertJob(row) /\ dropped' = dropped
    BY <1>6 DEF Enqueue
  <2>2. rows
    <3> HIDE DEF row
    <3> QED BY <1>3, <2>1, InsertJobEffect
  <2> QED BY <1>4, <2>1, <2>2
<1> QED BY <1>5, <1>6

(* Steps that touch neither runners nor processes. *)
LEMMA RunnersKept ==
  ASSUME RunnerTypeOK, ProcessTypeOK, AwaitsOK, UNCHANGED <<runnerVars, processVars>>
  PROVE  RunnerTypeOK' /\ ProcessTypeOK' /\ AwaitsOK'
  BY DEF RunnerTypeOK, ProcessTypeOK, AwaitsOK, Record, runnerVars, processVars

(* Steps that leave some of the tables alone. *)
LEMMA StoreKept ==
  ASSUME StoreTypeOK
  PROVE  /\ UNCHANGED <<jobs, lastId>> => JobsTypeOK'
         /\ UNCHANGED <<failed, lastFailed>> => FailedTypeOK'
         /\ UNCHANGED batches => BatchesTypeOK'
  BY DEF StoreTypeOK, JobsTypeOK, FailedTypeOK, BatchesTypeOK

(* A fault spent stays within its budget's type.                              *)
LEMMA SpendTypes ==
  ASSUME spent \in Bounds, NEW what \in {"crash", "stop", "error", "lapse", "admin"},
         Spend(what)
  PROVE  /\ spent' \in Bounds
         /\ what # "lapse" => spent'.lapse = spent.lapse
         /\ what = "lapse" => spent'.lapse = spent.lapse + 1
  BY DEF Bounds, Spend
-----------------------------------------------------------------------------
(* Type correctness, action by action. *)

(* The types hold at the start.                                               *)
LEMMA TypeInit == Init => TypeOK
<1> SUFFICES ASSUME Init PROVE TypeOK
  OBVIOUS
<1>1. StoreTypeOK
  BY DEF Init, StoreInit, StoreTypeOK, JobsTypeOK, FailedTypeOK, BatchesTypeOK
<1>2. RunnerTypeOK /\ AwaitsOK
  BY VisibilityAssumption DEF Init, RunnerTypeOK, AwaitsOK, PCs, Busy, Settling
<1>3. ProcessTypeOK /\ ClientTypeOK
  BY ScenarioAssumption DEF Init, ProcessTypeOK, ClientTypeOK, AdminState, AdminIdle
<1>4. spent \in Bounds /\ HistoryTypeOK
  BY DEF Init, Nothing, Bounds, HistoryTypeOK
<1> QED BY <1>1, <1>2, <1>3, <1>4 DEF TypeOK

(* dispatch, dispatchBatch and its loop. *)
LEMMA TypeDispatch ==
  ASSUME TypeOK, NEW p \in Process, NEW j \in Job, Dispatch(p, j)
  PROVE  TypeOK'
<1> USE DEF TypeOK
<1>1. JobsTypeOK' /\ accepted' \subseteq Job /\ dropped' \subseteq Job
  BY EnqueueTypes DEF Dispatch, StoreTypeOK, HistoryTypeOK
<1>2. StoreTypeOK'
  BY <1>1, StoreKept DEF Dispatch, StoreTypeOK
<1>3. RunnerTypeOK' /\ ProcessTypeOK' /\ AwaitsOK'
  BY RunnersKept DEF Dispatch
<1>4. ClientTypeOK' /\ spent' \in Bounds /\ HistoryTypeOK'
  BY <1>1 DEF Dispatch, ClientTypeOK, HistoryTypeOK, clientVars
<1> QED BY <1>2, <1>3, <1>4

(* Types: a batch's row is inserted.                                          *)
LEMMA TypeDispatchBatch ==
  ASSUME TypeOK, NEW p \in Process, NEW b \in Batch, DispatchBatch(p, b)
  PROVE  TypeOK'
<1> USE DEF TypeOK
<1>1. Len(BatchDef[b].jobs) \in Nat
  BY ScenarioAssumption DEF Callbacks
<1>2. BatchesTypeOK'
  BY <1>1, CreateBatchEffect DEF DispatchBatch, StoreTypeOK
<1>3. StoreTypeOK'
  BY <1>2, StoreKept DEF DispatchBatch, StoreTypeOK
<1>4. RunnerTypeOK' /\ ProcessTypeOK' /\ AwaitsOK'
  BY RunnersKept DEF DispatchBatch
<1>5. ClientTypeOK' /\ spent' \in Bounds /\ HistoryTypeOK'
  BY DEF DispatchBatch, ClientTypeOK, HistoryTypeOK, history
<1> QED BY <1>3, <1>4, <1>5

(* Types: a batch's next job is pushed.                                       *)
LEMMA TypeSendNext ==
  ASSUME TypeOK, NEW b \in Batch, SendNext(b)
  PROVE  TypeOK'
<1> USE DEF TypeOK
<1>1. RunnerTypeOK' /\ ProcessTypeOK' /\ AwaitsOK'
  BY RunnersKept DEF SendNext
<1>2. spent' \in Bounds
  BY DEF SendNext
<1>3. CASE proc[sender[b]] = "up" /\ sent[b] < Len(BatchDef[b].jobs)
  <2>1. BatchDef[b].jobs \in Seq(Job) /\ sent[b] \in Nat
    BY ScenarioAssumption DEF Callbacks, ClientTypeOK
  <2>2. BatchDef[b].jobs[sent[b] + 1] \in Job
    BY <1>3, <2>1
  <2>3. /\ Enqueue(BatchDef[b].jobs[sent[b] + 1], b)
        /\ sent' = [sent EXCEPT ![b] = @ + 1]
        /\ sender' = [sender EXCEPT ![b] =
                        IF sent[b] + 1 = Len(BatchDef[b].jobs) THEN Nobody ELSE @]
    BY <1>3 DEF SendNext
  <2>4. JobsTypeOK' /\ accepted' \subseteq Job /\ dropped' \subseteq Job
    BY <2>2, <2>3, EnqueueTypes DEF StoreTypeOK, HistoryTypeOK
  <2>5. StoreTypeOK'
    BY <2>4, StoreKept DEF SendNext, StoreTypeOK
  <2>6. ClientTypeOK'
    BY <2>1, <2>3 DEF SendNext, ClientTypeOK
  <2>7. HistoryTypeOK'
    BY <2>4 DEF SendNext, HistoryTypeOK
  <2> QED BY <1>1, <1>2, <2>5, <2>6, <2>7
<1>4. CASE ~(proc[sender[b]] = "up" /\ sent[b] < Len(BatchDef[b].jobs))
  <2>1. /\ sender' = [sender EXCEPT ![b] = Nobody]
        /\ UNCHANGED <<jobs, lastId, sent, accepted, dropped>>
    BY <1>4 DEF SendNext
  <2>2. StoreTypeOK'
    BY <2>1, StoreKept DEF SendNext, StoreTypeOK
  <2>3. ClientTypeOK' /\ HistoryTypeOK'
    BY <2>1 DEF SendNext, ClientTypeOK, HistoryTypeOK
  <2> QED BY <1>1, <1>2, <2>2, <2>3
<1> QED BY <1>3, <1>4

(* Steps of a runner that leave the clients alone. *)
LEMMA ClientsKept ==
  ASSUME ClientTypeOK, UNCHANGED clientVars
  PROVE  ClientTypeOK'
  BY DEF ClientTypeOK, clientVars

(* Types of the histories.                                                    *)
LEMMA HistoryKept ==
  ASSUME HistoryTypeOK, UNCHANGED history
  PROVE  HistoryTypeOK'
  BY DEF HistoryTypeOK, history

(* Types: a runner moves on.                                                  *)
LEMMA RunTypes ==
  ASSUME HistoryTypeOK, NEW j \in Job, Run(j)
  PROVE  runs' \in [Job -> Nat]
  BY DEF HistoryTypeOK, Run

(* Claiming: Poll and the two outcomes of pop. *)
LEMMA TypePop ==
  ASSUME TypeOK, NEW r \in Runner, Poll(r) \/ PopNothing(r) \/ PopJob(r)
  PROVE  TypeOK'
<1> USE DEF TypeOK
<1>1. CASE Poll(r)
  <2>1. /\ pc' = [pc EXCEPT ![r] = "pop"]
        /\ sweep' = [sweep EXCEPT ![r] = QueueList]
        /\ UNCHANGED <<storeVars, claim, held, todo, guarded, proc, drainAge,
                       clientVars, spent, history>>
    BY <1>1 DEF Poll, Goto, processVars
  <2>2. StoreTypeOK'
    BY <2>1, StoreKept DEF storeVars, StoreTypeOK
  <2>3. RunnerTypeOK' /\ ProcessTypeOK'
    BY <2>1, ScenarioAssumption DEF RunnerTypeOK, ProcessTypeOK, PCs
  <2>4. AwaitsOK'
    <3>1. ~guarded[r]
      BY <1>1 DEF Poll, AwaitsOK, Busy, Settling
    <3>2. /\ pc'[r] = "pop" /\ sweep'[r] # << >> /\ ~guarded'[r]
          /\ \A s \in Runner \ {r} : pc'[s] = pc[s] /\ sweep'[s] = sweep[s]
      BY <2>1, <3>1, ScenarioAssumption DEF RunnerTypeOK
    <3> QED BY <2>1, <3>2 DEF AwaitsOK, Record, Busy, Settling
  <2>5. ClientTypeOK' /\ HistoryTypeOK' /\ spent' \in Bounds
    BY <2>1, ClientsKept, HistoryKept
  <2> QED BY <2>2, <2>3, <2>4, <2>5
<1>2. CASE PopNothing(r)
  <2>1. pc[r] # "idle" /\ EndJob(r) /\ UNCHANGED <<storeVars, clientVars, spent, history>>
    BY <1>2 DEF PopNothing
  <2>2. RunnerTypeOK' /\ ProcessTypeOK' /\ AwaitsOK'
    BY <2>1, EndJobTypes
  <2>3. StoreTypeOK'
    BY <2>1, StoreKept DEF storeVars, StoreTypeOK
  <2>4. ClientTypeOK' /\ HistoryTypeOK' /\ spent' \in Bounds
    BY <2>1, ClientsKept, HistoryKept
  <2> QED BY <2>2, <2>3, <2>4
<1>3. CASE PopJob(r)
  <2>1. PICK i \in DOMAIN jobs :
          /\ ClaimRow(i)
          /\ claim' = [claim EXCEPT ![r] = [id |-> i, row |-> Claimed(i)]]
          /\ \E next \in {"bury", "handle", "retry"} : pc' = [pc EXCEPT ![r] = next]
          /\ \E inside \in BOOLEAN : guarded' = [guarded EXCEPT ![r] = inside]
          /\ Run(jobs[i].job) \/ UNCHANGED runs
    BY <1>3 DEF PopJob, Goto, AfterClaim
  <2>2. /\ pc[r] = "pop"
        /\ held' = [held EXCEPT ![r] = 0]
        /\ UNCHANGED <<failed, lastFailed, batches, todo, sweep, proc, drainAge,
                       clientVars, spent, accepted, succeeded, dropped, reports>>
    BY <1>3 DEF PopJob, processVars
  <2>3. JobsTypeOK' /\ Claimed(i) \in JobRow
    BY <2>1, ClaimRowEffect DEF StoreTypeOK
  <2>4. StoreTypeOK'
    BY <2>2, <2>3, StoreKept DEF StoreTypeOK
  <2>5. i \in Nat \ {0} /\ jobs[i] \in JobRow
    BY DEF StoreTypeOK, JobsTypeOK
  <2>6. [id |-> i, row |-> Claimed(i)] \in Claim
    BY <2>3, <2>5 DEF Claim
  <2>7. RunnerTypeOK' /\ ProcessTypeOK'
    <3>1. guarded' \in [Runner -> BOOLEAN]
      BY <2>1 DEF RunnerTypeOK
    <3>2. {"bury", "handle", "retry"} \subseteq PCs
      BY DEF PCs, Busy, Settling
    <3>3. pc' \in [Runner -> PCs]
      BY <2>1, <3>2 DEF RunnerTypeOK
    <3> QED BY <2>1, <2>2, <2>6, <3>1, <3>3, VisibilityAssumption
            DEF RunnerTypeOK, ProcessTypeOK
  <2>8. AwaitsOK'
    BY <2>1, <2>2, <2>6 DEF AwaitsOK, RunnerTypeOK, Record, Busy, Settling
  <2>9. runs' \in [Job -> Nat]
    BY <2>1, <2>5, RunTypes DEF JobRow, HistoryTypeOK
  <2>10. ClientTypeOK' /\ HistoryTypeOK' /\ spent' \in Bounds
    BY <2>2, <2>9, ClientsKept DEF HistoryTypeOK
  <2> QED BY <2>4, <2>7, <2>8, <2>10
<1> QED BY <1>1, <1>2, <1>3

(* The handler's three outcomes, and a database error at any await. *)
LEMMA TypeHandle ==
  ASSUME TypeOK, NEW r \in Runner,
         HandlerReturns(r) \/ HandlerThrows(r) \/ PoolRefuses(r) \/ DbError(r)
  PROVE  TypeOK'
<1> USE DEF TypeOK
<1>1. pc[r] \in Busy => Record(r).job \in Job /\ pc[r] # "idle"
  BY BusyClaim DEF JobRow, Busy, Settling
<1>2. ASSUME pc[r] \in Busy, Failing(r)
      PROVE  RunnerTypeOK' /\ ProcessTypeOK' /\ AwaitsOK'
  BY <1>2, FailingTypes
<1>3. UNCHANGED storeVars => StoreTypeOK'
  BY StoreKept DEF storeVars, StoreTypeOK
<1>4. CASE HandlerReturns(r)
  <2>1. /\ pc[r] = "handle"
        /\ Continue(r, "delete")
        /\ Run(Record(r).job) \/ UNCHANGED runs
        /\ succeeded' = succeeded \cup {Record(r).job}
        /\ UNCHANGED <<storeVars, todo, guarded, clientVars, spent, accepted,
                       dropped, reports>>
    BY <1>4 DEF HandlerReturns
  <2>2. pc[r] \in Busy /\ "delete" \in Busy
    BY <2>1 DEF Busy, Settling
  <2>3. RunnerTypeOK' /\ ProcessTypeOK' /\ AwaitsOK'
    BY <2>1, <2>2, ContinueTypes DEF RunnerTypeOK
  <2>4. runs' \in [Job -> Nat]
    BY <1>1, <2>1, <2>2, RunTypes DEF HistoryTypeOK
  <2>5. ClientTypeOK' /\ HistoryTypeOK' /\ spent' \in Bounds
    BY <1>1, <2>1, <2>2, <2>4, ClientsKept DEF HistoryTypeOK
  <2> QED BY <1>3, <2>1, <2>3, <2>5
<1>5. CASE HandlerThrows(r)
  <2>1. /\ pc[r] = "handle"
        /\ Failing(r)
        /\ Run(Record(r).job) \/ UNCHANGED runs
        /\ UNCHANGED <<storeVars, clientVars, spent, accepted, succeeded,
                       dropped, reports>>
    BY <1>5 DEF HandlerThrows
  <2>2. pc[r] \in Busy
    BY <2>1 DEF Busy, Settling
  <2>3. runs' \in [Job -> Nat]
    BY <1>1, <2>1, <2>2, RunTypes DEF HistoryTypeOK
  <2>4. ClientTypeOK' /\ HistoryTypeOK' /\ spent' \in Bounds
    BY <2>1, <2>3, ClientsKept DEF HistoryTypeOK
  <2> QED BY <1>2, <1>3, <2>1, <2>2, <2>4
<1>6. CASE PoolRefuses(r)
  <2>1. /\ pc[r] = "handle" /\ Failing(r)
        /\ UNCHANGED <<storeVars, clientVars, spent, history>>
    BY <1>6 DEF PoolRefuses
  <2>2. pc[r] \in Busy
    BY <2>1 DEF Busy, Settling
  <2>3. ClientTypeOK' /\ HistoryTypeOK' /\ spent' \in Bounds
    BY <2>1, ClientsKept, HistoryKept
  <2> QED BY <1>2, <1>3, <2>1, <2>2, <2>3
<1>7. CASE DbError(r)
  <2>1. /\ pc[r] # "idle" /\ Spend("error")
        /\ UNCHANGED <<storeVars, clientVars, history>>
    BY <1>7 DEF DbError
  <2>2. ClientTypeOK' /\ HistoryTypeOK' /\ spent' \in Bounds
    BY <2>1, ClientsKept, HistoryKept, SpendTypes
  <2>3. CASE pc[r] \in Busy /\ Failing(r)
    BY <1>2, <1>3, <2>1, <2>2, <2>3
  <2>4. CASE EndJob(r)
    BY <1>3, <2>1, <2>2, <2>4, EndJobTypes
  <2>5. CASE pc[r] \notin Busy /\ Failing(r)
    (* A runner that only polls is in no try block. *)
    BY <1>7, <2>5, EndJobTypes, <2>4 DEF DbError, AwaitsOK
  <2> QED BY <1>7, <2>3, <2>4, <2>5 DEF DbError
<1> QED BY <1>4, <1>5, <1>6, <1>7

(* Completion: the row's delete, the chained job, the batch's count and the   *)
(* batch's callbacks.                                                         *)
LEMMA TypeComplete ==
  ASSUME TypeOK, NEW r \in Runner,
         DeleteDone(r) \/ PushChained(r) \/ FetchBatch(r) \/ PushCallback(r)
  PROVE  TypeOK'
<1> USE DEF TypeOK
<1>1. pc[r] \in Busy /\ pc[r] # "idle"
  BY DEF DeleteDone, PushChained, FetchBatch, PushCallback, Busy, Settling
<1>2. Record(r) \in JobRow /\ Record(r).policy \in Policy
  BY <1>1, BusyClaim
<1>3. DefaultPolicy \in Policy
  BY ScenarioAssumption
<1>4. CASE DeleteDone(r)
  <2>1. /\ DeleteJob(claim[r].id)
        /\ UNCHANGED <<failed, lastFailed, batches, clientVars, spent, history>>
    BY <1>4 DEF DeleteDone
  <2>2. StoreTypeOK'
    BY <2>1, DeleteJobEffect, StoreKept DEF StoreTypeOK
  <2>3. RunnerTypeOK' /\ ProcessTypeOK' /\ AwaitsOK'
    <3>1. CASE Record(r).chain # << >>
      <4>1. Continue(r, "chain") /\ UNCHANGED <<todo, guarded>> /\ "chain" \in Busy
        BY <1>4, <3>1 DEF DeleteDone, Busy
      <4> QED BY <1>1, <3>1, <4>1, ContinueTypes DEF RunnerTypeOK
    <3>2. CASE Record(r).chain = << >>
      BY <1>1, <1>4, <3>2, CountOrEndTypes DEF DeleteDone
    <3> QED BY <3>1, <3>2
  <2>4. ClientTypeOK' /\ HistoryTypeOK' /\ spent' \in Bounds
    BY <2>1, ClientsKept, HistoryKept
  <2> QED BY <2>2, <2>3, <2>4
<1>5. CASE PushChained(r)
  <2>1. Record(r).chain \in Seq(Job) /\ Record(r).chain # << >>
    BY <1>2, <1>5 DEF PushChained, AwaitsOK, Record, JobRow
  <2>2. Head(Record(r).chain) \in Job /\ Tail(Record(r).chain) \in Seq(Job)
    BY <2>1
  <2> DEFINE row == Stored(Head(Record(r).chain), Tail(Record(r).chain), Record(r).policy)
  <2>3. row \in JobRow
    BY <1>2, <2>2, StoredRow
  <2>4. /\ InsertJob(row) /\ CountOrEnd(r)
        /\ accepted' = accepted \cup {Head(Record(r).chain)}
        /\ UNCHANGED <<failed, lastFailed, batches, clientVars, spent, runs,
                       succeeded, dropped, reports>>
    BY <1>5 DEF PushChained
  <2>5. JobsTypeOK'
    <3> HIDE DEF row
    <3> QED BY <2>3, <2>4, InsertJobEffect DEF StoreTypeOK
  <2>6. StoreTypeOK'
    BY <2>4, <2>5, StoreKept DEF StoreTypeOK
  <2>7. RunnerTypeOK' /\ ProcessTypeOK' /\ AwaitsOK'
    BY <1>1, <2>4, CountOrEndTypes
  <2>8. ClientTypeOK' /\ HistoryTypeOK' /\ spent' \in Bounds
    BY <2>2, <2>4, ClientsKept DEF HistoryTypeOK
  <2> QED BY <2>6, <2>7, <2>8
<1>6. CASE FetchBatch(r)
  <2>1. UNCHANGED <<storeVars, clientVars, spent, history>>
    BY <1>6 DEF FetchBatch
  <2>2. StoreTypeOK' /\ ClientTypeOK' /\ HistoryTypeOK' /\ spent' \in Bounds
    BY <2>1, StoreKept, ClientsKept, HistoryKept DEF storeVars, StoreTypeOK
  <2>3. CASE todo[r] # << >> /\ Continue(r, "callbacks") /\ UNCHANGED <<todo, guarded>>
    <3>1. Record(r).batch # NoBatch /\ "callbacks" \in Busy
      BY <1>6 DEF FetchBatch, AwaitsOK, Record, Busy
    <3> QED BY <1>1, <2>2, <2>3, <3>1, ContinueTypes DEF RunnerTypeOK
  <2>4. CASE EndJob(r)
    BY <1>1, <2>2, <2>4, EndJobTypes
  <2> QED BY <1>6, <2>3, <2>4 DEF FetchBatch
<1>7. CASE PushCallback(r)
  <2>1. todo[r] \in Seq(Job) /\ todo[r] # << >>
    BY <1>7 DEF PushCallback, AwaitsOK, RunnerTypeOK
  <2>2. Head(todo[r]) \in Job /\ Tail(todo[r]) \in Seq(Job) /\ << >> \in Seq(Job)
    BY <2>1
  <2> DEFINE row == Stored(Head(todo[r]), << >>, DefaultPolicy)
  <2>3. row \in JobRow
    BY <1>3, <2>2, StoredRow
  <2>4. /\ InsertJob(row)
        /\ accepted' = accepted \cup {Head(todo[r])}
        /\ UNCHANGED <<failed, lastFailed, batches, clientVars, spent, runs,
                       succeeded, dropped, reports>>
    BY <1>7 DEF PushCallback
  <2>5. JobsTypeOK'
    <3> HIDE DEF row
    <3> QED BY <2>3, <2>4, InsertJobEffect DEF StoreTypeOK
  <2>6. StoreTypeOK'
    BY <2>4, <2>5, StoreKept DEF StoreTypeOK
  <2>7. ClientTypeOK' /\ HistoryTypeOK' /\ spent' \in Bounds
    BY <2>2, <2>4, ClientsKept DEF HistoryTypeOK
  <2>8. CASE Tail(todo[r]) # << >>
    <3>1. /\ Continue(r, "callbacks") /\ todo' = [todo EXCEPT ![r] = Tail(@)]
          /\ UNCHANGED guarded /\ "callbacks" \in Busy
      BY <1>7, <2>8 DEF PushCallback, Busy
    <3>2. Record(r).batch # NoBatch
      BY <1>7 DEF PushCallback, AwaitsOK, Record
    <3>3. /\ todo' \in [Runner -> Seq(Job)] /\ todo'[r] # << >>
          /\ \A s \in Runner \ {r} : todo'[s] = todo[s]
      BY <2>2, <2>8, <3>1 DEF RunnerTypeOK
    <3> QED BY <1>1, <2>6, <2>7, <3>1, <3>2, <3>3, ContinueTypes DEF RunnerTypeOK
  <2>9. CASE Tail(todo[r]) = << >>
    BY <1>1, <1>7, <2>6, <2>7, <2>9, EndJobTypes DEF PushCallback
  <2> QED BY <2>8, <2>9
<1> QED BY <1>4, <1>5, <1>6, <1>7

(* The batch's counters; the callbacks of a finished batch are then pushed. *)
LEMMA TypeCount ==
  ASSUME TypeOK, NEW r \in Runner, CountComplete(r) \/ CountFailed(r)
  PROVE  TypeOK'
<1> USE DEF TypeOK
<1>1. PICK at \in {"count", "countFailed"}, n \in {0, 1} : CountJob(r, at, n)
  BY DEF CountComplete, CountFailed
<1> DEFINE b == Record(r).batch
           status == BatchStatus(b, n)
<1>2. /\ pc[r] = at /\ RecordBatch(b, n)
      /\ UNCHANGED <<jobs, lastId, failed, lastFailed, clientVars, spent,
                     accepted, runs, succeeded, dropped>>
  BY <1>1 DEF CountJob
<1>3. pc[r] \in Busy /\ pc[r] # "idle"
  BY <1>2 DEF Busy, Settling
<1>4. b \in Batch
  BY <1>2, <1>3, BusyClaim DEF AwaitsOK, Record, JobRow
<1>5. StoreTypeOK'
  BY <1>2, <1>4, RecordBatchEffect, StoreKept DEF StoreTypeOK
<1>6. ClientTypeOK' /\ spent' \in Bounds
  BY <1>2, ClientsKept
<1>7. CASE status = "pending"
  <2>1. EndJob(r) /\ UNCHANGED reports
    BY <1>1, <1>7 DEF CountJob
  <2>2. HistoryTypeOK'
    BY <1>2, <2>1 DEF HistoryTypeOK
  <2> QED BY <1>3, <1>5, <1>6, <2>1, <2>2, EndJobTypes
<1>8. CASE status # "pending"
  <2>1. /\ Continue(r, "fetch")
        /\ todo' = [todo EXCEPT ![r] = CallbacksOf(b, status)]
        /\ reports' = [reports EXCEPT ![b] = @ + 1]
        /\ UNCHANGED guarded
    BY <1>1, <1>8 DEF CountJob
  <2>2. CallbacksOf(b, status) \in Seq(Job)
    <3>1. BatchDef[b] \in Callbacks
      BY <1>4, ScenarioAssumption
    <3> HIDE DEF b, status
    <3> QED BY <3>1 DEF CallbacksOf, Callbacks
  <2>3. HistoryTypeOK'
    BY <1>2, <1>4, <2>1 DEF HistoryTypeOK
  <2>4. /\ todo' \in [Runner -> Seq(Job)] /\ guarded' \in [Runner -> BOOLEAN]
        /\ \A s \in Runner \ {r} : todo'[s] = todo[s]
    <3> HIDE DEF b, status
    <3> QED BY <2>1, <2>2 DEF RunnerTypeOK
  <2>5. "fetch" \in Busy /\ Record(r).batch # NoBatch
    BY <1>4, NullAssumption DEF Busy
  <2>6. RunnerTypeOK' /\ ProcessTypeOK' /\ AwaitsOK'
    BY <1>3, <2>1, <2>4, <2>5, ContinueTypes
  <2> QED BY <1>5, <1>6, <2>3, <2>6
<1> QED BY <1>7, <1>8

(* Failure: the failed row, the delete of the job row, or the retry. *)
LEMMA TypeFail ==
  ASSUME TypeOK, NEW r \in Runner, Bury(r) \/ Unlist(r) \/ Retry(r)
  PROVE  TypeOK'
<1> USE DEF TypeOK
<1>1. pc[r] \in Busy /\ pc[r] # "idle"
  BY DEF Bury, Unlist, Retry, Busy, Settling
<1>2. Record(r) \in JobRow /\ Record(r).attempts \in Nat /\ Record(r).policy.delay \in Nat
  BY <1>1, BusyClaim DEF JobRow, Policy
<1>3. ClientTypeOK' /\ HistoryTypeOK' /\ spent' \in Bounds
  BY ClientsKept, HistoryKept DEF Bury, Unlist, Retry
<1>4. CASE Bury(r)
  <2>1. /\ InsertFailed(Record(r), Record(r).attempts)
        /\ Continue(r, "unlist") /\ "unlist" \in Busy
        /\ UNCHANGED <<jobs, lastId, batches, todo, guarded>>
    BY <1>4 DEF Bury, Busy, Settling
  <2>2. FailedTypeOK'
    BY <1>2, <2>1, InsertFailedEffect DEF StoreTypeOK
  <2>3. StoreTypeOK'
    BY <2>1, <2>2, StoreKept DEF StoreTypeOK
  <2> QED BY <1>1, <1>3, <2>1, <2>3, ContinueTypes DEF RunnerTypeOK
<1>5. CASE Unlist(r)
  <2>1. StoreTypeOK'
    BY <1>5, DeleteJobEffect, StoreKept DEF Unlist, StoreTypeOK
  <2>2. CASE guarded[r] \/ Record(r).batch = NoBatch
    BY <1>1, <1>3, <1>5, <2>1, <2>2, EndJobTypes DEF Unlist
  <2>3. CASE ~(guarded[r] \/ Record(r).batch = NoBatch)
    <3>1. Continue(r, "countFailed") /\ UNCHANGED <<todo, guarded>> /\ "countFailed" \in Busy
      BY <1>5, <2>3 DEF Unlist, Busy
    <3> QED BY <1>1, <1>3, <2>1, <2>3, <3>1, ContinueTypes DEF RunnerTypeOK
  <2> QED BY <2>2, <2>3
<1>6. CASE Retry(r)
  <2>1. /\ \/ RetryJob(claim[r].id, Record(r).policy.delay)
           \/ UNCHANGED <<jobs, lastId>>
        /\ EndJob(r) /\ UNCHANGED <<failed, lastFailed, batches>>
    BY <1>6 DEF Retry
  <2>2. StoreTypeOK'
    BY <1>2, <2>1, RetryJobEffect, StoreKept DEF StoreTypeOK
  <2> QED BY <1>1, <1>3, <2>1, <2>2, EndJobTypes
<1> QED BY <1>4, <1>5, <1>6

(* The console. *)
LEMMA AdminGotoTypes ==
  ASSUME admin \in [Admin -> AdminState], NEW a \in Admin, NEW state \in AdminState,
         AdminGoto(a, state)
  PROVE  admin' \in [Admin -> AdminState]
  BY DEF AdminGoto

(* Types: a console's statements.                                             *)
LEMMA TypeAdmin ==
  ASSUME TypeOK, NEW a \in Admin,
         \/ \E i \in DOMAIN failed : RetryFailed(a, i)
         \/ FlushJobs(a) \/ AdminStep(a) \/ AdminCrash(a)
  PROVE  TypeOK'
<1> USE DEF TypeOK
<1>1. RunnerTypeOK' /\ ProcessTypeOK' /\ AwaitsOK'
  BY RunnersKept DEF RetryFailed, FlushJobs, AdminStep, Requeue, ForgetRetried,
                     FlushFailed, FlushBatches, AdminCrash
<1>2. sender' = sender /\ sent' = sent
  BY DEF RetryFailed, FlushJobs, AdminStep, Requeue, ForgetRetried,
         FlushFailed, FlushBatches, AdminCrash
<1>3. admin' \in [Admin -> AdminState] => ClientTypeOK'
  BY <1>2 DEF ClientTypeOK
<1>4. admin \in [Admin -> AdminState] /\ AdminIdle \in AdminState
  BY DEF ClientTypeOK, AdminState
<1>5. CASE \E i \in DOMAIN failed : RetryFailed(a, i)
  <2>1. PICK i \in DOMAIN failed : RetryFailed(a, i)
    BY <1>5
  <2>2. i \in Nat /\ failed[i] \in FailedRow
    BY DEF StoreTypeOK, FailedTypeOK
  <2>3. [pc |-> "requeue", id |-> i, row |-> failed[i]] \in AdminState
    BY <2>2 DEF AdminState
  <2>4. ClientTypeOK'
    BY <1>3, <1>4, <2>1, <2>3, AdminGotoTypes DEF RetryFailed
  <2>5. StoreTypeOK' /\ HistoryTypeOK' /\ spent' \in Bounds
    BY <2>1, StoreKept, HistoryKept, SpendTypes DEF RetryFailed, storeVars, StoreTypeOK
  <2> QED BY <1>1, <2>4, <2>5
<1>6. CASE FlushJobs(a)
  <2>1. /\ AdminGoto(a, [pc |-> "flushFailed"])
        /\ jobs' = Without(jobs, DOMAIN jobs) /\ Spend("admin")
        /\ dropped' = dropped \cup {jobs[i].job : i \in DOMAIN jobs}
        /\ UNCHANGED <<lastId, failed, lastFailed, batches, accepted, runs,
                       succeeded, reports>>
    BY <1>6 DEF FlushJobs
  <2>2. ClientTypeOK'
    BY <1>3, <1>4, <2>1, AdminGotoTypes DEF AdminState
  <2>3. JobsTypeOK'
    BY <2>1 DEF Without, JobsTypeOK, StoreTypeOK
  <2>4. StoreTypeOK' /\ spent' \in Bounds
    BY <2>1, <2>3, StoreKept, SpendTypes DEF StoreTypeOK
  <2>5. \A i \in DOMAIN jobs : jobs[i].job \in Job
    BY DEF StoreTypeOK, JobsTypeOK, JobRow
  <2>6. HistoryTypeOK'
    BY <2>1, <2>5 DEF HistoryTypeOK
  <2> QED BY <1>1, <2>2, <2>4, <2>6
<1>7. CASE Requeue(a)
  <2>1. admin[a] \in [pc: {"requeue", "forget"}, id: Nat, row: FailedRow]
    BY <1>4, <1>7 DEF Requeue, AdminState, AdminIdle
  <2>2. /\ admin[a].row.job \in Job /\ admin[a].row.chain \in Seq(Job)
        /\ admin[a].row.queue \in Queue
        /\ [admin[a] EXCEPT !.pc = "forget"] \in AdminState
    BY <2>1 DEF FailedRow, AdminState
  <2>3. UNCHANGED <<failed, lastFailed, batches, spent, history>>
    BY <1>7 DEF Requeue
  <2>4. HistoryTypeOK' /\ spent' \in Bounds
    BY <2>3, HistoryKept
  <2>5. CASE admin[a].row.job \in Buildable
    <3> DEFINE row == FreshRow(admin[a].row.job, admin[a].row.chain,
                               [Def[admin[a].row.job].policy EXCEPT
                                  !.queue = admin[a].row.queue], 0, NoBatch, NoKey)
    <3>1. Def[admin[a].row.job].policy \in Policy
      BY <2>2, ScenarioAssumption DEF JobDef
    <3>2. [Def[admin[a].row.job].policy EXCEPT !.queue = admin[a].row.queue] \in Policy
      BY <2>2, <3>1 DEF Policy
    <3>3. Unreserved \in -1..Visibility
      BY VisibilityAssumption DEF Unreserved
    <3>4. row \in JobRow
      BY <2>2, <3>2, <3>3 DEF FreshRow, JobRow
    <3>5. InsertJob(row) /\ AdminGoto(a, [admin[a] EXCEPT !.pc = "forget"])
      BY <1>7, <2>5 DEF Requeue
    <3>6. JobsTypeOK'
      <4> HIDE DEF row
      <4> QED BY <3>4, <3>5, InsertJobEffect DEF StoreTypeOK
    <3>7. StoreTypeOK' /\ ClientTypeOK'
      BY <1>3, <1>4, <2>2, <2>3, <3>5, <3>6, StoreKept, AdminGotoTypes DEF StoreTypeOK
    <3> QED BY <1>1, <2>4, <3>7
  <2>6. CASE admin[a].row.job \notin Buildable
    <3>1. AdminGoto(a, AdminIdle) /\ UNCHANGED <<jobs, lastId>>
      BY <1>7, <2>6 DEF Requeue
    <3> QED BY <1>1, <1>3, <1>4, <2>3, <2>4, <3>1, StoreKept, AdminGotoTypes DEF StoreTypeOK
  <2> QED BY <2>5, <2>6
<1>8. CASE ForgetRetried(a)
  <2>1. /\ DeleteFailed({admin[a].id}) /\ AdminGoto(a, AdminIdle)
        /\ UNCHANGED <<jobs, lastId, batches, spent, history>>
    BY <1>8 DEF ForgetRetried
  <2>2. FailedTypeOK'
    BY <2>1, DeleteFailedEffect DEF StoreTypeOK
  <2> QED BY <1>1, <1>3, <1>4, <2>1, <2>2, StoreKept, HistoryKept, AdminGotoTypes
          DEF StoreTypeOK
<1>9. CASE FlushFailed(a)
  <2>1. /\ DeleteFailed(DOMAIN failed) /\ AdminGoto(a, [pc |-> "flushBatches"])
        /\ dropped' = dropped \cup {failed[i].job : i \in DOMAIN failed}
        /\ UNCHANGED <<jobs, lastId, batches, spent, accepted, runs, succeeded, reports>>
    BY <1>9 DEF FlushFailed
  <2>2. FailedTypeOK'
    BY <2>1, DeleteFailedEffect DEF StoreTypeOK
  <2>3. \A i \in DOMAIN failed : failed[i].job \in Job
    BY DEF StoreTypeOK, FailedTypeOK, FailedRow
  <2>4. ClientTypeOK' /\ HistoryTypeOK'
    BY <1>3, <1>4, <2>1, <2>3, AdminGotoTypes DEF AdminState, HistoryTypeOK
  <2> QED BY <1>1, <2>1, <2>2, <2>4, StoreKept DEF StoreTypeOK
<1>10. CASE FlushBatches(a)
  <2>1. /\ batches' = Without(batches, DOMAIN batches) /\ AdminGoto(a, AdminIdle)
        /\ UNCHANGED <<jobs, lastId, failed, lastFailed, spent, history>>
    BY <1>10 DEF FlushBatches
  <2>2. BatchesTypeOK'
    BY <2>1 DEF Without, StoreTypeOK, BatchesTypeOK
  <2> QED BY <1>1, <1>3, <1>4, <2>1, <2>2, StoreKept, HistoryKept, AdminGotoTypes
          DEF StoreTypeOK
<1>11. CASE AdminCrash(a)
  BY <1>1, <1>3, <1>4, <1>11, StoreKept, HistoryKept, SpendTypes, AdminGotoTypes
     DEF AdminCrash, storeVars, StoreTypeOK
<1> QED BY <1>5, <1>6, <1>7, <1>8, <1>9, <1>10, <1>11 DEF AdminStep

(* Types: failed jobs are discarded.                                          *)
LEMMA TypeDiscard ==
  ASSUME TypeOK, DiscardFailed
  PROVE  TypeOK'
<1> USE DEF TypeOK
<1>1. PICK ids \in SUBSET DOMAIN failed : Discard(ids)
  BY DEF DiscardFailed
<1>2. \A i \in ids : failed[i].job \in Job
  BY DEF StoreTypeOK, FailedTypeOK, FailedRow
<1>3. /\ DeleteFailed(ids) /\ Spend("admin")
      /\ dropped' = dropped \cup {failed[i].job : i \in ids}
      /\ UNCHANGED <<jobs, lastId, batches, runnerVars, processVars, clientVars,
                     accepted, runs, succeeded, reports>>
  BY <1>1 DEF Discard
<1>4. FailedTypeOK'
  BY <1>3, DeleteFailedEffect DEF StoreTypeOK
<1>5. StoreTypeOK' /\ RunnerTypeOK' /\ ProcessTypeOK' /\ AwaitsOK'
  BY <1>3, <1>4, StoreKept, RunnersKept DEF StoreTypeOK
<1>6. ClientTypeOK' /\ HistoryTypeOK' /\ spent' \in Bounds
  BY <1>2, <1>3, ClientsKept, SpendTypes DEF HistoryTypeOK
<1> QED BY <1>5, <1>6

(* Shutdown, exit, crash and restart of a process. *)
LEMMA HaltTypes ==
  ASSUME TypeOK, NEW p \in Process, Halt(p)
  PROVE  StoreTypeOK' /\ RunnerTypeOK' /\ ProcessTypeOK' /\ ClientTypeOK'
         /\ HistoryTypeOK' /\ AwaitsOK'
<1> USE DEF TypeOK
<1>1. StoreTypeOK' /\ HistoryTypeOK'
  BY StoreKept, HistoryKept DEF Halt, storeVars, StoreTypeOK
<1>2. RunnerTypeOK'
  <2>1. /\ pc' \in [Runner -> PCs] /\ claim' \in [Runner -> Claim \cup {NoClaim}]
        /\ held' \in [Runner -> 0..Visibility]
    BY VisibilityAssumption DEF Halt, RunnerTypeOK, PCs
  <2>2. /\ todo' \in [Runner -> Seq(Job)] /\ sweep' \in [Runner -> Seq(Queue)]
    BY DEF Halt, RunnerTypeOK
  <2>3. guarded' \in [Runner -> BOOLEAN]
    BY DEF Halt, RunnerTypeOK
  <2> QED BY <2>1, <2>2, <2>3 DEF RunnerTypeOK
<1>3. ProcessTypeOK' /\ ClientTypeOK'
  BY DEF Halt, ProcessTypeOK, ClientTypeOK
<1>4. AwaitsOK'
  <2>1. \A r \in Runner : Host[r] = p => pc'[r] = "idle" /\ ~guarded'[r]
    BY DEF Halt
  <2>2. \A r \in Runner : Host[r] # p =>
          /\ pc'[r] = pc[r] /\ claim'[r] = claim[r] /\ guarded'[r] = guarded[r]
          /\ sweep'[r] = sweep[r] /\ todo'[r] = todo[r]
    BY DEF Halt
  <2> SUFFICES ASSUME NEW r \in Runner
               PROVE  /\ pc'[r] \in Busy => claim'[r] \in Claim
                      /\ guarded'[r] => pc'[r] \in Busy
                      /\ pc'[r] # "idle" => sweep'[r] # << >>
                      /\ pc'[r] = "chain" => claim'[r].row.chain # << >>
                      /\ pc'[r] \in {"count", "countFailed", "fetch", "callbacks"}
                           => claim'[r].row.batch # NoBatch
                      /\ pc'[r] = "callbacks" => todo'[r] # << >>
    BY DEF AwaitsOK
  <2>3. CASE Host[r] = p
    BY <2>1, <2>3 DEF Busy, Settling
  <2>4. CASE Host[r] # p
    BY <2>2, <2>4 DEF AwaitsOK
  <2> QED BY <2>3, <2>4
<1> QED BY <1>1, <1>2, <1>3, <1>4

(* Types: shutdown, exit, crash and restart.                                  *)
LEMMA TypeProcess ==
  ASSUME TypeOK, NEW p \in Process, Shutdown(p) \/ Crash(p) \/ ProcessStep(p)
  PROVE  TypeOK'
<1> USE DEF TypeOK
<1>1. ASSUME UNCHANGED <<storeVars, runnerVars, clientVars, history>>
      PROVE  StoreTypeOK' /\ RunnerTypeOK' /\ ClientTypeOK' /\ HistoryTypeOK' /\ AwaitsOK'
  BY <1>1, StoreKept, ClientsKept, HistoryKept
     DEF storeVars, StoreTypeOK, runnerVars, RunnerTypeOK, AwaitsOK, Record
<1>2. CASE Shutdown(p)
  BY <1>1, <1>2, SpendTypes, ScenarioAssumption DEF Shutdown, ProcessTypeOK
<1>3. CASE DrainTimesOut(p)
  BY <1>1, <1>3 DEF DrainTimesOut, ProcessTypeOK
<1>4. CASE Restart(p)
  BY <1>1, <1>4, ScenarioAssumption DEF Restart, ProcessTypeOK
<1>5. CASE Exit(p)
  BY <1>5, HaltTypes DEF Exit
<1>6. CASE Crash(p)
  BY <1>6, HaltTypes, SpendTypes DEF Crash
<1> QED BY <1>2, <1>3, <1>4, <1>5, <1>6 DEF ProcessStep

(* A second. *)
LEMMA TypeElapse ==
  ASSUME TypeOK, Elapse
  PROVE  TypeOK'
<1> USE DEF TypeOK
<1>1. StoreTypeOK'
  BY ElapseEffect, StoreKept DEF Elapse, StoreTypeOK, ElapseStore
<1>2. held' \in [Runner -> 0..Visibility] /\ drainAge' \in [Process -> 0..DrainLimit]
  BY VisibilityAssumption, ScenarioAssumption DEF Elapse, RunnerTypeOK, ProcessTypeOK
<1>3. RunnerTypeOK' /\ ProcessTypeOK' /\ AwaitsOK'
  BY <1>2 DEF Elapse, RunnerTypeOK, ProcessTypeOK, AwaitsOK, Record
<1>4. ClientTypeOK' /\ HistoryTypeOK' /\ spent' \in Bounds
  BY ClientsKept, HistoryKept, SpendTypes DEF Elapse
<1> QED BY <1>1, <1>3, <1>4

(* Types: a runner's statements.                                              *)
LEMMA TypeRunner ==
  ASSUME TypeOK, NEW r \in Runner, Poll(r) \/ RunnerStep(r) \/ DbError(r)
  PROVE  TypeOK'
  BY TypePop, TypeHandle, TypeComplete, TypeCount, TypeFail DEF RunnerStep

(* Every step keeps the types.                                                *)
LEMMA TypeStep ==
  ASSUME TypeOK, [Next]_vars
  PROVE  TypeOK'
<1>1. CASE \/ \E p \in Process, j \in Job : Dispatch(p, j)
           \/ \E p \in Process, b \in Batch : DispatchBatch(p, b)
           \/ \E b \in Batch : SendNext(b)
  BY <1>1, TypeDispatch, TypeDispatchBatch, TypeSendNext
<1>2. CASE \E r \in Runner : Poll(r) \/ RunnerStep(r) \/ DbError(r)
  BY <1>2, TypeRunner
<1>3. CASE \E a \in Admin : \/ \E i \in DOMAIN failed : RetryFailed(a, i)
                            \/ FlushJobs(a) \/ AdminStep(a) \/ AdminCrash(a)
  BY <1>3, TypeAdmin
<1>4. CASE DiscardFailed
  BY <1>4, TypeDiscard
<1>5. CASE \E p \in Process : Shutdown(p) \/ Crash(p) \/ ProcessStep(p)
  BY <1>5, TypeProcess
<1>6. CASE Elapse
  BY <1>6, TypeElapse
<1>7. CASE UNCHANGED vars
  <2>1. UNCHANGED <<storeVars, runnerVars, processVars, clientVars, spent, history>>
    BY <1>7 DEF vars
  <2> QED BY <2>1, StoreKept, RunnersKept, ClientsKept, HistoryKept
          DEF TypeOK, storeVars, StoreTypeOK
<1> QED BY <1>1, <1>2, <1>3, <1>4, <1>5, <1>6, <1>7 DEF Next

(* Every state of the queue is well typed: the tables hold rows, every busy   *)
(* runner holds a claim that its await needs.                                 *)
THEOREM TypeCorrect == Spec => []TypeOK
<1>1. Init => TypeOK
  BY TypeInit
<1>2. TypeOK /\ [Next]_vars => TypeOK'
  BY TypeStep
<1> QED BY <1>1, <1>2, PTL DEF Spec

-----------------------------------------------------------------------------
(* Exclusive claims.                                                         *)
(*                                                                           *)
(* NoDoubleProcessing is not inductive: a second runner may claim a row only *)
(* when its reservation looks free or stale, so the induction has to know    *)
(* that a settling runner's row carries its own fresh stamp, that a runner   *)
(* past its last write left no row behind, and that ids are never reused.    *)

(* What a step may do to keep Exclusive without a new claim: rows come and   *)
(* go, but a runner that still settles keeps its stamp, and one that ceases  *)
(* to settle its job leaves no row.                                          *)
KeepsClaims ==
  /\ lastId' \in {lastId, lastId + 1}
  /\ DOMAIN jobs' \subseteq DOMAIN jobs \cup {lastId + 1}
  /\ \A s \in Runner :
       pc'[s] \in Busy =>
         /\ pc[s] \in Busy /\ claim'[s] = claim[s] /\ held'[s] = held[s]
         /\ claim[s].id \in DOMAIN jobs \cap DOMAIN jobs'
              => jobs'[claim[s].id].age = jobs[claim[s].id].age
         /\ pc'[s] \notin Settling =>
              pc[s] \notin Settling \/ claim[s].id \notin DOMAIN jobs'

(* A step that touches neither claims nor runners.                            *)
LEMMA KeepsExclusive ==
  ASSUME TypeOK, Exclusive, KeepsClaims
  PROVE  Exclusive'
<1>1. \A s \in Runner : pc[s] \in Busy => claim[s].id \in Nat /\ claim[s].id <= lastId
  BY DEF TypeOK, AwaitsOK, Claim, Exclusive, ClaimsKnown
<1>2. lastId \in Nat
  BY DEF TypeOK, StoreTypeOK, JobsTypeOK
<1>3. \A s \in Runner :
        pc'[s] \in Busy /\ claim[s].id \in DOMAIN jobs' => claim[s].id \in DOMAIN jobs
  BY <1>1, <1>2 DEF KeepsClaims
<1>4. ClaimsKnown'
  BY <1>1, <1>2 DEF KeepsClaims, ClaimsKnown
<1>5. SettledRowsGone'
  BY <1>3 DEF KeepsClaims, SettledRowsGone, Exclusive
<1>6. ReservationHeld'
  <2> SUFFICES ASSUME NEW s \in Runner, pc'[s] \in Settling, claim'[s].id \in DOMAIN jobs'
               PROVE  jobs'[claim'[s].id].age = held'[s] /\ held'[s] < Visibility
    BY DEF ReservationHeld
  <2>1. pc'[s] \in Busy
    BY DEF Busy
  <2>2. /\ pc[s] \in Settling /\ claim'[s] = claim[s] /\ held'[s] = held[s]
        /\ claim[s].id \in DOMAIN jobs
        /\ jobs'[claim[s].id].age = jobs[claim[s].id].age
    BY <1>3, <2>1 DEF KeepsClaims, Exclusive, SettledRowsGone
  <2> QED BY <2>2 DEF Exclusive, ReservationHeld
<1>7. NoDoubleProcessing'
  BY DEF KeepsClaims, NoDoubleProcessing, Exclusive
<1> QED BY <1>4, <1>5, <1>6, <1>7 DEF Exclusive

(* Steps that touch no runner: the rows they leave keep their stamps. *)
LEMMA RowsOnly ==
  ASSUME lastId' \in {lastId, lastId + 1},
         DOMAIN jobs' \subseteq DOMAIN jobs \cup {lastId + 1},
         \A i \in DOMAIN jobs \cap DOMAIN jobs' : jobs'[i].age = jobs[i].age,
         UNCHANGED <<pc, claim, held>>
  PROVE  KeepsClaims
  BY DEF KeepsClaims

(* A runner goes on with its job. *)
LEMMA MovesOn ==
  ASSUME TypeOK, NEW r \in Runner, NEW next \in Busy, pc[r] \in Busy,
         pc' = [pc EXCEPT ![r] = next], claim' = claim, held' = held,
         next \notin Settling => pc[r] \notin Settling \/ claim[r].id \notin DOMAIN jobs',
         lastId' \in {lastId, lastId + 1},
         DOMAIN jobs' \subseteq DOMAIN jobs \cup {lastId + 1},
         \A i \in DOMAIN jobs \cap DOMAIN jobs' : jobs'[i].age = jobs[i].age
  PROVE  KeepsClaims
<1>1. \A s \in Runner : pc'[s] = IF s = r THEN next ELSE pc[s]
  BY DEF TypeOK, RunnerTypeOK
<1> QED BY <1>1 DEF KeepsClaims

(* A runner ends its job; only its own row may have changed. *)
LEMMA LetsGo ==
  ASSUME TypeOK, Exclusive, NEW r \in Runner,
         pc'[r] \notin Busy,
         \A s \in Runner \ {r} :
           pc'[s] = pc[s] /\ claim'[s] = claim[s] /\ held'[s] = held[s],
         lastId' \in {lastId, lastId + 1},
         DOMAIN jobs' \subseteq DOMAIN jobs \cup {lastId + 1},
         \A i \in DOMAIN jobs \cap DOMAIN jobs' :
           jobs'[i].age = jobs[i].age \/ (pc[r] \in Busy /\ i = claim[r].id)
  PROVE  KeepsClaims
<1>1. \A s \in Runner \ {r} : pc[s] \in Busy /\ pc[r] \in Busy => claim[s].id # claim[r].id
  BY DEF Exclusive, NoDoubleProcessing
<1> QED BY <1>1 DEF KeepsClaims

(* Dispatching claims nothing.                                                *)
LEMMA DispatchKeeps ==
  ASSUME TypeOK, NEW p \in Process, NEW j \in Job, Dispatch(p, j)
  PROVE  KeepsClaims
<1>1. /\ lastId' \in {lastId, lastId + 1}
      /\ DOMAIN jobs' \subseteq DOMAIN jobs \cup {lastId + 1}
      /\ \A i \in DOMAIN jobs : jobs'[i].age = jobs[i].age
  BY EnqueueTypes DEF Dispatch, TypeOK, StoreTypeOK, HistoryTypeOK
<1> QED BY <1>1, RowsOnly DEF Dispatch, runnerVars

(* Nor does sending a batch's next job.                                       *)
LEMMA SendNextKeeps ==
  ASSUME TypeOK, NEW b \in Batch, SendNext(b)
  PROVE  KeepsClaims
<1>1. UNCHANGED <<pc, claim, held>>
  BY DEF SendNext, runnerVars
<1>2. CASE proc[sender[b]] = "up" /\ sent[b] < Len(BatchDef[b].jobs)
  <2>1. BatchDef[b].jobs \in Seq(Job) /\ sent[b] \in Nat
    BY ScenarioAssumption DEF Callbacks, TypeOK, ClientTypeOK
  <2>2. BatchDef[b].jobs[sent[b] + 1] \in Job
    BY <1>2, <2>1
  <2>3. Enqueue(BatchDef[b].jobs[sent[b] + 1], b)
    BY <1>2 DEF SendNext
  <2> QED BY <1>1, <2>2, <2>3, EnqueueTypes, RowsOnly DEF TypeOK, StoreTypeOK, HistoryTypeOK
<1>3. CASE ~(proc[sender[b]] = "up" /\ sent[b] < Len(BatchDef[b].jobs))
  BY <1>1, <1>3, RowsOnly DEF SendNext
<1> QED BY <1>2, <1>3

(* Nor do the consoles.                                                       *)
LEMMA AdminKeeps ==
  ASSUME TypeOK, NEW a \in Admin,
         \/ \E i \in DOMAIN failed : RetryFailed(a, i)
         \/ FlushJobs(a) \/ AdminStep(a) \/ AdminCrash(a)
  PROVE  KeepsClaims
<1>1. UNCHANGED <<pc, claim, held>>
  BY DEF RetryFailed, FlushJobs, AdminStep, Requeue, ForgetRetried,
         FlushFailed, FlushBatches, AdminCrash, runnerVars
<1>2. CASE FlushJobs(a)
  <2>1. jobs' = Without(jobs, DOMAIN jobs) /\ lastId' = lastId
    BY <1>2 DEF FlushJobs
  <2> QED BY <1>1, <2>1, RowsOnly DEF Without
<1>3. CASE Requeue(a)
  <2>1. CASE UNCHANGED <<jobs, lastId>>
    BY <1>1, <2>1, RowsOnly
  <2>2. ASSUME NEW row, InsertJob(row)
        PROVE  KeepsClaims
    <3>1. lastId + 1 \notin DOMAIN jobs
      BY DEF TypeOK, StoreTypeOK, JobsTypeOK
    <3> QED BY <1>1, <2>2, <3>1, RowsOnly DEF InsertJob, With
  <2> QED BY <1>3, <2>1, <2>2 DEF Requeue
<1>4. CASE ~FlushJobs(a) /\ ~Requeue(a)
  BY <1>1, <1>4, RowsOnly
     DEF RetryFailed, AdminStep, ForgetRetried, FlushFailed, FlushBatches,
         AdminCrash, storeVars
<1> QED BY <1>2, <1>3, <1>4

(* A process that goes forgets its runners' claims.                           *)
LEMMA ProcessKeeps ==
  ASSUME TypeOK, NEW p \in Process, Shutdown(p) \/ Crash(p) \/ ProcessStep(p)
  PROVE  KeepsClaims
<1>1. CASE Halt(p)
  BY <1>1 DEF Halt, KeepsClaims, Busy, Settling, storeVars
<1>2. CASE UNCHANGED <<storeVars, runnerVars>>
  BY <1>2, RowsOnly DEF storeVars, runnerVars
<1> QED BY <1>1, <1>2 DEF Shutdown, Crash, ProcessStep, Exit, DrainTimesOut, Restart

(* A handler changes no row.                                                  *)
LEMMA HandleKeeps ==
  ASSUME TypeOK, Exclusive, NEW r \in Runner,
         HandlerReturns(r) \/ HandlerThrows(r) \/ PoolRefuses(r)
  PROVE  KeepsClaims
<1>1. pc[r] = "handle" /\ UNCHANGED <<jobs, lastId>>
  BY DEF HandlerReturns, HandlerThrows, PoolRefuses, storeVars
<1>2. PICK next \in {"delete", "bury", "retry"} : Continue(r, next)
  BY DEF HandlerReturns, HandlerThrows, PoolRefuses, Failing
<1>3. next \in Busy /\ next \in Settling /\ pc[r] \in Busy
  BY <1>1 DEF Busy, Settling
<1> QED BY <1>1, <1>2, <1>3, MovesOn DEF Continue, Goto

(* A statement that is rejected changes none either.                          *)
LEMMA ErrorKeeps ==
  ASSUME TypeOK, Exclusive, NEW r \in Runner, DbError(r)
  PROVE  KeepsClaims
<1>1. pc[r] # "idle" /\ UNCHANGED <<jobs, lastId>>
  BY DEF DbError, storeVars
<1>2. CASE EndJob(r)
  <2>1. /\ pc'[r] \notin Busy
        /\ \A s \in Runner \ {r} :
             pc'[s] = pc[s] /\ claim'[s] = claim[s] /\ held'[s] = held[s]
    BY <1>1, <1>2, EndJobTypes DEF TypeOK, Busy, Settling
  <2> QED BY <1>1, <2>1, LetsGo
<1>3. CASE guarded[r] /\ Failing(r)
  <2>1. PICK next \in {"bury", "retry"} : Continue(r, next)
    BY <1>3 DEF Failing
  <2>2. pc[r] \in Busy
    BY <1>3 DEF TypeOK, AwaitsOK
  <2>3. next \in Busy /\ next \in Settling
    BY DEF Busy, Settling
  <2> QED BY <1>1, <2>1, <2>2, <2>3, MovesOn DEF Continue, Goto
<1> QED BY <1>2, <1>3 DEF DbError

(* Completion and failure.  The only steps out of Settling delete the row.   *)
LEMMA CountOrEndKeeps ==
  ASSUME TypeOK, Exclusive, NEW r \in Runner, pc[r] \in Busy, CountOrEnd(r),
         pc[r] \notin Settling \/ claim[r].id \notin DOMAIN jobs',
         lastId' \in {lastId, lastId + 1},
         DOMAIN jobs' \subseteq DOMAIN jobs \cup {lastId + 1},
         \A i \in DOMAIN jobs \cap DOMAIN jobs' : jobs'[i].age = jobs[i].age
  PROVE  KeepsClaims
<1>1. CASE Continue(r, "count")
  <2>1. "count" \in Busy /\ "count" \notin Settling
    BY DEF Busy, Settling
  <2> QED BY <1>1, <2>1, MovesOn DEF Continue, Goto
<1>2. CASE EndJob(r)
  <2>1. /\ pc'[r] \notin Busy
        /\ \A s \in Runner \ {r} :
             pc'[s] = pc[s] /\ claim'[s] = claim[s] /\ held'[s] = held[s]
    BY <1>2, EndJobTypes DEF TypeOK, Busy, Settling
  <2> QED BY <2>1, LetsGo
<1> QED BY <1>1, <1>2 DEF CountOrEnd

(* A job that ends deletes its own row.                                       *)
LEMMA EndJobKeeps ==
  ASSUME TypeOK, Exclusive, NEW r \in Runner, pc[r] # "idle", EndJob(r),
         lastId' \in {lastId, lastId + 1},
         DOMAIN jobs' \subseteq DOMAIN jobs \cup {lastId + 1},
         \A i \in DOMAIN jobs \cap DOMAIN jobs' :
           jobs'[i].age = jobs[i].age \/ (pc[r] \in Busy /\ i = claim[r].id)
  PROVE  KeepsClaims
<1>1. /\ pc'[r] \notin Busy
      /\ \A s \in Runner \ {r} :
           pc'[s] = pc[s] /\ claim'[s] = claim[s] /\ held'[s] = held[s]
  BY EndJobTypes DEF TypeOK, Busy, Settling
<1> QED BY <1>1, LetsGo

(* What follows a success pushes new rows.                                    *)
LEMMA CompleteKeeps ==
  ASSUME TypeOK, Exclusive, NEW r \in Runner,
         \/ DeleteDone(r) \/ PushChained(r) \/ CountComplete(r) \/ CountFailed(r)
         \/ FetchBatch(r) \/ PushCallback(r)
  PROVE  KeepsClaims
<1>1. pc[r] \in Busy /\ pc[r] # "idle"
  BY DEF DeleteDone, PushChained, CountComplete, CountFailed, CountJob, FetchBatch,
         PushCallback, Busy, Settling
<1>2. lastId \in Nat /\ lastId + 1 \notin DOMAIN jobs
  BY DEF TypeOK, StoreTypeOK, JobsTypeOK
<1>3. ASSUME NEW row, InsertJob(row)
      PROVE  /\ lastId' = lastId + 1
             /\ DOMAIN jobs' \subseteq DOMAIN jobs \cup {lastId + 1}
             /\ \A i \in DOMAIN jobs \cap DOMAIN jobs' : jobs'[i].age = jobs[i].age
  BY <1>2, <1>3 DEF InsertJob, With
<1>4. CASE DeleteDone(r)
  <2>1. /\ lastId' = lastId /\ DOMAIN jobs' = DOMAIN jobs \ {claim[r].id}
        /\ \A i \in DOMAIN jobs' : jobs'[i] = jobs[i]
    BY <1>4, DeleteJobEffect DEF DeleteDone, TypeOK, StoreTypeOK
  <2>2. CASE Continue(r, "chain")
    <3>1. "chain" \in Busy /\ "chain" \notin Settling
      BY DEF Busy, Settling
    <3> QED BY <1>1, <2>1, <2>2, <3>1, MovesOn DEF Continue, Goto
  <2>3. CASE CountOrEnd(r)
    BY <1>1, <2>1, <2>3, CountOrEndKeeps
  <2> QED BY <1>4, <2>2, <2>3 DEF DeleteDone
<1>5. CASE PushChained(r)
  <2>1. pc[r] \notin Settling /\ CountOrEnd(r) /\ \E row : InsertJob(row)
    BY <1>5 DEF PushChained, Settling
  <2> QED BY <1>1, <1>3, <2>1, CountOrEndKeeps
<1>6. CASE CountComplete(r) \/ CountFailed(r)
  <2>1. /\ pc[r] \notin Settling /\ UNCHANGED <<jobs, lastId>>
        /\ Continue(r, "fetch") \/ EndJob(r)
    BY <1>6 DEF CountComplete, CountFailed, CountJob, Settling
  <2>2. "fetch" \in Busy /\ "fetch" \notin Settling
    BY DEF Busy, Settling
  <2> QED BY <1>1, <2>1, <2>2, MovesOn, EndJobKeeps DEF Continue, Goto
<1>7. CASE FetchBatch(r)
  <2>1. /\ pc[r] \notin Settling /\ UNCHANGED <<jobs, lastId>>
        /\ Continue(r, "callbacks") \/ EndJob(r)
    BY <1>7 DEF FetchBatch, Settling, storeVars
  <2>2. "callbacks" \in Busy /\ "callbacks" \notin Settling
    BY DEF Busy, Settling
  <2> QED BY <1>1, <2>1, <2>2, MovesOn, EndJobKeeps DEF Continue, Goto
<1>8. CASE PushCallback(r)
  <2>1. /\ pc[r] \notin Settling /\ \E row : InsertJob(row)
        /\ Continue(r, "callbacks") \/ EndJob(r)
    BY <1>8 DEF PushCallback, Settling
  <2>2. "callbacks" \in Busy /\ "callbacks" \notin Settling
    BY DEF Busy, Settling
  <2>3. /\ lastId' = lastId + 1
        /\ DOMAIN jobs' \subseteq DOMAIN jobs \cup {lastId + 1}
        /\ \A i \in DOMAIN jobs \cap DOMAIN jobs' : jobs'[i].age = jobs[i].age
    BY <1>3, <2>1
  <2> QED BY <1>1, <2>1, <2>2, <2>3, MovesOn, EndJobKeeps DEF Continue, Goto
<1> QED BY <1>4, <1>5, <1>6, <1>7, <1>8

(* A failure settles the runner's own row.                                    *)
LEMMA FailKeeps ==
  ASSUME TypeOK, Exclusive, NEW r \in Runner, Bury(r) \/ Unlist(r) \/ Retry(r)
  PROVE  KeepsClaims
<1>1. pc[r] \in Busy /\ pc[r] # "idle"
  BY DEF Bury, Unlist, Retry, Busy, Settling
<1>2. CASE Bury(r)
  <2>1. UNCHANGED <<jobs, lastId>> /\ Continue(r, "unlist")
    BY <1>2 DEF Bury
  <2>2. "unlist" \in Busy /\ "unlist" \in Settling
    BY DEF Busy, Settling
  <2> QED BY <1>1, <2>1, <2>2, MovesOn DEF Continue, Goto
<1>3. CASE Unlist(r)
  <2>1. /\ lastId' = lastId /\ DOMAIN jobs' = DOMAIN jobs \ {claim[r].id}
        /\ \A i \in DOMAIN jobs' : jobs'[i] = jobs[i]
    BY <1>3, DeleteJobEffect DEF Unlist, TypeOK, StoreTypeOK
  <2>2. CASE Continue(r, "countFailed")
    <3>1. "countFailed" \in Busy /\ "countFailed" \notin Settling
      BY DEF Busy, Settling
    <3> QED BY <1>1, <2>1, <2>2, <3>1, MovesOn DEF Continue, Goto
  <2>3. CASE EndJob(r)
    BY <1>1, <2>1, <2>3, EndJobKeeps
  <2> QED BY <1>3, <2>2, <2>3 DEF Unlist
<1>4. CASE Retry(r)
  <2>1. Record(r).policy.delay \in Nat
    BY <1>1, BusyClaim DEF TypeOK, JobRow, Policy
  <2>2. EndJob(r) /\ \/ RetryJob(claim[r].id, Record(r).policy.delay)
                     \/ UNCHANGED <<jobs, lastId>>
    BY <1>4 DEF Retry
  <2>3. /\ lastId' = lastId /\ DOMAIN jobs' = DOMAIN jobs
        /\ \A i \in DOMAIN jobs \ {claim[r].id} : jobs'[i] = jobs[i]
    BY <2>1, <2>2, RetryJobEffect DEF TypeOK, StoreTypeOK
  <2> QED BY <1>1, <2>2, <2>3, EndJobKeeps
<1> QED BY <1>2, <1>3, <1>4

(* A poll claims a row nobody has.                                            *)
LEMMA PollKeeps ==
  ASSUME TypeOK, Exclusive, NEW r \in Runner, Poll(r) \/ PopNothing(r)
  PROVE  KeepsClaims
<1>1. CASE Poll(r)
  <2>1. /\ pc' = [pc EXCEPT ![r] = "pop"] /\ UNCHANGED <<claim, held, jobs, lastId>>
    BY <1>1 DEF Poll, Goto, storeVars
  <2>2. "pop" \notin Busy
    BY DEF Busy, Settling
  <2>3. pc'[r] \notin Busy /\ \A s \in Runner \ {r} : pc'[s] = pc[s]
    BY <2>1, <2>2 DEF TypeOK, RunnerTypeOK
  <2> QED BY <2>1, <2>3, LetsGo
<1>2. CASE PopNothing(r)
  BY <1>2, EndJobKeeps DEF PopNothing, storeVars
<1> QED BY <1>1, <1>2

(* pop takes a row no runner still holds: a settling runner's row is reserved *)
(* and fresh, and a runner past its last write has no row.                    *)
LEMMA PopExclusive ==
  ASSUME TypeOK, Exclusive, NEW r \in Runner, PopJob(r)
  PROVE  Exclusive'
<1>1. PICK i \in DOMAIN jobs :
        /\ i \in Claimable(Head(sweep[r]))
        /\ ClaimRow(i)
        /\ claim' = [claim EXCEPT ![r] = [id |-> i, row |-> Claimed(i)]]
        /\ \E next \in {"bury", "handle", "retry"} : pc' = [pc EXCEPT ![r] = next]
  BY DEF PopJob, Goto, AfterClaim, IsOldest
<1>2. pc[r] = "pop" /\ held' = [held EXCEPT ![r] = 0]
  BY DEF PopJob
<1>3. /\ lastId' = lastId /\ lastId \in Nat /\ i \in 1..lastId
      /\ DOMAIN jobs' = DOMAIN jobs /\ jobs'[i].age = 0
      /\ \A k \in DOMAIN jobs \ {i} : jobs'[k] = jobs[k]
  BY <1>1, ClaimRowEffect DEF TypeOK, StoreTypeOK, JobsTypeOK
<1>4. /\ claim'[r].id = i /\ pc'[r] \in Settling /\ held'[r] = 0
      /\ \A s \in Runner \ {r} :
           pc'[s] = pc[s] /\ claim'[s] = claim[s] /\ held'[s] = held[s]
  BY <1>1, <1>2 DEF TypeOK, RunnerTypeOK, Settling
<1>5. \A s \in Runner \ {r} : pc[s] \in Busy => claim[s].id # i
  <2> SUFFICES ASSUME NEW s \in Runner \ {r}, pc[s] \in Busy, claim[s].id = i
               PROVE  FALSE
    OBVIOUS
  <2>1. pc[s] \in Settling
    BY DEF Exclusive, SettledRowsGone
  <2>2. jobs[i].age = held[s] /\ held[s] < Visibility
    BY <2>1 DEF Exclusive, ReservationHeld
  <2>3. held[s] \in 0..Visibility
    BY DEF TypeOK, RunnerTypeOK
  <2>4. jobs[i].age = Unreserved \/ jobs[i].age >= Visibility
    BY <1>1 DEF Claimable
  <2> QED BY <2>2, <2>3, <2>4, VisibilityAssumption DEF Unreserved
<1>6. ClaimsKnown'
  BY <1>3, <1>4 DEF Exclusive, ClaimsKnown
<1>7. SettledRowsGone'
  BY <1>3, <1>4 DEF Exclusive, SettledRowsGone
<1>8. ReservationHeld'
  <2> SUFFICES ASSUME NEW s \in Runner, pc'[s] \in Settling, claim'[s].id \in DOMAIN jobs'
               PROVE  jobs'[claim'[s].id].age = held'[s] /\ held'[s] < Visibility
    BY DEF ReservationHeld
  <2>1. CASE s = r
    BY <1>3, <1>4, <2>1, VisibilityAssumption
  <2>2. CASE s # r
    <3>1. pc[s] \in Busy
      BY <1>4, <2>2 DEF Busy
    <3>2. claim[s].id \in DOMAIN jobs \ {i}
      BY <1>3, <1>4, <1>5, <2>2, <3>1
    <3> QED BY <1>3, <1>4, <2>2, <3>2 DEF Exclusive, ReservationHeld
  <2> QED BY <2>1, <2>2
<1>9. NoDoubleProcessing'
  BY <1>4, <1>5 DEF Exclusive, NoDoubleProcessing
<1> QED BY <1>6, <1>7, <1>8, <1>9 DEF Exclusive

(* A second that lets no claim lapse ages a reservation and its claim alike. *)
LEMMA ElapseExclusive ==
  ASSUME TypeOK, Exclusive, Elapse, \A r \in Runner : ~Tired(r)
  PROVE  Exclusive'
<1>1. /\ lastId' = lastId /\ DOMAIN jobs' = DOMAIN jobs
      /\ \A i \in DOMAIN jobs : jobs'[i].age = Older(jobs[i].age)
  BY ElapseEffect DEF Elapse, TypeOK, StoreTypeOK
<1>2. pc' = pc /\ claim' = claim
  BY DEF Elapse
<1>3. ClaimsKnown' /\ SettledRowsGone' /\ NoDoubleProcessing'
  BY <1>1, <1>2 DEF Exclusive, ClaimsKnown, SettledRowsGone, NoDoubleProcessing
<1>4. ReservationHeld'
  <2> SUFFICES ASSUME NEW s \in Runner, pc[s] \in Settling, claim[s].id \in DOMAIN jobs
               PROVE  jobs'[claim[s].id].age = held'[s] /\ held'[s] < Visibility
    BY <1>1, <1>2 DEF ReservationHeld
  <2>1. /\ jobs[claim[s].id].age = held[s] /\ held[s] < Visibility
        /\ held[s] \in 0..Visibility
    BY DEF Exclusive, ReservationHeld, TypeOK, RunnerTypeOK
  <2>2. held[s] + 1 < Visibility
    BY <2>1, VisibilityAssumption DEF Tired
  <2>3. held'[s] = held[s] + 1
    BY <2>1 DEF Elapse
  <2>4. Older(held[s]) = held[s] + 1
    BY <2>1, <2>2, VisibilityAssumption DEF Older, Unreserved
  <2> QED BY <1>1, <2>1, <2>2, <2>3, <2>4
<1> QED BY <1>3, <1>4 DEF Exclusive

(* Every step keeps claims exclusive.                                         *)
LEMMA ExclusiveStep ==
  ASSUME TypeOK, Exclusive, [Next]_vars,
         Elapse => \A r \in Runner : ~Tired(r)
  PROVE  Exclusive'
<1>1. CASE \/ \E p \in Process, j \in Job : Dispatch(p, j)
           \/ \E b \in Batch : SendNext(b)
  BY <1>1, DispatchKeeps, SendNextKeeps, KeepsExclusive
<1>2. CASE \E p \in Process, b \in Batch : DispatchBatch(p, b)
  BY <1>2, RowsOnly, KeepsExclusive DEF DispatchBatch, runnerVars
<1>3. CASE \E r \in Runner : Poll(r) \/ RunnerStep(r) \/ DbError(r)
  BY <1>3, PollKeeps, PopExclusive, HandleKeeps, CompleteKeeps, FailKeeps, ErrorKeeps,
     KeepsExclusive DEF RunnerStep
<1>4. CASE \E a \in Admin : \/ \E i \in DOMAIN failed : RetryFailed(a, i)
                            \/ FlushJobs(a) \/ AdminStep(a) \/ AdminCrash(a)
  BY <1>4, AdminKeeps, KeepsExclusive
<1>5. CASE DiscardFailed
  <2>1. UNCHANGED <<jobs, lastId, pc, claim, held>>
    BY <1>5 DEF DiscardFailed, Discard, runnerVars
  <2> QED BY <2>1, RowsOnly, KeepsExclusive
<1>6. CASE \E p \in Process : Shutdown(p) \/ Crash(p) \/ ProcessStep(p)
  BY <1>6, ProcessKeeps, KeepsExclusive
<1>7. CASE Elapse
  BY <1>7, ElapseExclusive
<1>8. CASE UNCHANGED vars
  BY <1>8, RowsOnly, KeepsExclusive DEF vars, storeVars, runnerVars
<1> QED BY <1>1, <1>2, <1>3, <1>4, <1>5, <1>6, <1>7, <1>8 DEF Next

(* Only a second that lets a claim lapse spends that part of the spent.      *)
LEMMA LapseSpent ==
  ASSUME TypeOK, [Next]_vars
  PROVE  \/ spent'.lapse = spent.lapse /\ (Elapse => \A r \in Runner : ~Tired(r))
         \/ spent'.lapse = spent.lapse + 1
<1>1. spent \in Bounds
  BY DEF TypeOK
<1>2. CASE Elapse
  BY <1>1, <1>2, SpendTypes DEF Elapse
<1>3. CASE ~Elapse
  <2>1. CASE \/ UNCHANGED spent
             \/ \E what \in {"crash", "stop", "error", "admin"} : Spend(what)
    BY <1>1, <1>3, <2>1, SpendTypes
  <2>2. \A r \in Runner : DbError(r) => Spend("error")
    BY DEF DbError
  <2>3. \A r \in Runner : Poll(r) \/ RunnerStep(r) => UNCHANGED spent
    BY DEF Poll, RunnerStep, PopNothing, PopJob, HandlerReturns, HandlerThrows,
           PoolRefuses, DeleteDone, PushChained, CountComplete, CountFailed, CountJob,
           Bury, Unlist, FetchBatch, PushCallback, Retry
  <2>4. \A a \in Admin :
          (\E i \in DOMAIN failed : RetryFailed(a, i))
             \/ FlushJobs(a) \/ AdminStep(a) \/ AdminCrash(a)
          => UNCHANGED spent \/ Spend("admin") \/ Spend("crash")
    BY DEF RetryFailed, FlushJobs, AdminStep, Requeue, ForgetRetried, FlushFailed,
           FlushBatches, AdminCrash
  <2>5. DiscardFailed => Spend("admin")
    BY DEF DiscardFailed, Discard
  <2>6. \A p \in Process : Shutdown(p) \/ Crash(p) \/ ProcessStep(p)
          => UNCHANGED spent \/ Spend("stop") \/ Spend("crash")
    BY DEF Shutdown, Crash, ProcessStep, DrainTimesOut, Exit, Restart
  <2>7. (\E p \in Process, j \in Job : Dispatch(p, j)) => UNCHANGED spent
    BY DEF Dispatch
  <2>8. /\ (\E p \in Process, b \in Batch : DispatchBatch(p, b)) => UNCHANGED spent
        /\ (\E b \in Batch : SendNext(b)) => UNCHANGED spent
    BY DEF DispatchBatch, SendNext
  <2>9. UNCHANGED vars => UNCHANGED spent
    BY DEF vars
  <2> DEFINE other == \/ UNCHANGED spent
                      \/ Spend("crash") \/ Spend("stop") \/ Spend("error") \/ Spend("admin")
  <2>10. (\E r \in Runner : Poll(r) \/ RunnerStep(r) \/ DbError(r)) => other
    BY <2>2, <2>3
  <2>11. (\E a \in Admin : \/ \E i \in DOMAIN failed : RetryFailed(a, i)
                           \/ FlushJobs(a) \/ AdminStep(a) \/ AdminCrash(a)) => other
    BY <2>4
  <2>12. (\E p \in Process : Shutdown(p) \/ Crash(p) \/ ProcessStep(p)) => other
    BY <2>6
  <2>13. other
    <3> HIDE DEF other
    <3>1. UNCHANGED spent => other
      BY DEF other
    <3>2. Spend("admin") => other
      BY DEF other
    <3> QED BY <1>3, <2>5, <2>7, <2>8, <2>9, <2>10, <2>11, <2>12, <3>1, <3>2 DEF Next
  <2> QED BY <2>1, <2>13
<1> QED BY <1>2, <1>3

ExclusiveInv ==
  /\ TypeOK
  /\ InTime => Exclusive

(* Nothing is claimed at the start.                                           *)
LEMMA ExclusiveInit == Init => ExclusiveInv
<1> SUFFICES ASSUME Init PROVE ExclusiveInv
  OBVIOUS
<1>2. Exclusive
  BY DEF Init, Exclusive, ClaimsKnown, SettledRowsGone, ReservationHeld,
         NoDoubleProcessing, Busy, Settling
<1> QED BY <1>2, TypeInit DEF ExclusiveInv, Init

(* The invariant, types included, is inductive.                               *)
LEMMA ExclusiveInvStep == ExclusiveInv /\ [Next]_vars => ExclusiveInv'
<1> SUFFICES ASSUME ExclusiveInv, [Next]_vars PROVE ExclusiveInv'
  OBVIOUS
<1>1. TypeOK /\ TypeOK'
  BY TypeStep DEF ExclusiveInv
<1>2. spent.lapse \in Nat
  BY <1>1 DEF TypeOK, Bounds
<1>3. CASE spent'.lapse = spent.lapse /\ (Elapse => \A r \in Runner : ~Tired(r))
  BY <1>1, <1>3, ExclusiveStep DEF ExclusiveInv, InTime
<1>4. CASE spent'.lapse = spent.lapse + 1
  BY <1>1, <1>2, <1>4 DEF ExclusiveInv, InTime
<1> QED BY <1>1, <1>3, <1>4, LapseSpent

(* Until a claim outlives the visibility timeout, at most one runner is        *)
(* between pop and the end of a job, and a runner that has yet to settle its   *)
(* job holds the row's reservation: through any number of crashes, restarts,   *)
(* database errors, retries and console operations.                            *)
THEOREM ClaimsExclusive ==
  Spec => [](InTime => NoDoubleProcessing /\ ReservationHeld)
<1>1. Init => ExclusiveInv
  BY ExclusiveInit
<1>2. ExclusiveInv /\ [Next]_vars => ExclusiveInv'
  BY ExclusiveInvStep
<1>3. ExclusiveInv => (InTime => NoDoubleProcessing /\ ReservationHeld)
  BY DEF ExclusiveInv, Exclusive
<1> QED BY <1>1, <1>2, <1>3, PTL DEF Spec

-----------------------------------------------------------------------------
(* Where rows come from.  Whatever the step, the jobs table changes by one   *)
(* statement, and every row of the new table has one of four origins: it is  *)
(* new, it was claimed, a debounced dispatch rewrote it, or what identifies  *)
(* it is as before.  The proofs below argue from these, not from the actions.*)

Dispatched(j, b) ==
  FreshRow(j, Def[j].chain, Def[j].policy, Def[j].debounce, b,
           IF Def[j].debounce > 0 THEN Def[j].key ELSE NoKey)
Chained(r) == Stored(Head(Record(r).chain), Tail(Record(r).chain), Record(r).policy)
CalledBack(r) == Stored(Head(todo[r]), << >>, DefaultPolicy)
Requeued(a) ==
  FreshRow(admin[a].row.job, admin[a].row.chain,
           [Def[admin[a].row.job].policy EXCEPT !.queue = admin[a].row.queue],
           0, NoBatch, NoKey)

(* Who dispatches: a process a job of its own, or a batch's loop its next job.*)
Enqueues(j, b) ==
  /\ Enqueue(j, b)
  /\ \/ b = NoBatch /\ j \in Solo \ accepted
     \/ /\ b \in Batch /\ SendNext(b)
        /\ sent[b] + 1 \in DOMAIN BatchDef[b].jobs /\ j = BatchDef[b].jobs[sent[b] + 1]
        /\ sent' = [sent EXCEPT ![b] = @ + 1]

(* The rows a step may push. *)
Pushes(row) ==
  \/ \E j \in Job, b \in Batch \cup {NoBatch} : Enqueues(j, b) /\ row = Dispatched(j, b)
  \/ \E r \in Runner : PushChained(r) /\ row = Chained(r)
  \/ \E r \in Runner : PushCallback(r) /\ row = CalledBack(r)
  \/ \E a \in Admin : /\ Requeue(a) /\ admin[a].row.job \in Buildable
                      /\ row = Requeued(a)

Statement ==
  \/ UNCHANGED <<jobs, lastId>>
  \/ \E r \in Runner : (DeleteDone(r) \/ Unlist(r)) /\ DeleteJob(claim[r].id)
  \/ /\ jobs' = Without(jobs, DOMAIN jobs) /\ UNCHANGED lastId /\ Spend("admin")
     /\ \A i \in DOMAIN jobs : jobs[i].job \in dropped'
  \/ \E row \in JobRow : Pushes(row) /\ row.key = NoKey /\ InsertJob(row)
  \/ \E row \in JobRow : /\ Pushes(row) /\ Def[row.job].debounce > 0
                         /\ UpsertDebounced(row)
                         /\ \A i \in Holders(row.key) : jobs[i].job \in dropped'
  \/ \E r \in Runner : PopJob(r)
  \/ \E r \in Runner, delay \in Nat :
       Retry(r) /\ claim[r].id \in Nat /\ RetryJob(claim[r].id, delay)
  \/ ElapseStore

(* dispatch inserts a row without a key, or upserts one with a key.           *)
LEMMA EnqueueStatement ==
  ASSUME NEW j \in Job, NEW b \in Batch \cup {NoBatch}, Enqueues(j, b)
  PROVE  Statement
<1> DEFINE d == Def[j]
<1>1. d \in JobDef
  BY ScenarioAssumption
<1>2. Unreserved \in -1..Visibility
  BY VisibilityAssumption DEF Unreserved
<1>3. Dispatched(j, b) \in JobRow
  BY <1>1, <1>2 DEF Dispatched, FreshRow, JobRow, JobDef
<1>4. Pushes(Dispatched(j, b))
  BY DEF Pushes
<1>5. CASE d.debounce > 0
  <2>1. /\ UpsertDebounced(Dispatched(j, b))
        /\ dropped' = dropped \cup {jobs[i].job : i \in Holders(d.key)}
    BY <1>5 DEF Enqueues, Enqueue, Dispatched
  <2>2. Dispatched(j, b).key = d.key /\ Dispatched(j, b).job = j
    BY <1>5 DEF Dispatched, FreshRow
  <2> QED BY <1>3, <1>4, <1>5, <2>1, <2>2 DEF Statement
<1>6. CASE ~(d.debounce > 0)
  <2>1. InsertJob(Dispatched(j, b)) /\ Dispatched(j, b).key = NoKey
    BY <1>6 DEF Enqueues, Enqueue, Dispatched, FreshRow
  <2> QED BY <1>3, <1>4, <2>1 DEF Statement
<1> QED BY <1>5, <1>6

(* A chained job, a callback and a retried failure have no key.               *)
LEMMA ChainedRow ==
  ASSUME TypeOK, NEW r \in Runner, PushChained(r)
  PROVE  Chained(r) \in JobRow /\ Chained(r).key = NoKey /\ InsertJob(Chained(r))
<1>1. pc[r] \in Busy /\ Record(r).chain # << >>
  BY DEF PushChained, Busy, TypeOK, AwaitsOK, Record
<1>2. Record(r).chain \in Seq(Job) /\ Record(r).policy \in Policy
  BY <1>1, BusyClaim DEF JobRow, TypeOK
<1>3. Head(Record(r).chain) \in Job /\ Tail(Record(r).chain) \in Seq(Job)
  BY <1>1, <1>2
<1>4. Chained(r) \in JobRow
  BY <1>2, <1>3, StoredRow DEF Chained
<1> QED BY <1>4 DEF PushChained, Chained, Stored, FreshRow

(* The same of a batch's callback.                                            *)
LEMMA CalledBackRow ==
  ASSUME TypeOK, NEW r \in Runner, PushCallback(r)
  PROVE  CalledBack(r) \in JobRow /\ CalledBack(r).key = NoKey /\ InsertJob(CalledBack(r))
<1>1. todo[r] \in Seq(Job) /\ todo[r] # << >>
  BY DEF PushCallback, TypeOK, AwaitsOK, RunnerTypeOK
<1>2. Head(todo[r]) \in Job /\ << >> \in Seq(Job)
  BY <1>1
<1>3. CalledBack(r) \in JobRow
  BY <1>2, StoredRow, ScenarioAssumption DEF CalledBack
<1> QED BY <1>3 DEF PushCallback, CalledBack, Stored, FreshRow

(* And of a failed job put back by hand.                                      *)
LEMMA RequeuedRow ==
  ASSUME TypeOK, NEW a \in Admin, Requeue(a), admin[a].row.job \in Buildable
  PROVE  /\ admin[a].row \in FailedRow
         /\ Requeued(a) \in JobRow /\ Requeued(a).key = NoKey /\ InsertJob(Requeued(a))
<1>1. admin[a] \in [pc: {"requeue", "forget"}, id: Nat, row: FailedRow]
  BY DEF Requeue, TypeOK, ClientTypeOK, AdminState, AdminIdle
<1>2. /\ admin[a].row.job \in Job /\ admin[a].row.chain \in Seq(Job)
      /\ admin[a].row.queue \in Queue
  BY <1>1 DEF FailedRow
<1>3. Def[admin[a].row.job].policy \in Policy /\ Unreserved \in -1..Visibility
  BY <1>2, ScenarioAssumption, VisibilityAssumption DEF JobDef, Unreserved
<1>4. [Def[admin[a].row.job].policy EXCEPT !.queue = admin[a].row.queue] \in Policy
  BY <1>2, <1>3 DEF Policy
<1>5. Requeued(a) \in JobRow
  BY <1>2, <1>3, <1>4 DEF Requeued, FreshRow, JobRow
<1> QED BY <1>1, <1>5 DEF Requeue, Requeued, FreshRow

(* A runner's steps: the claim, the settling of a row, the rows that a        *)
(* success pushes.                                                            *)
LEMMA RunnerStatement ==
  ASSUME TypeOK, NEW r \in Runner, Poll(r) \/ RunnerStep(r) \/ DbError(r)
  PROVE  Statement
<1>1. CASE \/ Poll(r) \/ PopNothing(r) \/ HandlerReturns(r) \/ HandlerThrows(r)
           \/ PoolRefuses(r) \/ CountComplete(r) \/ CountFailed(r) \/ Bury(r)
           \/ FetchBatch(r) \/ DbError(r)
  BY <1>1 DEF Statement, Poll, PopNothing, HandlerReturns, HandlerThrows, PoolRefuses,
     CountComplete, CountFailed, CountJob, Bury, FetchBatch, DbError, storeVars
<1>2. CASE PopJob(r)
  BY <1>2 DEF Statement
<1>3. CASE DeleteDone(r) \/ Unlist(r)
  BY <1>3 DEF DeleteDone, Unlist, Statement
<1>4. CASE PushChained(r)
  BY <1>4, ChainedRow DEF Statement, Pushes
<1>5. CASE PushCallback(r)
  BY <1>5, CalledBackRow DEF Statement, Pushes
<1>6. CASE Retry(r)
  <2>1. claim[r].id \in Nat /\ Record(r).policy.delay \in Nat
    BY <1>6, BusyClaim DEF TypeOK, Retry, Busy, Settling, Claim, JobRow, Policy
  <2> QED BY <1>6, <2>1 DEF Retry, Statement
<1> QED BY <1>1, <1>2, <1>3, <1>4, <1>5, <1>6 DEF RunnerStep

(* A console empties the table or puts a failed job back.                     *)
LEMMA AdminStatement ==
  ASSUME TypeOK, NEW a \in Admin,
         \/ \E i \in DOMAIN failed : RetryFailed(a, i)
         \/ FlushJobs(a) \/ AdminStep(a) \/ AdminCrash(a)
  PROVE  Statement
<1>1. CASE FlushJobs(a)
  <2>1. /\ jobs' = Without(jobs, DOMAIN jobs) /\ UNCHANGED lastId /\ Spend("admin")
        /\ dropped' = dropped \cup {jobs[i].job : i \in DOMAIN jobs}
    BY <1>1 DEF FlushJobs
  <2> QED BY <2>1 DEF Statement
<1>2. CASE Requeue(a)
  <2>1. CASE admin[a].row.job \in Buildable
    BY <1>2, <2>1, RequeuedRow DEF Statement, Pushes
  <2>2. CASE admin[a].row.job \notin Buildable
    BY <1>2, <2>2 DEF Requeue, Statement
  <2> QED BY <2>1, <2>2
<1>3. CASE ~FlushJobs(a) /\ ~Requeue(a)
  BY <1>3 DEF RetryFailed, AdminStep, ForgetRetried, FlushFailed, FlushBatches,
     AdminCrash, storeVars, Statement
<1> QED BY <1>1, <1>2, <1>3

(* A batch's loop dispatches the next job or stops.                           *)
LEMMA SendNextCases ==
  ASSUME TypeOK, NEW b \in Batch, SendNext(b)
  PROVE  \/ \E j \in Job : Enqueues(j, b)
         \/ UNCHANGED <<jobs, lastId, sent, accepted, dropped>>
<1>1. BatchDef[b].jobs \in Seq(Job) /\ sent[b] \in Nat
  BY ScenarioAssumption DEF Callbacks, TypeOK, ClientTypeOK
<1>2. CASE proc[sender[b]] = "up" /\ sent[b] < Len(BatchDef[b].jobs)
  <2>1. sent[b] + 1 \in DOMAIN BatchDef[b].jobs
    BY <1>1, <1>2
  <2>2. BatchDef[b].jobs[sent[b] + 1] \in Job
    BY <1>1, <2>1
  <2>3. /\ Enqueue(BatchDef[b].jobs[sent[b] + 1], b)
        /\ sent' = [sent EXCEPT ![b] = @ + 1]
    BY <1>2 DEF SendNext
  <2> QED BY <2>1, <2>2, <2>3 DEF Enqueues
<1>3. CASE ~(proc[sender[b]] = "up" /\ sent[b] < Len(BatchDef[b].jobs))
  BY <1>3 DEF SendNext
<1> QED BY <1>2, <1>3

(* Every step is one statement.                                               *)
LEMMA OneStatement ==
  ASSUME TypeOK, [Next]_vars
  PROVE  Statement
<1>1. CASE \E p \in Process, j \in Job : Dispatch(p, j)
  BY <1>1, EnqueueStatement DEF Dispatch, Enqueues
<1>2. CASE \E p \in Process, b \in Batch : DispatchBatch(p, b)
  BY <1>2 DEF DispatchBatch, Statement
<1>3. CASE \E b \in Batch : SendNext(b)
  BY <1>3, SendNextCases, EnqueueStatement DEF Statement
<1>4. CASE \E r \in Runner : Poll(r) \/ RunnerStep(r) \/ DbError(r)
  BY <1>4, RunnerStatement
<1>5. CASE \E a \in Admin : \/ \E i \in DOMAIN failed : RetryFailed(a, i)
                            \/ FlushJobs(a) \/ AdminStep(a) \/ AdminCrash(a)
  BY <1>5, AdminStatement
<1>6. CASE DiscardFailed
  BY <1>6 DEF DiscardFailed, Discard, Statement
<1>7. CASE \E p \in Process : Shutdown(p) \/ Crash(p) \/ ProcessStep(p)
  BY <1>7 DEF Shutdown, Crash, ProcessStep, DrainTimesOut, Exit, Restart, Halt,
     storeVars, Statement
<1>8. CASE Elapse
  BY <1>8 DEF Elapse, Statement
<1>9. CASE UNCHANGED vars
  BY <1>9 DEF vars, storeVars, Statement
<1> QED BY <1>1, <1>2, <1>3, <1>4, <1>5, <1>6, <1>7, <1>8, <1>9 DEF Next

(* What a claim takes: the oldest claimable row of the runner's queue, as the *)
(* runner's record.                                                           *)
Takes(r, i) ==
  /\ pc[r] = "pop" /\ i \in DOMAIN jobs
  /\ i \in Claimable(Head(sweep[r])) /\ ClaimRow(i)
  /\ claim'[r] = [id |-> i, row |-> Claimed(i)]
  /\ jobs'[i] = Claimed(i)

(* A pop takes one row.                                                       *)
LEMMA PopTakes ==
  ASSUME TypeOK, NEW r \in Runner, PopJob(r)
  PROVE  \E i \in DOMAIN jobs : Takes(r, i)
<1>1. PICK i \in DOMAIN jobs :
        /\ pc[r] = "pop"
        /\ i \in Claimable(Head(sweep[r])) /\ ClaimRow(i)
        /\ claim' = [claim EXCEPT ![r] = [id |-> i, row |-> Claimed(i)]]
  BY DEF PopJob, IsOldest
<1>2. jobs'[i] = Claimed(i)
  BY <1>1 DEF ClaimRow, TypeOK, StoreTypeOK, JobsTypeOK
<1>3. claim'[r] = [id |-> i, row |-> Claimed(i)]
  BY <1>1 DEF TypeOK, RunnerTypeOK
<1> QED BY <1>1, <1>2, <1>3 DEF Takes

(* What identifies a row: all but its run-at and its reservation. *)
SameRow(new, old) ==
  /\ new.job = old.job /\ new.chain = old.chain /\ new.policy = old.policy
  /\ new.attempts = old.attempts /\ new.batch = old.batch /\ new.key = old.key

RowOrigin(i) ==
  \/ i = lastId + 1 /\ lastId' = lastId + 1 /\ jobs'[i] \in JobRow /\ Pushes(jobs'[i])
  \/ i \in DOMAIN jobs /\ SameRow(jobs'[i], jobs[i])
  \/ /\ i \in DOMAIN jobs /\ jobs[i].age = Unreserved /\ jobs[i].job \in dropped'
     /\ \E row \in JobRow : /\ Pushes(row) /\ Def[row.job].debounce > 0
                            /\ row.key = jobs[i].key
                            /\ jobs'[i] = [jobs[i] EXCEPT !.job = row.job,
                                             !.chain = row.chain, !.policy = row.policy,
                                             !.due = row.due]
  \/ \E r \in Runner : PopJob(r) /\ Takes(r, i)

(* The origin of every row after a step.                                      *)
LEMMA RowsFrom ==
  ASSUME TypeOK, [Next]_vars, NEW i \in DOMAIN jobs'
  PROVE  RowOrigin(i)
<1>1. JobsTypeOK /\ JobsTypeOK'
  BY TypeStep DEF TypeOK, StoreTypeOK
<1>2. CASE UNCHANGED <<jobs, lastId>>
  BY <1>2 DEF RowOrigin, SameRow
<1>3. CASE \E ids : jobs' = Without(jobs, ids)
  BY <1>3 DEF Without, RowOrigin, SameRow
<1>4. CASE \E row \in JobRow : Pushes(row) /\ InsertJob(row)
  <2>1. PICK row \in JobRow : Pushes(row) /\ InsertJob(row)
    BY <1>4
  <2>2. /\ lastId' = lastId + 1
        /\ DOMAIN jobs' = DOMAIN jobs \cup {lastId + 1}
        /\ jobs'[lastId + 1] = row
        /\ \A k \in DOMAIN jobs : jobs'[k] = jobs[k]
    BY <1>1, <2>1, InsertJobEffect
  <2>3. CASE i = lastId + 1
    BY <2>1, <2>2, <2>3 DEF RowOrigin
  <2>4. CASE i \in DOMAIN jobs
    BY <2>2, <2>4 DEF RowOrigin, SameRow
  <2> QED BY <2>2, <2>3, <2>4
<1>5. CASE \E row \in JobRow : /\ Pushes(row) /\ Def[row.job].debounce > 0
                               /\ UpsertDebounced(row)
                               /\ \A k \in Holders(row.key) : jobs[k].job \in dropped'
  <2>1. PICK row \in JobRow : /\ Pushes(row) /\ Def[row.job].debounce > 0
                              /\ UpsertDebounced(row)
                              /\ \A k \in Holders(row.key) : jobs[k].job \in dropped'
    BY <1>5
  <2>2. CASE Holders(row.key) = {}
    BY <1>4, <2>1, <2>2 DEF UpsertDebounced
  <2>3. CASE Holders(row.key) # {}
    <3>1. /\ i \in DOMAIN jobs
          /\ jobs'[i] = IF i \in Holders(row.key)
                        THEN [jobs[i] EXCEPT !.job = row.job, !.chain = row.chain,
                                             !.policy = row.policy, !.due = row.due]
                        ELSE jobs[i]
      BY <2>1, <2>3 DEF UpsertDebounced
    <3>2. CASE i \in Holders(row.key)
      BY <2>1, <3>1, <3>2 DEF Holders, RowOrigin
    <3>3. CASE i \notin Holders(row.key)
      BY <3>1, <3>3 DEF RowOrigin, SameRow
    <3> QED BY <3>2, <3>3
  <2> QED BY <2>2, <2>3
<1>6. CASE \E r \in Runner : PopJob(r)
  <2>1. PICK r \in Runner : PopJob(r)
    BY <1>6
  <2>2. PICK k \in DOMAIN jobs : Takes(r, k)
    BY <2>1, PopTakes
  <2>3. DOMAIN jobs' = DOMAIN jobs /\ \A m \in DOMAIN jobs \ {k} : jobs'[m] = jobs[m]
    BY <1>1, <2>2, ClaimRowEffect DEF Takes
  <2>4. CASE i = k
    BY <2>1, <2>2, <2>4 DEF RowOrigin
  <2>5. CASE i # k
    BY <2>3, <2>5 DEF RowOrigin, SameRow
  <2> QED BY <2>4, <2>5
<1>7. CASE \E k \in Nat, delay \in Nat : RetryJob(k, delay)
  <2>1. PICK k \in Nat, delay \in Nat : RetryJob(k, delay)
    BY <1>7
  <2>2. /\ i \in DOMAIN jobs
        /\ jobs'[i] = IF i = k THEN [jobs[i] EXCEPT !.due = delay, !.age = Unreserved]
                               ELSE jobs[i]
    BY <2>1 DEF RetryJob
  <2>3. jobs[i] \in JobRow
    BY <1>1, <2>2 DEF JobsTypeOK
  <2> QED BY <2>2, <2>3 DEF RowOrigin, SameRow, JobRow
<1>8. CASE ElapseStore
  <2>1. /\ i \in DOMAIN jobs
        /\ jobs'[i] = [jobs[i] EXCEPT !.due = Max0(@ - 1), !.age = Older(@)]
    BY <1>8 DEF ElapseStore
  <2>2. jobs[i] \in JobRow
    BY <1>1, <2>1 DEF JobsTypeOK
  <2> QED BY <2>1, <2>2 DEF RowOrigin, SameRow, JobRow
<1> QED BY <1>2, <1>3, <1>4, <1>5, <1>6, <1>7, <1>8, OneStatement
       DEF Statement, DeleteJob
-----------------------------------------------------------------------------
(* The debounce index. *)

OneHolder == \A k \in DebounceKey : \A i1, i2 \in Holders(k) : i1 = i2

(* An upsert frees no row and inserts one only where the key had none.        *)
LEMMA UpsertHolders ==
  ASSUME JobsTypeOK, OneHolder, NEW row \in JobRow, UpsertDebounced(row)
  PROVE  OneHolder'
<1>1. CASE Holders(row.key) = {}
  <2>1. /\ DOMAIN jobs' = DOMAIN jobs \cup {lastId + 1}
        /\ jobs'[lastId + 1] = row
        /\ \A i \in DOMAIN jobs : jobs'[i] = jobs[i]
    BY <1>1, InsertJobEffect DEF UpsertDebounced
  <2> QED BY <1>1, <2>1 DEF OneHolder, Holders
<1>2. CASE Holders(row.key) # {}
  <2>1. jobs' = [i \in DOMAIN jobs |->
                   IF i \in Holders(row.key)
                   THEN [jobs[i] EXCEPT !.job = row.job, !.chain = row.chain,
                                        !.policy = row.policy, !.due = row.due]
                   ELSE jobs[i]]
    BY <1>2 DEF UpsertDebounced
  <2>2. \A i \in DOMAIN jobs :
          /\ jobs'[i].key = jobs[i].key /\ jobs'[i].age = jobs[i].age
    <3> TAKE i \in DOMAIN jobs
    <3>1. jobs[i] \in JobRow
      BY DEF JobsTypeOK
    <3> QED BY <2>1, <3>1 DEF JobRow
  <2>3. DOMAIN jobs' = DOMAIN jobs
    BY <2>1
  <2> QED BY <2>2, <2>3 DEF OneHolder, Holders
<1> QED BY <1>1, <1>2

(* A retry frees a row only where no other one holds the key.                 *)
LEMMA RetryHolders ==
  ASSUME JobsTypeOK, OneHolder, NEW i \in Nat, NEW delay \in Nat, RetryJob(i, delay)
  PROVE  OneHolder'
<1>1. /\ DOMAIN jobs' = DOMAIN jobs
      /\ \A k \in DOMAIN jobs \ {i} : jobs'[k] = jobs[k]
  BY RetryJobEffect
<1>2. CASE i \notin DOMAIN jobs
  BY <1>1, <1>2 DEF OneHolder, Holders
<1>3. CASE i \in DOMAIN jobs
  <2>1. jobs[i] \in JobRow
    BY <1>3 DEF JobsTypeOK
  <2>2. jobs'[i].key = jobs[i].key
    BY <1>3, <2>1 DEF RetryJob, JobRow
  <2>3. jobs[i].key = NoKey \/ Holders(jobs[i].key) \ {i} = {}
    BY <1>3 DEF RetryJob, RetryRefused
  <2>4. \A k \in DebounceKey : k # NoKey
    BY NullAssumption
  <2> QED BY <1>1, <2>2, <2>3, <2>4 DEF OneHolder, Holders
<1> QED BY <1>2, <1>3

(* No statement breaks the index.                                             *)
LEMMA StatementHolders ==
  ASSUME JobsTypeOK, OneHolder, Statement
  PROVE  OneHolder'
<1>1. CASE UNCHANGED <<jobs, lastId>>
  BY <1>1 DEF OneHolder, Holders
<1>2. CASE \E ids : jobs' = Without(jobs, ids)
  BY <1>2 DEF OneHolder, Holders, Without
<1>3. CASE \E row \in JobRow : Pushes(row) /\ row.key = NoKey /\ InsertJob(row)
  <2>1. PICK row \in JobRow : row.key = NoKey /\ InsertJob(row)
    BY <1>3
  <2>2. /\ DOMAIN jobs' = DOMAIN jobs \cup {lastId + 1}
        /\ jobs'[lastId + 1] = row
        /\ \A i \in DOMAIN jobs : jobs'[i] = jobs[i]
    BY <2>1, InsertJobEffect
  <2> QED BY <2>1, <2>2, NullAssumption DEF OneHolder, Holders
<1>4. CASE \E r \in Runner : PopJob(r)
  <2>1. PICK i \in DOMAIN jobs : ClaimRow(i)
    BY <1>4 DEF PopJob
  <2>2. /\ DOMAIN jobs' = DOMAIN jobs /\ jobs'[i].age = 0
        /\ \A k \in DOMAIN jobs \ {i} : jobs'[k] = jobs[k]
    BY <2>1, ClaimRowEffect
  <2> QED BY <2>2 DEF OneHolder, Holders, Unreserved
<1>5. CASE ElapseStore
  <2>1. /\ DOMAIN jobs' = DOMAIN jobs
        /\ \A i \in DOMAIN jobs : jobs'[i].age = Older(jobs[i].age)
    BY <1>5, ElapseEffect
  <2>2. \A i \in DOMAIN jobs : /\ jobs'[i].key = jobs[i].key
                               /\ jobs'[i].age = Unreserved => jobs[i].age = Unreserved
    <3> TAKE i \in DOMAIN jobs
    <3>1. jobs[i] \in JobRow
      BY DEF JobsTypeOK
    <3>2. jobs'[i].key = jobs[i].key
      BY <1>5, <3>1 DEF ElapseStore, JobRow
    <3>3. Older(jobs[i].age) = Unreserved => jobs[i].age = Unreserved
      BY <3>1, VisibilityAssumption DEF Older, Unreserved, JobRow
    <3> QED BY <2>1, <3>2, <3>3
  <2> QED BY <2>1, <2>2 DEF OneHolder, Holders
<1> QED BY <1>1, <1>2, <1>3, <1>4, <1>5, UpsertHolders, RetryHolders
       DEF Statement, DeleteJob

(* The index itself: a set of holders with no two members has at most one.    *)
LEMMA OneHolderUnique ==
  ASSUME OneHolder
  PROVE  KeysUnique
<1> SUFFICES ASSUME NEW k \in DebounceKey PROVE Cardinality(Holders(k)) <= 1
  BY DEF KeysUnique
<1>1. CASE Holders(k) = {}
  BY <1>1, FS_EmptySet
<1>2. CASE Holders(k) # {}
  <2>1. PICK i : Holders(k) = {i}
    BY <1>2 DEF OneHolder
  <2> QED BY <2>1, FS_Singleton
<1> QED BY <1>1, <1>2

(* At most one row free to be claimed holds a debounce key, whatever crashes,  *)
(* errors, lapsed claims and console operations come between: an upsert only   *)
(* inserts where there is none, and a retry whose row would become the second  *)
(* is refused (zerotal_jobs_debounce_idx).                                     *)
THEOREM DebounceIndex == Spec => []KeysUnique
<1>1. Init => OneHolder
  BY DEF Init, StoreInit, OneHolder, Holders
<1>2. TypeOK /\ OneHolder /\ [Next]_vars => OneHolder'
  BY OneStatement, StatementHolders DEF TypeOK, StoreTypeOK
<1>3. OneHolder => KeysUnique
  BY OneHolderUnique
<1> QED BY <1>1, <1>2, <1>3, TypeInit, TypeStep, PTL DEF Spec

-----------------------------------------------------------------------------
(* Where runners go.  A step moves one runner, along one of the arrows       *)
(* below; a crash or an exit sends a process's runners back to idle.         *)

Stays(s) == pc'[s] = pc[s] /\ claim'[s] = claim[s] /\ todo'[s] = todo[s]

GivesUp(s) == pc'[s] = "bury" /\ Record(s).attempts >= Record(s).policy.max
TriesAgain(s) == pc'[s] = "retry" /\ Record(s).attempts < Record(s).policy.max

Advances(s) ==
  /\ pc[s] \in Busy /\ claim'[s] = claim[s]
  /\ \/ (pc[s] = "handle" \/ DbError(s)) /\ (GivesUp(s) \/ TriesAgain(s))
     \/ HandlerReturns(s) /\ pc'[s] = "delete"
     \/ Bury(s) /\ pc'[s] = "unlist"
     \/ DeleteDone(s) /\ pc'[s] = "chain"
     \/ (DeleteDone(s) \/ PushChained(s)) /\ pc'[s] = "count"
     \/ Unlist(s) /\ pc'[s] = "countFailed"
     \/ (CountComplete(s) \/ CountFailed(s)) /\ pc'[s] = "fetch"
     \/ FetchBatch(s) /\ pc'[s] = "callbacks" /\ todo'[s] = todo[s]
     \/ PushCallback(s) /\ pc'[s] = "callbacks" /\ todo'[s] = Tail(todo[s])

Moves(s) == Stays(s) \/ pc'[s] \notin Busy \/ PopJob(s) \/ Advances(s)

(* The end of a job.                                                          *)
LEMMA EndMoves ==
  ASSUME TypeOK, NEW r \in Runner, EndJob(r)
  PROVE  pc'[r] \notin Busy /\ \A s \in Runner \ {r} : Stays(s)
<1>1. /\ pc' = [pc EXCEPT ![r] = IF MoreQueues(r) THEN "pop" ELSE "idle"]
      /\ claim' = [claim EXCEPT ![r] = NoClaim]
      /\ todo' = [todo EXCEPT ![r] = << >>]
  BY DEF EndJob, Goto
<1>2. pc'[r] \in {"pop", "idle"}
  BY <1>1 DEF TypeOK, RunnerTypeOK
<1>3. \A s \in Runner \ {r} : Stays(s)
  BY <1>1 DEF TypeOK, RunnerTypeOK, Stays
<1> QED BY <1>2, <1>3 DEF Busy, Settling

(* Going on with the same job.                                                *)
LEMMA ContinueMoves ==
  ASSUME TypeOK, NEW r \in Runner, NEW next, Continue(r, next),
         \A s \in Runner \ {r} : todo'[s] = todo[s]
  PROVE  /\ pc'[r] = next /\ claim' = claim
         /\ \A s \in Runner \ {r} : Stays(s)
  BY DEF Continue, Goto, TypeOK, RunnerTypeOK, Stays

(* The catch block.                                                           *)
LEMMA FailingMoves ==
  ASSUME TypeOK, NEW r \in Runner, pc[r] \in Busy, pc[r] = "handle" \/ DbError(r), Failing(r)
  PROVE  Advances(r) /\ \A s \in Runner \ {r} : Stays(s)
<1>1. Record(r).attempts \in Nat /\ Record(r).policy.max \in Nat
  BY BusyClaim DEF TypeOK, JobRow, Policy
<1>2. \A s \in Runner \ {r} : todo'[s] = todo[s]
  BY DEF Failing, TypeOK, RunnerTypeOK
<1>3. CASE Record(r).attempts >= Record(r).policy.max
  <2>1. Continue(r, "bury")
    BY <1>3 DEF Failing
  <2> QED BY <1>2, <1>3, <2>1, ContinueMoves DEF Advances, GivesUp
<1>4. CASE ~(Record(r).attempts >= Record(r).policy.max)
  <2>1. Continue(r, "retry")
    BY <1>4 DEF Failing
  <2> QED BY <1>1, <1>2, <1>4, <2>1, ContinueMoves DEF Advances, TriesAgain
<1> QED BY <1>3, <1>4

(* After the chain step.                                                      *)
LEMMA CountOrEndMoves ==
  ASSUME TypeOK, NEW r \in Runner, CountOrEnd(r)
  PROVE  /\ pc'[r] \notin Busy \/ (pc'[r] = "count" /\ claim' = claim)
         /\ \A s \in Runner \ {r} : Stays(s)
<1>1. CASE EndJob(r)
  BY <1>1, EndMoves
<1>2. CASE Continue(r, "count") /\ todo' = todo
  BY <1>2, ContinueMoves
<1> QED BY <1>1, <1>2 DEF CountOrEnd

(* One runner's step moves that runner only.                                  *)
LEMMA RunnerStepMoves ==
  ASSUME TypeOK, NEW r \in Runner, Poll(r) \/ RunnerStep(r) \/ DbError(r)
  PROVE  Moves(r) /\ \A s \in Runner \ {r} : Stays(s)
<1>1. CASE Poll(r)
  BY <1>1 DEF Poll, Goto, TypeOK, RunnerTypeOK, Stays, Moves, Busy, Settling
<1>2. CASE PopNothing(r)
  BY <1>2, EndMoves DEF PopNothing, Moves
<1>3. CASE PopJob(r)
  <2>1. PICK i \in DOMAIN jobs :
          /\ claim' = [claim EXCEPT ![r] = [id |-> i, row |-> Claimed(i)]]
          /\ \E next \in {"bury", "handle", "retry"} : pc' = [pc EXCEPT ![r] = next]
    BY <1>3 DEF PopJob, Goto, AfterClaim
  <2>2. todo' = todo
    BY <1>3 DEF PopJob
  <2>3. \A s \in Runner \ {r} : Stays(s)
    BY <2>1, <2>2 DEF Stays, TypeOK, RunnerTypeOK
  <2> QED BY <1>3, <2>3 DEF Moves
<1>4. CASE HandlerReturns(r)
  <2>1. pc[r] \in Busy /\ Continue(r, "delete") /\ todo' = todo
    BY <1>4 DEF HandlerReturns, Busy, Settling
  <2> QED BY <1>4, <2>1, ContinueMoves DEF Moves, Advances
<1>5. CASE HandlerThrows(r) \/ PoolRefuses(r)
  BY <1>5, FailingMoves DEF HandlerThrows, PoolRefuses, Busy, Settling, Moves
<1>6. CASE DeleteDone(r)
  <2>1. pc[r] \in Busy
    BY <1>6 DEF DeleteDone, Busy, Settling
  <2>2. CASE Record(r).chain # << >>
    <3>1. Continue(r, "chain") /\ todo' = todo
      BY <1>6, <2>2 DEF DeleteDone
    <3> QED BY <1>6, <2>1, <3>1, ContinueMoves DEF Moves, Advances
  <2>3. CASE Record(r).chain = << >>
    BY <1>6, <2>1, <2>3, CountOrEndMoves DEF DeleteDone, Moves, Advances
  <2> QED BY <2>2, <2>3
<1>7. CASE PushChained(r)
  <2>1. pc[r] \in Busy /\ CountOrEnd(r)
    BY <1>7 DEF PushChained, Busy
  <2> QED BY <1>7, <2>1, CountOrEndMoves DEF Moves, Advances
<1>8. CASE CountComplete(r) \/ CountFailed(r)
  <2>1. PICK at \in {"count", "countFailed"}, n \in {0, 1} : CountJob(r, at, n)
    BY <1>8 DEF CountComplete, CountFailed
  <2>2. pc[r] \in Busy
    BY <2>1 DEF CountJob, Busy
  <2>3. CASE EndJob(r)
    BY <2>3, EndMoves DEF Moves
  <2>4. CASE ~EndJob(r)
    <3>1. Continue(r, "fetch") /\ \E new : todo' = [todo EXCEPT ![r] = new]
      BY <2>1, <2>4 DEF CountJob
    <3>2. \A s \in Runner \ {r} : todo'[s] = todo[s]
      BY <3>1 DEF TypeOK, RunnerTypeOK
    <3> QED BY <1>8, <2>2, <3>1, <3>2, ContinueMoves DEF Moves, Advances
  <2> QED BY <2>3, <2>4
<1>9. CASE Bury(r)
  <2>1. pc[r] \in Busy /\ Continue(r, "unlist") /\ todo' = todo
    BY <1>9 DEF Bury, Busy, Settling
  <2> QED BY <1>9, <2>1, ContinueMoves DEF Moves, Advances
<1>10. CASE Unlist(r)
  <2>1. CASE EndJob(r)
    BY <2>1, EndMoves DEF Moves
  <2>2. CASE ~EndJob(r)
    <3>1. pc[r] \in Busy /\ Continue(r, "countFailed") /\ todo' = todo
      BY <1>10, <2>2 DEF Unlist, Busy, Settling
    <3> QED BY <1>10, <3>1, ContinueMoves DEF Moves, Advances
  <2> QED BY <2>1, <2>2
<1>11. CASE FetchBatch(r)
  <2>1. CASE EndJob(r)
    BY <2>1, EndMoves DEF Moves
  <2>2. CASE ~EndJob(r)
    <3>1. pc[r] \in Busy /\ Continue(r, "callbacks") /\ todo' = todo
      BY <1>11, <2>2 DEF FetchBatch, Busy
    <3> QED BY <1>11, <3>1, ContinueMoves DEF Moves, Advances
  <2> QED BY <2>1, <2>2
<1>12. CASE PushCallback(r)
  <2>1. CASE EndJob(r)
    BY <2>1, EndMoves DEF Moves
  <2>2. CASE ~EndJob(r)
    <3>1. /\ pc[r] \in Busy /\ Continue(r, "callbacks")
          /\ todo' = [todo EXCEPT ![r] = Tail(@)]
      BY <1>12, <2>2 DEF PushCallback, Busy
    <3>2. todo'[r] = Tail(todo[r]) /\ \A s \in Runner \ {r} : todo'[s] = todo[s]
      BY <3>1 DEF TypeOK, RunnerTypeOK
    <3> QED BY <1>12, <3>1, <3>2, ContinueMoves DEF Moves, Advances
  <2> QED BY <2>1, <2>2
<1>13. CASE Retry(r)
  BY <1>13, EndMoves DEF Retry, Moves
<1>14. CASE DbError(r)
  <2>1. CASE EndJob(r)
    BY <2>1, EndMoves DEF Moves
  <2>2. CASE guarded[r] /\ Failing(r)
    BY <1>14, <2>2, FailingMoves DEF Moves, TypeOK, AwaitsOK
  <2> QED BY <1>14, <2>1, <2>2 DEF DbError
<1> QED BY <1>1, <1>2, <1>3, <1>4, <1>5, <1>6, <1>7, <1>8, <1>9, <1>10, <1>11, <1>12,
           <1>13, <1>14 DEF RunnerStep

(* Where a step may take a runner.                                            *)
LEMMA RunnerMoves ==
  ASSUME TypeOK, [Next]_vars, NEW s \in Runner
  PROVE  Moves(s)
<1>1. UNCHANGED runnerVars => Moves(s)
  BY DEF runnerVars, Moves, Stays
<1>2. CASE \/ \E p \in Process, j \in Job : Dispatch(p, j)
           \/ \E p \in Process, b \in Batch : DispatchBatch(p, b)
           \/ \E b \in Batch : SendNext(b)
           \/ DiscardFailed
  <2>1. UNCHANGED runnerVars
    BY <1>2 DEF Dispatch, DispatchBatch, SendNext, DiscardFailed, Discard
  <2> QED BY <1>1, <2>1
<1>3. CASE \E r \in Runner : Poll(r) \/ RunnerStep(r) \/ DbError(r)
  BY <1>3, RunnerStepMoves DEF Moves
<1>4. CASE \E a \in Admin : \/ \E i \in DOMAIN failed : RetryFailed(a, i)
                            \/ FlushJobs(a) \/ AdminStep(a) \/ AdminCrash(a)
  <2>1. UNCHANGED runnerVars
    BY <1>4 DEF RetryFailed, FlushJobs, AdminStep, Requeue, ForgetRetried,
                FlushFailed, FlushBatches, AdminCrash
  <2> QED BY <1>1, <2>1
<1>5. CASE \E p \in Process : Shutdown(p) \/ Crash(p) \/ ProcessStep(p)
  <2>1. PICK p \in Process : Shutdown(p) \/ Crash(p) \/ ProcessStep(p)
    BY <1>5
  <2>2. CASE Halt(p)
    BY <2>2 DEF Halt, Moves, Stays, Busy, Settling
  <2>3. CASE UNCHANGED runnerVars
    BY <1>1, <2>3
  <2> QED BY <2>1, <2>2, <2>3 DEF Shutdown, Crash, ProcessStep, Exit, DrainTimesOut, Restart
<1>6. CASE Elapse
  BY <1>6 DEF Elapse, Moves, Stays
<1>7. CASE UNCHANGED vars
  BY <1>1, <1>7 DEF vars
<1> QED BY <1>2, <1>3, <1>4, <1>5, <1>6, <1>7 DEF Next

-----------------------------------------------------------------------------
(* The failed table and the console.                                         *)

FailedStatement ==
  \/ UNCHANGED <<failed, lastFailed>>
  \/ \E r \in Runner : /\ Bury(r) /\ pc[r] = "bury" /\ Record(r) \in JobRow
                       /\ InsertFailed(Record(r), Record(r).attempts)
  \/ \E ids : /\ DeleteFailed(ids)
              /\ \A i \in ids : failed[i].job \in dropped'
  \/ \E a \in Admin : admin[a].pc = "forget" /\ DeleteFailed({admin[a].id})

(* Every step is at most one statement on the failed table.                   *)
LEMMA OneFailedStatement ==
  ASSUME TypeOK, [Next]_vars
  PROVE  FailedStatement
<1>1. CASE \/ \E p \in Process, j \in Job : Dispatch(p, j)
           \/ \E p \in Process, b \in Batch : DispatchBatch(p, b)
           \/ \E b \in Batch : SendNext(b)
           \/ Elapse
  BY <1>1 DEF Dispatch, DispatchBatch, SendNext, Elapse, ElapseStore, FailedStatement
<1>2. CASE \E r \in Runner : Poll(r) \/ RunnerStep(r) \/ DbError(r)
  <2>1. PICK r \in Runner : Poll(r) \/ RunnerStep(r) \/ DbError(r)
    BY <1>2
  <2>2. CASE Bury(r)
    <3>1. Record(r) \in JobRow
      BY <2>2, BusyClaim DEF Bury, TypeOK, Busy, Settling
    <3> QED BY <2>2, <3>1 DEF Bury, FailedStatement
  <2>3. CASE ~Bury(r)
    BY <2>1, <2>3 DEF RunnerStep, Poll, PopNothing, PopJob, HandlerReturns, HandlerThrows,
       PoolRefuses, DeleteDone, PushChained, CountComplete, CountFailed, CountJob, Unlist,
       FetchBatch, PushCallback, Retry, DbError, storeVars, FailedStatement
  <2> QED BY <2>2, <2>3
<1>3. CASE \E a \in Admin : \/ \E i \in DOMAIN failed : RetryFailed(a, i)
                            \/ FlushJobs(a) \/ AdminStep(a) \/ AdminCrash(a)
  <2>1. PICK a \in Admin : \/ \E i \in DOMAIN failed : RetryFailed(a, i)
                           \/ FlushJobs(a) \/ AdminStep(a) \/ AdminCrash(a)
    BY <1>3
  <2>2. CASE ForgetRetried(a)
    BY <2>2 DEF ForgetRetried, FailedStatement
  <2>3. CASE FlushFailed(a)
    BY <2>3 DEF FlushFailed, FailedStatement
  <2>4. CASE ~ForgetRetried(a) /\ ~FlushFailed(a)
    BY <2>1, <2>4 DEF RetryFailed, FlushJobs, AdminStep, Requeue, FlushBatches,
                      AdminCrash, storeVars, FailedStatement
  <2> QED BY <2>2, <2>3, <2>4
<1>4. CASE DiscardFailed
  <2>1. PICK ids : Discard(ids)
    BY <1>4 DEF DiscardFailed
  <2> QED BY <2>1 DEF Discard, FailedStatement
<1>5. CASE \E p \in Process : Shutdown(p) \/ Crash(p) \/ ProcessStep(p)
  BY <1>5 DEF Shutdown, Crash, ProcessStep, DrainTimesOut, Exit, Restart, Halt,
     storeVars, FailedStatement
<1>6. CASE UNCHANGED vars
  BY <1>6 DEF vars, storeVars, FailedStatement
<1> QED BY <1>1, <1>2, <1>3, <1>4, <1>5, <1>6 DEF Next

(* What one statement leaves of the failed table: ids are never used again.   *)
FailedOrigin(i) ==
  \/ i \in DOMAIN failed /\ failed'[i] = failed[i]
  \/ \E r \in Runner :
       /\ Bury(r) /\ pc[r] = "bury" /\ i = lastFailed + 1
       /\ failed'[i] = [job |-> Record(r).job, chain |-> Record(r).chain,
                        queue |-> Record(r).policy.queue, attempts |-> Record(r).attempts]

(* The origin of every failed row after a step.                               *)
LEMMA FailedFrom ==
  ASSUME TypeOK, [Next]_vars
  PROVE  /\ lastFailed' \in {lastFailed, lastFailed + 1}
         /\ \A i \in DOMAIN failed' : FailedOrigin(i)
<1>1. CASE \E r \in Runner : /\ Bury(r) /\ pc[r] = "bury"
                             /\ InsertFailed(Record(r), Record(r).attempts)
  <2>1. lastFailed + 1 \notin DOMAIN failed
    BY DEF TypeOK, StoreTypeOK, FailedTypeOK
  <2> QED BY <1>1, <2>1 DEF InsertFailed, With, FailedOrigin
<1>2. CASE \E ids : DeleteFailed(ids)
  BY <1>2 DEF DeleteFailed, Without, FailedOrigin
<1> QED BY <1>1, <1>2, OneFailedStatement DEF FailedStatement, FailedOrigin

(* A console's entry after a step: as it was, a failed row just picked, the   *)
(* same row once requeued, or none.                                           *)
HasRow(a) == admin[a].pc \in {"requeue", "forget"}
AdminMoves(a) ==
  \/ admin'[a] = admin[a]
  \/ \E i \in DOMAIN failed : admin'[a] = [pc |-> "requeue", id |-> i, row |-> failed[i]]
  \/ /\ Requeue(a) /\ admin[a].pc = "requeue" /\ admin[a].row.job \in Buildable
     /\ InsertJob(Requeued(a)) /\ failed' = failed
     /\ admin'[a] = [admin[a] EXCEPT !.pc = "forget"]
  \/ admin'[a].pc \notin {"requeue", "forget"}

(* What a step may do to a console's entry.                                   *)
LEMMA AdminMove ==
  ASSUME TypeOK, [Next]_vars, NEW c \in Admin
  PROVE  AdminMoves(c)
<1>1. CASE UNCHANGED admin
  BY <1>1 DEF AdminMoves
<1>2. CASE \E a \in Admin : \/ \E i \in DOMAIN failed : RetryFailed(a, i)
                            \/ FlushJobs(a) \/ AdminStep(a) \/ AdminCrash(a)
  <2>1. PICK a \in Admin : \/ \E i \in DOMAIN failed : RetryFailed(a, i)
                           \/ FlushJobs(a) \/ AdminStep(a) \/ AdminCrash(a)
    BY <1>2
  <2>2. \A state : AdminGoto(a, state) =>
           admin'[c] = IF c = a THEN state ELSE admin[c]
    BY DEF AdminGoto, TypeOK, ClientTypeOK
  <2>3. CASE \E i \in DOMAIN failed : RetryFailed(a, i)
    BY <2>2, <2>3 DEF RetryFailed, AdminMoves
  <2>4. CASE Requeue(a)
    <3>1. CASE admin[a].row.job \in Buildable
      <4>1. /\ AdminGoto(a, [admin[a] EXCEPT !.pc = "forget"])
            /\ admin[a].pc = "requeue" /\ failed' = failed
        BY <2>4, <3>1 DEF Requeue
      <4>2. InsertJob(Requeued(a))
        BY <2>4, <3>1, RequeuedRow
      <4> QED BY <2>2, <2>4, <3>1, <4>1, <4>2 DEF AdminMoves
    <3>2. CASE admin[a].row.job \notin Buildable
      <4>1. AdminGoto(a, AdminIdle)
        BY <2>4, <3>2 DEF Requeue
      <4> QED BY <2>2, <4>1 DEF AdminMoves, AdminIdle
    <3> QED BY <3>1, <3>2
  <2>5. CASE \E next \in {"idle", "flushFailed", "flushBatches"} : AdminGoto(a, [pc |-> next])
    BY <2>2, <2>5 DEF AdminMoves
  <2> QED BY <2>1, <2>3, <2>4, <2>5
          DEF FlushJobs, AdminStep, ForgetRetried, FlushFailed, FlushBatches, AdminCrash,
              AdminIdle
<1>3. CASE \/ \E p \in Process, j \in Job : Dispatch(p, j)
           \/ \E p \in Process, b \in Batch : DispatchBatch(p, b)
           \/ \E b \in Batch : SendNext(b)
           \/ DiscardFailed \/ Elapse
  BY <1>1, <1>3 DEF Dispatch, DispatchBatch, SendNext, DiscardFailed, Discard, Elapse, clientVars
<1>4. CASE \E r \in Runner : Poll(r) \/ RunnerStep(r) \/ DbError(r)
  <2>1. UNCHANGED clientVars
    BY <1>4 DEF RunnerStep, Poll, PopNothing, PopJob, HandlerReturns, HandlerThrows,
       PoolRefuses, DeleteDone, PushChained, CountComplete, CountFailed, CountJob, Bury,
       Unlist, FetchBatch, PushCallback, Retry, DbError
  <2> QED BY <1>1, <2>1 DEF clientVars
<1>5. CASE \E p \in Process : Shutdown(p) \/ Crash(p) \/ ProcessStep(p)
  BY <1>1, <1>5 DEF Shutdown, Crash, ProcessStep, DrainTimesOut, Exit, Restart, Halt, clientVars
<1>6. CASE UNCHANGED vars
  BY <1>1, <1>6 DEF vars, clientVars
<1> QED BY <1>2, <1>3, <1>4, <1>5, <1>6 DEF Next

-----------------------------------------------------------------------------
(* The row a runner has in hand.                                             *)

(* Until it settles it, a runner's record is the row in the table.            *)
OwnRow ==
  \A r \in Runner :
    pc[r] \in Settling /\ claim[r].id \in DOMAIN jobs
      => SameRow(jobs[claim[r].id], Record(r))

(* A row somebody holds is not claimed again, freed by another runner, or     *)
(* rewritten by a debounced dispatch.                                         *)
LEMMA OwnRowStep ==
  ASSUME TypeOK, Exclusive, OwnRow, [Next]_vars
  PROVE  OwnRow'
<1> SUFFICES ASSUME NEW s \in Runner, pc'[s] \in Settling, claim'[s].id \in DOMAIN jobs'
             PROVE  SameRow(jobs'[claim'[s].id], claim'[s].row)
  BY DEF OwnRow, Record, SameRow
<1>1. CASE PopJob(s)
  <2>1. PICK i \in DOMAIN jobs : Takes(s, i)
    BY <1>1, PopTakes
  <2>2. claim'[s].id = i /\ claim'[s].row = jobs'[i]
    BY <2>1 DEF Takes
  <2> QED BY <2>2 DEF SameRow
<1>2. CASE ~PopJob(s)
  <2>1. pc[s] \in Busy /\ claim'[s] = claim[s]
    BY <1>2, RunnerMoves DEF Moves, Stays, Advances, Busy
  <2> DEFINE i == claim[s].id
  <2>2. /\ i # lastId + 1 /\ lastId \in Nat
    BY <2>1 DEF TypeOK, StoreTypeOK, JobsTypeOK, AwaitsOK, Claim, Exclusive, ClaimsKnown
  <2>3. RowOrigin(i)
    BY <2>1, RowsFrom
  <2>4. i \in DOMAIN jobs
    BY <2>2, <2>3 DEF RowOrigin, Takes
  <2>5. pc[s] \in Settling
    BY <2>1, <2>4 DEF Exclusive, SettledRowsGone
  <2>6. jobs[i].age \in 0..(Visibility - 1)
    BY <2>4, <2>5, VisibilityAssumption
       DEF Exclusive, ReservationHeld, TypeOK, RunnerTypeOK
  <2>7. jobs[i].age # Unreserved /\ ~(jobs[i].age >= Visibility)
    BY <2>6, VisibilityAssumption DEF Unreserved
  <2>8. SameRow(jobs'[i], jobs[i])
    BY <2>2, <2>3, <2>7 DEF RowOrigin, Takes, Claimable
  <2> QED BY <2>1, <2>4, <2>5, <2>8 DEF OwnRow, SameRow, Record
<1> QED BY <1>1, <1>2

OwnInv == ExclusiveInv /\ (InTime => OwnRow)

(* It holds at the start and for as long as no claim lapses.                  *)
LEMMA OwnInvStep == (Init => OwnInv) /\ (OwnInv /\ [Next]_vars => OwnInv')
<1>1. Init => OwnInv
  BY ExclusiveInit DEF OwnInv, Init, OwnRow, Settling
<1>2. ASSUME OwnInv, [Next]_vars PROVE OwnInv'
  <2>1. ExclusiveInv'
    BY <1>2, ExclusiveInvStep DEF OwnInv
  <2>2. InTime' => InTime
    BY <1>2, LapseSpent DEF OwnInv, ExclusiveInv, InTime, TypeOK, Bounds
  <2>3. InTime' => OwnRow'
    BY <1>2, <2>2, OwnRowStep DEF OwnInv, ExclusiveInv
  <2> QED BY <2>1, <2>3 DEF OwnInv
<1> QED BY <1>1, <1>2
-----------------------------------------------------------------------------
(* No job is lost.                                                           *)

(* Rows on their way out: being unlisted once the failed row is written, and  *)
(* failed rows about to be forgotten once they are requeued.                  *)
Leaving == {claim[r].id : r \in {s \in Runner : pc[s] = "unlist"}}
Forgetting == {admin[a].id : a \in {c \in Admin : admin[c].pc = "forget"}}

Standing(j) == \E i \in DOMAIN jobs \ Leaving : jobs[i].job = j
Recorded(j) == \E i \in DOMAIN failed \ Forgetting : failed[i].job = j
Safe(j) == j \in succeeded \cup dropped \/ Standing(j) \/ Recorded(j)

AllSafe == \A j \in accepted : Safe(j)
DoneSucceeded ==
  \A r \in Runner : pc[r] \in {"delete", "chain", "count"} => Record(r).job \in succeeded
RequeuesKnown ==
  \A a \in Admin : HasRow(a) =>
    /\ admin[a].id <= lastFailed
    /\ admin[a].id \in DOMAIN failed => failed[admin[a].id].job = admin[a].row.job

(* A finished handler has succeeded.                                          *)
LEMMA DoneStep ==
  ASSUME TypeOK, DoneSucceeded, [Next]_vars
  PROVE  DoneSucceeded' /\ succeeded \subseteq succeeded'
<1>1. succeeded \subseteq succeeded'
  <2>1. ASSUME NEW r \in Runner, Poll(r) \/ RunnerStep(r) \/ DbError(r)
        PROVE  succeeded \subseteq succeeded'
    BY <2>1 DEF RunnerStep, Poll, PopNothing, PopJob, HandlerReturns, HandlerThrows,
       PoolRefuses, DeleteDone, PushChained, CountComplete, CountFailed, CountJob, Bury,
       Unlist, FetchBatch, PushCallback, Retry, DbError, history
  <2>2. ASSUME NEW a \in Admin,
               \/ \E i \in DOMAIN failed : RetryFailed(a, i)
               \/ FlushJobs(a) \/ AdminStep(a) \/ AdminCrash(a)
        PROVE  succeeded \subseteq succeeded'
    BY <2>2 DEF RetryFailed, FlushJobs, AdminStep, Requeue, ForgetRetried, FlushFailed,
       FlushBatches, AdminCrash, history
  <2>3. ASSUME NEW p \in Process, Shutdown(p) \/ Crash(p) \/ ProcessStep(p)
        PROVE  succeeded \subseteq succeeded'
    BY <2>3 DEF Shutdown, Crash, ProcessStep, DrainTimesOut, Exit, Restart, Halt, history
  <2>4. CASE \/ \E p \in Process, j \in Job : Dispatch(p, j)
             \/ \E p \in Process, b \in Batch : DispatchBatch(p, b)
             \/ \E b \in Batch : SendNext(b)
             \/ DiscardFailed \/ Elapse \/ UNCHANGED vars
    BY <2>4 DEF Dispatch, DispatchBatch, SendNext, DiscardFailed, Discard, Elapse, vars, history
  <2> QED BY <2>1, <2>2, <2>3, <2>4 DEF Next
<1>2. ASSUME NEW s \in Runner, pc'[s] \in {"delete", "chain", "count"}
      PROVE  claim'[s].row.job \in succeeded'
  <2>1. \/ Stays(s)
        \/ claim'[s] = claim[s] /\ (HandlerReturns(s) \/ DeleteDone(s) \/ PushChained(s))
    <3>1. pc'[s] \in Busy /\ ~PopJob(s)
      <4>1. PopJob(s) => pc'[s] \in {"bury", "handle", "retry"}
        BY DEF PopJob, Goto, AfterClaim, TypeOK, RunnerTypeOK
      <4> QED BY <1>2, <4>1 DEF Busy, Settling
    <3> QED BY <1>2, <3>1, RunnerMoves DEF Moves, Advances, GivesUp, TriesAgain
  <2>2. CASE Stays(s)
    BY <1>1, <1>2, <2>2 DEF Stays, DoneSucceeded, Record
  <2>3. CASE claim'[s] = claim[s] /\ HandlerReturns(s)
    BY <2>3 DEF HandlerReturns, Record
  <2>4. CASE claim'[s] = claim[s] /\ (DeleteDone(s) \/ PushChained(s))
    BY <1>1, <2>4 DEF DeleteDone, PushChained, DoneSucceeded, Record
  <2> QED BY <2>1, <2>2, <2>3, <2>4
<1> QED BY <1>1, <1>2 DEF DoneSucceeded, Record

KeptInv == AllSafe /\ DoneSucceeded /\ RequeuesKnown

(* A row starts to leave only when its job is being buried.                   *)
LEMMA LeavingStep ==
  ASSUME TypeOK, ClaimsKnown, [Next]_vars, NEW i \in Leaving'
  PROVE  /\ i \in Leaving \/ \E r \in Runner : Bury(r) /\ pc[r] = "bury" /\ i = claim[r].id
         /\ i <= lastId
<1>1. PICK s \in Runner : pc'[s] = "unlist" /\ i = claim'[s].id
  BY DEF Leaving
<1>2. ~PopJob(s)
  BY <1>1 DEF PopJob, Goto, AfterClaim, TypeOK, RunnerTypeOK
<1>3. /\ claim'[s] = claim[s]
      /\ pc[s] = "unlist" \/ Bury(s)
  BY <1>1, <1>2, RunnerMoves DEF Moves, Stays, Advances, GivesUp, TriesAgain, Busy, Settling
<1>4. pc[s] \in Busy
  BY <1>3 DEF Bury, Busy, Settling
<1>5. i <= lastId
  BY <1>1, <1>3, <1>4 DEF ClaimsKnown
<1> QED BY <1>1, <1>3, <1>5 DEF Leaving, Bury

(* A failed row is about to be forgotten only once its job is queued again.   *)
LEMMA ForgettingStep ==
  ASSUME TypeOK, [Next]_vars, NEW i \in Forgetting'
  PROVE  \/ i \in Forgetting
         \/ \E a \in Admin : /\ admin[a].pc = "requeue" /\ i = admin[a].id
                             /\ admin[a].row.job \in Buildable /\ Requeue(a)
                             /\ InsertJob(Requeued(a)) /\ failed' = failed
<1>1. PICK c \in Admin : admin'[c].pc = "forget" /\ i = admin'[c].id
  BY DEF Forgetting
<1>2. CASE admin'[c] = admin[c]
  BY <1>1, <1>2 DEF Forgetting
<1>3. CASE /\ Requeue(c) /\ admin[c].pc = "requeue" /\ admin[c].row.job \in Buildable
           /\ InsertJob(Requeued(c)) /\ failed' = failed
           /\ admin'[c] = [admin[c] EXCEPT !.pc = "forget"]
  <2>1. admin[c] \in [pc: {"requeue", "forget"}, id: Nat, row: FailedRow]
    BY <1>3 DEF TypeOK, ClientTypeOK, AdminState, AdminIdle
  <2>2. admin'[c].id = admin[c].id
    BY <1>3, <2>1
  <2> QED BY <1>1, <1>3, <2>2
<1>4. ASSUME NEW k \in DOMAIN failed,
             admin'[c] = [pc |-> "requeue", id |-> k, row |-> failed[k]]
      PROVE  FALSE
  BY <1>1, <1>4
<1>5. AdminMoves(c)
  BY AdminMove
<1> QED BY <1>1, <1>2, <1>3, <1>4, <1>5 DEF AdminMoves

(* The console knows the row it requeues.                                     *)
LEMMA RequeuesStep ==
  ASSUME TypeOK, RequeuesKnown, [Next]_vars
  PROVE  RequeuesKnown'
<1> SUFFICES ASSUME NEW a \in Admin, admin'[a].pc \in {"requeue", "forget"}
             PROVE  /\ admin'[a].id <= lastFailed'
                    /\ admin'[a].id \in DOMAIN failed'
                         => failed'[admin'[a].id].job = admin'[a].row.job
  BY DEF RequeuesKnown, HasRow
<1>1. lastFailed \in Nat /\ DOMAIN failed \subseteq 1..lastFailed
  BY DEF TypeOK, StoreTypeOK, FailedTypeOK
<1>2. /\ lastFailed' \in {lastFailed, lastFailed + 1}
      /\ \A i \in DOMAIN failed' : FailedOrigin(i)
  BY FailedFrom
<1> DEFINE known(id, row) == /\ id \in Nat /\ id <= lastFailed
                             /\ id \in DOMAIN failed => failed[id].job = row.job
<1>3. known(admin'[a].id, admin'[a].row)
  <2>1. HasRow(a) => admin[a] \in [pc: {"requeue", "forget"}, id: Nat, row: FailedRow]
    BY DEF HasRow, TypeOK, ClientTypeOK, AdminState, AdminIdle
  <2>2. CASE admin'[a] = admin[a]
    BY <2>1, <2>2 DEF RequeuesKnown, HasRow
  <2>3. CASE \E i \in DOMAIN failed : admin'[a] = [pc |-> "requeue", id |-> i, row |-> failed[i]]
    BY <1>1, <2>3
  <2>4. CASE /\ admin[a].pc = "requeue"
             /\ admin'[a] = [admin[a] EXCEPT !.pc = "forget"]
    <3>1. admin'[a].id = admin[a].id /\ admin'[a].row = admin[a].row
      BY <2>1, <2>4 DEF HasRow
    <3> QED BY <2>1, <2>4, <3>1 DEF RequeuesKnown, HasRow
  <2> QED BY <2>2, <2>3, <2>4, AdminMove DEF AdminMoves
<1>4. ASSUME admin'[a].id \in DOMAIN failed'
      PROVE  failed'[admin'[a].id].job = admin'[a].row.job
  <2>1. FailedOrigin(admin'[a].id)
    BY <1>2, <1>4
  <2>2. admin'[a].id # lastFailed + 1
    BY <1>1, <1>3
  <2>3. /\ admin'[a].id \in DOMAIN failed
        /\ failed'[admin'[a].id] = failed[admin'[a].id]
    BY <2>1, <2>2 DEF FailedOrigin
  <2> QED BY <1>3, <2>3
<1> QED BY <1>1, <1>2, <1>3, <1>4

(* The row pushed last stands.                                                *)
LEMMA NewRowStands ==
  ASSUME TypeOK, ClaimsKnown, [Next]_vars, lastId + 1 \in DOMAIN jobs',
         NEW j, jobs'[lastId + 1].job = j
  PROVE  Standing(j)'
<1>1. lastId + 1 \notin Leaving'
  BY LeavingStep DEF TypeOK, StoreTypeOK, JobsTypeOK
<1> QED BY <1>1 DEF Standing

(* The failed row written last is recorded.                                   *)
LEMMA BuriedRecorded ==
  ASSUME TypeOK, RequeuesKnown, NEW r \in Runner, Bury(r),
         NEW j, Record(r).job = j
  PROVE  Recorded(j)'
<1>1. lastFailed \in Nat
  BY DEF TypeOK, StoreTypeOK, FailedTypeOK
<1>2. /\ lastFailed + 1 \in DOMAIN failed'
      /\ failed'[lastFailed + 1].job = j
  BY DEF Bury, InsertFailed, With
<1>3. lastFailed + 1 \notin Forgetting'
  <2>1. \A a \in Admin : admin[a].pc = "forget" => admin[a].id \in Nat /\ admin[a].id <= lastFailed
    BY DEF RequeuesKnown, HasRow, TypeOK, ClientTypeOK, AdminState, AdminIdle
  <2>2. admin' = admin
    BY DEF Bury, clientVars
  <2> QED BY <1>1, <2>1, <2>2 DEF Forgetting
<1> QED BY <1>2, <1>3 DEF Recorded

(* A job that stands in the queue stays safe: its row is only removed when    *)
(* the job succeeded, was buried or was flushed, and only rewritten by the    *)
(* debounced dispatch that drops it.                                          *)
LEMMA StandingStaysSafe ==
  ASSUME TypeOK, Exclusive, OwnRow, KeptInv, [Next]_vars, NEW i \in DOMAIN jobs \ Leaving,
         NEW j, jobs[i].job = j
  PROVE  Safe(j)'
<1>1. ASSUME NEW r \in Runner, Bury(r), i = claim[r].id
      PROVE  Safe(j)'
  <2>1. pc[r] \in Settling
    BY <1>1 DEF Bury, Settling
  <2>2. Record(r).job = j
    BY <1>1, <2>1 DEF OwnRow, SameRow
  <2> QED BY <1>1, <2>2, BuriedRecorded DEF KeptInv, Safe
<1>2. CASE i \in DOMAIN jobs'
  <2>1. CASE i \in Leaving'
    BY <1>1, <2>1, LeavingStep DEF Exclusive
  <2>2. CASE i \notin Leaving' /\ jobs'[i].job = j
    BY <1>2, <2>2 DEF Safe, Standing
  <2>3. jobs'[i].job = j \/ j \in dropped'
    <3>1. i # lastId + 1
      BY DEF TypeOK, StoreTypeOK, JobsTypeOK
    <3>2. ASSUME NEW r \in Runner, Takes(r, i) PROVE jobs'[i].job = j
      <4>1. jobs[i] \in JobRow
        BY DEF TypeOK, StoreTypeOK, JobsTypeOK
      <4> QED BY <3>2, <4>1 DEF Takes, Claimed, JobRow
    <3>3. RowOrigin(i)
      BY <1>2, RowsFrom
    <3> QED BY <3>1, <3>2, <3>3 DEF RowOrigin, SameRow
  <2> QED BY <2>1, <2>2, <2>3 DEF Safe
<1>3. CASE i \notin DOMAIN jobs'
  <2>1. JobsTypeOK
    BY DEF TypeOK, StoreTypeOK
  <2>2. CASE \E r \in Runner : (DeleteDone(r) \/ Unlist(r)) /\ DeleteJob(claim[r].id)
    <3>1. PICK r \in Runner : (DeleteDone(r) \/ Unlist(r)) /\ DeleteJob(claim[r].id)
      BY <2>2
    <3>2. i = claim[r].id
      BY <1>3, <2>1, <3>1, DeleteJobEffect
    <3>3. DeleteDone(r) /\ pc[r] = "delete"
      BY <3>1, <3>2 DEF Unlist, Leaving, DeleteDone
    <3>4. Record(r).job = j
      BY <3>2, <3>3 DEF OwnRow, SameRow, Settling
    <3> QED BY <3>3, <3>4, DoneStep DEF KeptInv, DoneSucceeded, Safe
  <2>3. CASE \A k \in DOMAIN jobs : jobs[k].job \in dropped'
    BY <2>3 DEF Safe
  <2>4. ASSUME NEW row \in JobRow, InsertJob(row) \/ UpsertDebounced(row)
        PROVE  FALSE
    BY <1>3, <2>1, <2>4, InsertJobEffect, UpsertEffect
  <2>5. ASSUME NEW r \in Runner, PopJob(r) PROVE FALSE
    BY <1>3, <2>5 DEF PopJob, ClaimRow
  <2>6. ASSUME NEW k \in Nat, NEW delay \in Nat, RetryJob(k, delay) PROVE FALSE
    BY <1>3, <2>6 DEF RetryJob
  <2>7. ~ElapseStore
    BY <1>3 DEF ElapseStore
  <2> QED BY <1>3, <2>2, <2>3, <2>4, <2>5, <2>6, <2>7, OneStatement DEF Statement
<1> QED BY <1>2, <1>3

(* A job that is recorded as failed stays safe: its row is only removed when  *)
(* it is discarded on purpose or its job was queued again.                    *)
LEMMA RecordedStaysSafe ==
  ASSUME TypeOK, Exclusive, KeptInv, [Next]_vars, NEW i \in DOMAIN failed \ Forgetting,
         NEW j, failed[i].job = j
  PROVE  Safe(j)'
<1>1. CASE i \in DOMAIN failed'
  <2>1. failed'[i] = failed[i]
    <3>1. i # lastFailed + 1
      BY DEF TypeOK, StoreTypeOK, FailedTypeOK
    <3> QED BY <1>1, <3>1, FailedFrom DEF FailedOrigin
  <2>2. CASE i \notin Forgetting'
    BY <1>1, <2>1, <2>2 DEF Safe, Recorded
  <2>3. CASE i \in Forgetting'
    <3>1. PICK a \in Admin : /\ admin[a].pc = "requeue" /\ i = admin[a].id
                             /\ admin[a].row.job \in Buildable /\ Requeue(a)
                             /\ InsertJob(Requeued(a))
      BY <2>3, ForgettingStep
    <3>2. admin[a].row.job = j
      BY <3>1 DEF KeptInv, RequeuesKnown, HasRow
    <3>3. lastId + 1 \in DOMAIN jobs' /\ jobs'[lastId + 1] = Requeued(a)
      BY <3>1, RequeuedRow, InsertJobEffect DEF TypeOK, StoreTypeOK
    <3>4. Requeued(a).job = j
      BY <3>2 DEF Requeued, FreshRow
    <3> QED BY <3>2, <3>3, <3>4, NewRowStands DEF Safe, Exclusive
  <2> QED BY <2>2, <2>3
<1>2. CASE i \notin DOMAIN failed'
  <2>1. CASE \E ids : /\ DeleteFailed(ids)
                      /\ \A k \in ids : failed[k].job \in dropped'
    <3>1. i \in DOMAIN failed /\ j \in dropped'
      BY <1>2, <2>1 DEF DeleteFailed, Without
    <3> QED BY <3>1 DEF Safe
  <2>2. ~\E a \in Admin : admin[a].pc = "forget" /\ DeleteFailed({admin[a].id})
    BY <1>2 DEF DeleteFailed, Without, Forgetting
  <2>3. ~\E r \in Runner : InsertFailed(Record(r), Record(r).attempts)
    BY <1>2 DEF InsertFailed, With
  <2> QED BY <1>2, <2>1, <2>2, <2>3, OneFailedStatement DEF FailedStatement
<1> QED BY <1>1, <1>2

(* A job is accepted only by the push of its row.                             *)
Accepts(j) ==
  \/ \E b \in Batch \cup {NoBatch} : j \in Job /\ Enqueues(j, b)
  \/ \E r \in Runner : PushChained(r) /\ j = Head(Record(r).chain)
  \/ \E r \in Runner : PushCallback(r) /\ j = Head(todo[r])

(* A step accepts nothing but what it pushes, and forgets no acceptance.      *)
LEMMA AcceptedFrom ==
  ASSUME TypeOK, [Next]_vars
  PROVE  accepted \subseteq accepted' /\ \A j \in accepted' \ accepted : Accepts(j)
<1> DEFINE from == accepted \subseteq accepted' /\ \A j \in accepted' \ accepted : Accepts(j)
<1>1. ASSUME UNCHANGED accepted PROVE from
  BY <1>1
<1>2. CASE \E p \in Process, j \in Job : Dispatch(p, j)
  BY <1>2 DEF Dispatch, Enqueue, Enqueues, Accepts
<1>3. CASE \E b \in Batch : SendNext(b)
  <2>1. PICK b \in Batch : SendNext(b)
    BY <1>3
  <2>2. ASSUME NEW j \in Job, Enqueues(j, b) PROVE from
    BY <2>2 DEF Enqueues, Enqueue, Accepts
  <2> QED BY <1>1, <2>1, <2>2, SendNextCases
<1>4. CASE \E r \in Runner : Poll(r) \/ RunnerStep(r) \/ DbError(r)
  <2>1. PICK r \in Runner : Poll(r) \/ RunnerStep(r) \/ DbError(r)
    BY <1>4
  <2>2. CASE PushChained(r) \/ PushCallback(r)
    BY <2>2 DEF PushChained, PushCallback, Accepts
  <2>3. CASE ~(PushChained(r) \/ PushCallback(r))
    <3>1. UNCHANGED accepted
      BY <2>1, <2>3 DEF RunnerStep, Poll, PopNothing, PopJob, HandlerReturns, HandlerThrows,
         PoolRefuses, DeleteDone, CountComplete, CountFailed, CountJob, Bury, Unlist,
         FetchBatch, Retry, DbError, history
    <3> QED BY <1>1, <3>1
  <2> QED BY <2>2, <2>3
<1>5. CASE \E a \in Admin : \/ \E i \in DOMAIN failed : RetryFailed(a, i)
                            \/ FlushJobs(a) \/ AdminStep(a) \/ AdminCrash(a)
  <2>1. UNCHANGED accepted
    BY <1>5 DEF RetryFailed, FlushJobs, AdminStep, Requeue, ForgetRetried, FlushFailed,
       FlushBatches, AdminCrash, history
  <2> QED BY <1>1, <2>1
<1>6. CASE \E p \in Process : Shutdown(p) \/ Crash(p) \/ ProcessStep(p)
  <2>1. UNCHANGED accepted
    BY <1>6 DEF Shutdown, Crash, ProcessStep, DrainTimesOut, Exit, Restart, Halt, history
  <2> QED BY <1>1, <2>1
<1>7. CASE (\E p \in Process, b \in Batch : DispatchBatch(p, b))
           \/ DiscardFailed \/ Elapse \/ UNCHANGED vars
  <2>1. UNCHANGED accepted
    BY <1>7 DEF DispatchBatch, DiscardFailed, Discard, Elapse, vars, history
  <2> QED BY <1>1, <2>1
<1> QED BY <1>2, <1>3, <1>4, <1>5, <1>6, <1>7 DEF Next

(* What is dropped stays dropped.                                             *)
LEMMA DroppedGrows ==
  ASSUME TypeOK, [Next]_vars
  PROVE  dropped \subseteq dropped'
<1>1. CASE \E p \in Process, j \in Job : Dispatch(p, j)
  BY <1>1 DEF Dispatch, Enqueue
<1>2. CASE \E b \in Batch : SendNext(b)
  BY <1>2, SendNextCases DEF Enqueues, Enqueue
<1>3. CASE \E r \in Runner : Poll(r) \/ RunnerStep(r) \/ DbError(r)
  BY <1>3 DEF RunnerStep, Poll, PopNothing, PopJob, HandlerReturns, HandlerThrows,
     PoolRefuses, DeleteDone, PushChained, CountComplete, CountFailed, CountJob, Bury,
     Unlist, FetchBatch, PushCallback, Retry, DbError, history
<1>4. CASE \E a \in Admin : \/ \E i \in DOMAIN failed : RetryFailed(a, i)
                            \/ FlushJobs(a) \/ AdminStep(a) \/ AdminCrash(a)
  BY <1>4 DEF RetryFailed, FlushJobs, AdminStep, Requeue, ForgetRetried, FlushFailed,
     FlushBatches, AdminCrash, history
<1>5. CASE \E p \in Process : Shutdown(p) \/ Crash(p) \/ ProcessStep(p)
  BY <1>5 DEF Shutdown, Crash, ProcessStep, DrainTimesOut, Exit, Restart, Halt, history
<1>6. CASE (\E p \in Process, b \in Batch : DispatchBatch(p, b))
           \/ DiscardFailed \/ Elapse \/ UNCHANGED vars
  BY <1>6 DEF DispatchBatch, DiscardFailed, Discard, Elapse, vars, history
<1> QED BY <1>1, <1>2, <1>3, <1>4, <1>5, <1>6 DEF Next

(* A job just accepted stands in the queue: as a new row, or in the free row  *)
(* its debounced dispatch rewrote.                                            *)
LEMMA AcceptedStands ==
  ASSUME TypeOK, Exclusive, [Next]_vars, NEW j, Accepts(j)
  PROVE  Standing(j)'
<1>1. ASSUME NEW row \in JobRow, InsertJob(row), row.job = j
      PROVE  Standing(j)'
  <2>1. lastId + 1 \in DOMAIN jobs' /\ jobs'[lastId + 1] = row
    BY <1>1, InsertJobEffect DEF TypeOK, StoreTypeOK
  <2> QED BY <1>1, <2>1, NewRowStands DEF Exclusive
<1>2. CASE \E b \in Batch \cup {NoBatch} : j \in Job /\ Enqueues(j, b)
  <2>1. PICK b \in Batch \cup {NoBatch} : j \in Job /\ Enqueues(j, b)
    BY <1>2
  <2> DEFINE row == Dispatched(j, b)
  <2>2. row \in JobRow /\ row.job = j
    <3>1. Def[j] \in JobDef /\ Unreserved \in -1..Visibility
      BY <2>1, ScenarioAssumption, VisibilityAssumption DEF Unreserved
    <3> QED BY <2>1, <3>1 DEF Dispatched, FreshRow, JobRow, JobDef
  <2>3. CASE InsertJob(row)
    BY <1>1, <2>2, <2>3
  <2>4. CASE UpsertDebounced(row) /\ Holders(row.key) # {}
    <3>1. PICK i : i \in Holders(row.key)
      BY <2>4
    <3>2. i \in DOMAIN jobs /\ jobs[i].age = Unreserved /\ jobs[i] \in JobRow
      BY <3>1 DEF Holders, TypeOK, StoreTypeOK, JobsTypeOK
    <3>3. i \in DOMAIN jobs' /\ jobs'[i].job = j
      BY <2>2, <2>4, <3>1, <3>2 DEF UpsertDebounced, JobRow
    <3>4. i \notin Leaving'
      <4>1. \A r \in Runner : pc[r] \in {"bury", "unlist"} => i # claim[r].id
        <5> SUFFICES ASSUME NEW r \in Runner, pc[r] \in {"bury", "unlist"}, i = claim[r].id
                     PROVE  FALSE
          OBVIOUS
        <5>1. jobs[i].age = held[r]
          BY <3>2 DEF Exclusive, ReservationHeld, Settling
        <5>2. held[r] \in 0..Visibility
          BY DEF TypeOK, RunnerTypeOK
        <5> QED BY <3>2, <5>1, <5>2, VisibilityAssumption DEF Unreserved
      <4> QED BY <4>1, LeavingStep DEF Exclusive, Leaving
    <3> QED BY <3>3, <3>4 DEF Standing
  <2> QED BY <2>1, <2>3, <2>4 DEF Enqueues, Enqueue, Dispatched, UpsertDebounced
<1>3. CASE \E r \in Runner : PushChained(r) /\ j = Head(Record(r).chain)
  BY <1>1, <1>3, ChainedRow DEF Chained, Stored, FreshRow
<1>4. CASE \E r \in Runner : PushCallback(r) /\ j = Head(todo[r])
  BY <1>1, <1>4, CalledBackRow DEF CalledBack, Stored, FreshRow
<1> QED BY <1>2, <1>3, <1>4 DEF Accepts

(* Every step keeps every accepted job safe.                                  *)
LEMMA KeptStep ==
  ASSUME TypeOK, Exclusive, OwnRow, KeptInv, [Next]_vars
  PROVE  KeptInv'
<1>1. DoneSucceeded' /\ RequeuesKnown'
  BY DoneStep, RequeuesStep DEF KeptInv
<1>2. ASSUME NEW j \in accepted' PROVE Safe(j)'
  <2>1. CASE j \notin accepted
    BY <2>1, AcceptedFrom, AcceptedStands DEF Safe
  <2>2. CASE j \in succeeded \cup dropped
    BY <2>2, DoneStep, DroppedGrows DEF KeptInv, Safe
  <2>3. CASE Standing(j)
    BY <2>3, StandingStaysSafe DEF Standing
  <2>4. CASE Recorded(j)
    BY <2>4, RecordedStaysSafe DEF Recorded
  <2> QED BY <2>1, <2>2, <2>3, <2>4 DEF KeptInv, AllSafe, Safe
<1>3. AllSafe'
  BY <1>2 DEF AllSafe
<1> QED BY <1>1, <1>3 DEF KeptInv

(* No accepted job is lost until a claim outlives the visibility timeout: it   *)
(* is queued, failed, done, or was replaced or discarded on purpose, through   *)
(* crashes between any two statements, database errors, restarts, shutdowns,   *)
(* concurrent retries by hand and flushes.                                     *)
THEOREM JobsKept == Spec => [](InTime => NoJobLost)
<1> DEFINE Inv == OwnInv /\ (InTime => KeptInv)
<1>1. Init => Inv
  BY OwnInvStep DEF Init, KeptInv, AllSafe, DoneSucceeded, RequeuesKnown, HasRow, AdminIdle
<1>2. Inv /\ [Next]_vars => Inv'
  <2> SUFFICES ASSUME Inv, [Next]_vars PROVE Inv'
    OBVIOUS
  <2>1. OwnInv'
    BY OwnInvStep
  <2>2. InTime' => InTime
    BY LapseSpent DEF OwnInv, ExclusiveInv, InTime, TypeOK, Bounds
  <2>3. InTime' => KeptInv'
    BY <2>2, KeptStep DEF OwnInv, ExclusiveInv
  <2> QED BY <2>1, <2>3
<1>3. Inv => (InTime => NoJobLost)
  BY DEF KeptInv, AllSafe, Safe, Standing, Recorded, NoJobLost, Queued, Settled, Failed
<1> QED BY <1>1, <1>2, <1>3, PTL DEF Spec

-----------------------------------------------------------------------------
(* Chains.                                                                   *)

(* A row's chain is what follows its job in some dispatched chain. *)
Linked(j, chain) ==
  \A n \in 1..Len(chain) : Follows(IF n = 1 THEN j ELSE chain[n - 1], chain[n])

(* A sequence with one more element in front.                                 *)
LEMMA Prefixed ==
  ASSUME NEW S, NEW x, NEW rest \in Seq(S)
  PROVE  /\ Len(<<x>> \o rest) = 1 + Len(rest)
         /\ (<<x>> \o rest)[1] = x
         /\ \A n \in 1..Len(rest) : (<<x>> \o rest)[n + 1] = rest[n]
  OBVIOUS

(* The chain a job is dispatched with follows it.                             *)
LEMMA DispatchedLinked ==
  ASSUME NEW j \in Job
  PROVE  Linked(j, Def[j].chain)
<1>1. PICK chain \in Seq(Job) : chain = Def[j].chain
  BY ScenarioAssumption DEF JobDef
<1> SUFFICES ASSUME NEW n \in 1..Len(chain)
             PROVE  Follows(IF n = 1 THEN j ELSE chain[n - 1], chain[n])
  BY <1>1 DEF Linked
<1>2. Links(j) = <<j>> \o chain
  BY <1>1 DEF Links
<1>3. PICK k \in Nat : k = n - 1
  OBVIOUS
<1>4. Len(Links(j)) = 1 + Len(chain) /\ Links(j)[1] = j
  BY <1>2, Prefixed
<1>5. Links(j)[n + 1] = chain[n]
  BY <1>2, Prefixed
<1>6. n # 1 => Links(j)[n] = chain[n - 1]
  <2>1. n # 1 => k \in 1..Len(chain) /\ k + 1 = n
    BY <1>3
  <2>2. n # 1 => (<<j>> \o chain)[k + 1] = chain[k]
    BY <2>1, Prefixed
  <2> QED BY <1>2, <1>3, <2>1, <2>2
<1>7. n + 1 \in 2..Len(Links(j)) /\ (n + 1) - 1 = n
  BY <1>4
<1>8. Links(j)[(n + 1) - 1] = IF n = 1 THEN j ELSE chain[n - 1]
  BY <1>4, <1>6, <1>7
<1> QED BY <1>5, <1>7, <1>8 DEF Follows

(* The rest of a chain follows its first link.                                *)
LEMMA TailLinked ==
  ASSUME NEW j, NEW chain \in Seq(Job), chain # << >>, Linked(j, chain)
  PROVE  Follows(j, Head(chain)) /\ Linked(Head(chain), Tail(chain))
<1>1. Len(chain) \in Nat \ {0} /\ Head(chain) = chain[1]
  OBVIOUS
<1>2. Follows(j, chain[1])
  BY <1>1 DEF Linked
<1>3. ASSUME NEW n \in 1..Len(Tail(chain))
      PROVE  Follows(IF n = 1 THEN Head(chain) ELSE Tail(chain)[n - 1], Tail(chain)[n])
  <2>1. /\ n + 1 \in 1..Len(chain) /\ n + 1 # 1 /\ (n + 1) - 1 = n
        /\ Tail(chain)[n] = chain[n + 1]
        /\ n # 1 => Tail(chain)[n - 1] = chain[n]
    BY <1>1, <1>3
  <2>2. Follows(IF n + 1 = 1 THEN j ELSE chain[(n + 1) - 1], chain[n + 1])
    BY <2>1 DEF Linked
  <2>3. Follows(chain[n], chain[n + 1])
    BY <2>1, <2>2
  <2> QED BY <1>1, <2>1, <2>3
<1> QED BY <1>1, <1>2, <1>3 DEF Linked

(* Every record of a job carries a suffix of a dispatched chain: rows, claims,*)
(* failed rows and the failed rows being requeued.                            *)
RowsLinked == \A i \in DOMAIN jobs : Linked(jobs[i].job, jobs[i].chain)
ClaimsLinked ==
  \A r \in Runner : pc[r] \in Busy => Linked(Record(r).job, Record(r).chain)
FailedLinked == \A i \in DOMAIN failed : Linked(failed[i].job, failed[i].chain)
RequeuesLinked ==
  \A a \in Admin : HasRow(a) => Linked(admin[a].row.job, admin[a].row.chain)

(* What a runner has still to push for a finished batch are its callbacks. *)
Callback(k) ==
  \E b \in Batch : \/ Listed(k, BatchDef[b].then) \/ Listed(k, BatchDef[b].catch)
                   \/ Listed(k, BatchDef[b].finally)
CallbacksOnly ==
  \A r \in Runner : pc[r] \in {"fetch", "callbacks"} =>
    \A n \in 1..Len(todo[r]) : Callback(todo[r][n])

(* A link is accepted only after the job it follows succeeded. *)
InOrder == \A k \in accepted : \A j \in Job : Follows(j, k) => j \in succeeded

LinkedInv == RowsLinked /\ ClaimsLinked /\ FailedLinked /\ RequeuesLinked
ChainInv == LinkedInv /\ DoneSucceeded /\ CallbacksOnly /\ InOrder

(* What a step pushes is linked.                                              *)
LEMMA PushesLinked ==
  ASSUME TypeOK, LinkedInv, NEW row, Pushes(row)
  PROVE  Linked(row.job, row.chain)
<1>1. ASSUME NEW j \in Job, NEW b, row = Dispatched(j, b) PROVE Linked(row.job, row.chain)
  BY <1>1, DispatchedLinked DEF Dispatched, FreshRow
<1>2. ASSUME NEW r \in Runner, PushChained(r), row = Chained(r)
      PROVE  Linked(row.job, row.chain)
  <2>1. pc[r] = "chain" /\ pc[r] \in Busy
    BY <1>2 DEF PushChained, Busy
  <2>2. Record(r).chain \in Seq(Job) /\ Record(r).chain # << >>
    BY <2>1, BusyClaim DEF TypeOK, AwaitsOK, Record, JobRow
  <2>3. Linked(Record(r).job, Record(r).chain)
    BY <2>1 DEF LinkedInv, ClaimsLinked
  <2>4. row.job = Head(Record(r).chain) /\ row.chain = Tail(Record(r).chain)
    BY <1>2 DEF Chained, Stored, FreshRow
  <2> QED BY <2>2, <2>3, <2>4, TailLinked
<1>3. ASSUME NEW r \in Runner, row = CalledBack(r) PROVE Linked(row.job, row.chain)
  BY <1>3 DEF CalledBack, Stored, FreshRow, Linked
<1>4. ASSUME NEW a \in Admin, Requeue(a), row = Requeued(a) PROVE Linked(row.job, row.chain)
  BY <1>4 DEF LinkedInv, RequeuesLinked, HasRow, Requeue, Requeued, FreshRow
<1> QED BY <1>1, <1>2, <1>3, <1>4 DEF Pushes

(* Rows stay linked.                                                          *)
LEMMA RowsLinkedStep ==
  ASSUME TypeOK, LinkedInv, [Next]_vars
  PROVE  RowsLinked' /\ ClaimsLinked'
<1>1. ASSUME NEW i \in DOMAIN jobs' PROVE Linked(jobs'[i].job, jobs'[i].chain)
  <2>1. i \in DOMAIN jobs => jobs[i] \in JobRow /\ Linked(jobs[i].job, jobs[i].chain)
    BY DEF LinkedInv, RowsLinked, TypeOK, StoreTypeOK, JobsTypeOK
  <2>2. CASE Pushes(jobs'[i])
    BY <2>2, PushesLinked
  <2>3. CASE i \in DOMAIN jobs /\ SameRow(jobs'[i], jobs[i])
    BY <2>1, <2>3 DEF SameRow
  <2>4. CASE /\ i \in DOMAIN jobs
             /\ \E row \in JobRow : /\ Pushes(row)
                                    /\ jobs'[i] = [jobs[i] EXCEPT !.job = row.job,
                                             !.chain = row.chain, !.policy = row.policy,
                                             !.due = row.due]
    <3>1. PICK row \in JobRow : /\ Pushes(row)
                                /\ jobs'[i] = [jobs[i] EXCEPT !.job = row.job,
                                             !.chain = row.chain, !.policy = row.policy,
                                             !.due = row.due]
      BY <2>4
    <3>2. jobs'[i].job = row.job /\ jobs'[i].chain = row.chain
      BY <2>1, <2>4, <3>1 DEF JobRow
    <3> QED BY <3>1, <3>2, PushesLinked
  <2>5. CASE \E r \in Runner : Takes(r, i)
    BY <2>1, <2>5 DEF Takes, Claimed, JobRow
  <2> QED BY <2>2, <2>3, <2>4, <2>5, RowsFrom DEF RowOrigin
<1>2. ASSUME NEW r \in Runner, pc'[r] \in Busy
      PROVE  Linked(claim'[r].row.job, claim'[r].row.chain)
  <2>1. CASE PopJob(r)
    <3>1. PICK i \in DOMAIN jobs : Takes(r, i)
      BY <2>1, PopTakes
    <3>2. i \in DOMAIN jobs' /\ claim'[r].row = jobs'[i]
      BY <3>1 DEF Takes, ClaimRow
    <3> QED BY <1>1, <3>2
  <2>2. CASE ~PopJob(r)
    <3>1. pc[r] \in Busy /\ claim'[r] = claim[r]
      BY <1>2, <2>2, RunnerMoves DEF Moves, Stays, Advances
    <3> QED BY <3>1 DEF LinkedInv, ClaimsLinked, Record
  <2> QED BY <2>1, <2>2
<1> QED BY <1>1, <1>2 DEF RowsLinked, ClaimsLinked, Record

(* So do failed rows.                                                         *)
LEMMA FailedLinkedStep ==
  ASSUME TypeOK, LinkedInv, [Next]_vars
  PROVE  FailedLinked' /\ RequeuesLinked'
<1>1. ASSUME NEW i \in DOMAIN failed' PROVE Linked(failed'[i].job, failed'[i].chain)
  <2>1. ASSUME NEW r \in Runner, pc[r] = "bury" PROVE Linked(Record(r).job, Record(r).chain)
    BY <2>1 DEF LinkedInv, ClaimsLinked, Busy, Settling
  <2> QED BY <1>1, <2>1, FailedFrom DEF FailedOrigin, LinkedInv, FailedLinked
<1>2. ASSUME NEW a \in Admin, admin'[a].pc \in {"requeue", "forget"}
      PROVE  Linked(admin'[a].row.job, admin'[a].row.chain)
  <2>1. CASE admin'[a] = admin[a]
    BY <1>2, <2>1 DEF LinkedInv, RequeuesLinked, HasRow
  <2>2. CASE \E i \in DOMAIN failed : admin'[a] = [pc |-> "requeue", id |-> i, row |-> failed[i]]
    BY <2>2 DEF LinkedInv, FailedLinked
  <2>3. CASE admin[a].pc = "requeue" /\ admin'[a] = [admin[a] EXCEPT !.pc = "forget"]
    <3>1. admin[a] \in [pc: {"requeue", "forget"}, id: Nat, row: FailedRow]
      BY <2>3 DEF TypeOK, ClientTypeOK, AdminState, AdminIdle
    <3>2. admin'[a].row = admin[a].row
      BY <2>3, <3>1
    <3> QED BY <2>3, <3>2 DEF LinkedInv, RequeuesLinked, HasRow
  <2> QED BY <1>2, <2>1, <2>2, <2>3, AdminMove DEF AdminMoves
<1> QED BY <1>1, <1>2 DEF FailedLinked, RequeuesLinked, HasRow

(* The callbacks of a finished batch.                                         *)
LEMMA CallbacksListed ==
  ASSUME NEW b \in Batch, NEW status, NEW n \in 1..Len(CallbacksOf(b, status))
  PROVE  \/ Listed(CallbacksOf(b, status)[n],
                   IF status = "complete" THEN BatchDef[b].then ELSE BatchDef[b].catch)
         \/ Listed(CallbacksOf(b, status)[n], BatchDef[b].finally)
<1> DEFINE first == IF status = "complete" THEN BatchDef[b].then ELSE BatchDef[b].catch
           last == BatchDef[b].finally
<1>1. first \in Seq(Job) /\ last \in Seq(Job)
  BY ScenarioAssumption DEF Callbacks
<1>2. CallbacksOf(b, status) = first \o last
  BY DEF CallbacksOf
<1>3. CallbacksOf(b, status)[n] =
        IF n <= Len(first) THEN first[n] ELSE last[n - Len(first)]
  <2> HIDE DEF first, last
  <2> QED BY <1>1, <1>2
<1>4. /\ n <= Len(first) => n \in DOMAIN first
      /\ ~(n <= Len(first)) => n - Len(first) \in DOMAIN last
  <2> HIDE DEF first, last
  <2> QED BY <1>1, <1>2
<1>5. Listed(CallbacksOf(b, status)[n], first) \/ Listed(CallbacksOf(b, status)[n], last)
  <2> HIDE DEF first, last
  <2> QED BY <1>3, <1>4 DEF Listed
<1> QED BY <1>5

(* Runners push nothing else.                                                 *)
LEMMA CallbacksStep ==
  ASSUME TypeOK, CallbacksOnly, [Next]_vars
  PROVE  CallbacksOnly'
<1> SUFFICES ASSUME NEW r \in Runner, pc'[r] \in {"fetch", "callbacks"},
                    NEW n \in 1..Len(todo'[r])
             PROVE  Callback(todo'[r][n])
  BY DEF CallbacksOnly
<1>1. ~PopJob(r)
  BY DEF PopJob, Goto, AfterClaim, TypeOK, RunnerTypeOK
<1>2. CASE Stays(r) \/ (FetchBatch(r) /\ todo'[r] = todo[r])
  BY <1>2 DEF Stays, FetchBatch, CallbacksOnly
<1>3. CASE PushCallback(r) /\ todo'[r] = Tail(todo[r])
  <2>1. todo[r] \in Seq(Job) /\ todo[r] # << >>
    BY <1>3 DEF PushCallback, TypeOK, AwaitsOK, RunnerTypeOK
  <2>2. n + 1 \in 1..Len(todo[r]) /\ todo'[r][n] = todo[r][n + 1]
    BY <1>3, <2>1
  <2> QED BY <1>3, <2>2 DEF CallbacksOnly, PushCallback
<1>4. CASE (CountComplete(r) \/ CountFailed(r)) /\ pc'[r] = "fetch"
  <2>1. PICK at \in {"count", "countFailed"}, m \in {0, 1} : CountJob(r, at, m)
    BY <1>4 DEF CountComplete, CountFailed
  <2>2. ~EndJob(r)
    BY <1>4, EndMoves DEF Busy
  <2> DEFINE b == Record(r).batch
             status == BatchStatus(b, m)
  <2>3. b \in Batch
    <3>1. pc[r] \in Busy
      BY <2>1 DEF CountJob, Busy
    <3> QED BY <2>1, <3>1, BusyClaim DEF CountJob, TypeOK, AwaitsOK, Record, JobRow
  <2>4. todo' = [todo EXCEPT ![r] = CallbacksOf(b, status)]
    BY <2>1, <2>2 DEF CountJob
  <2>5. todo'[r] = CallbacksOf(b, status)
    BY <2>4 DEF TypeOK, RunnerTypeOK
  <2> HIDE DEF b, status
  <2> QED BY <2>3, <2>5, CallbacksListed DEF Callback
<1> QED BY <1>1, <1>2, <1>3, <1>4, RunnerMoves
        DEF Moves, Advances, GivesUp, TriesAgain, Busy, Settling

(* The order itself: a job that follows another is pushed by the chain step   *)
(* of that other job only.                                                    *)
LEMMA InOrderStep ==
  ASSUME LinksApart, TypeOK, ChainInv, [Next]_vars
  PROVE  InOrder'
<1> SUFFICES ASSUME NEW k \in accepted', NEW j \in Job, Follows(j, k)
             PROVE  j \in succeeded'
  BY DEF InOrder
<1>1. succeeded \subseteq succeeded'
  BY DoneStep DEF ChainInv
<1>2. k \in Job
  BY TypeStep DEF TypeOK, HistoryTypeOK
<1>3. CASE k \in accepted
  BY <1>1, <1>3 DEF ChainInv, InOrder
<1>4. CASE \E b \in Batch \cup {NoBatch} : Enqueues(k, b)
  BY <1>2, <1>4 DEF Enqueues, LinksApart, Listed
<1>5. CASE \E r \in Runner : PushChained(r) /\ k = Head(Record(r).chain)
  <2>1. PICK r \in Runner : PushChained(r) /\ k = Head(Record(r).chain)
    BY <1>5
  <2>2. pc[r] = "chain" /\ pc[r] \in Busy
    BY <2>1 DEF PushChained, Busy
  <2>3. /\ Record(r).chain \in Seq(Job) /\ Record(r).chain # << >>
        /\ Record(r).job \in Job
    BY <2>2, BusyClaim DEF TypeOK, AwaitsOK, Record, JobRow
  <2>4. Follows(Record(r).job, k)
    BY <2>1, <2>2, <2>3, TailLinked DEF ChainInv, LinkedInv, ClaimsLinked
  <2>5. j = Record(r).job
    BY <1>2, <2>3, <2>4 DEF LinksApart
  <2>6. j \in succeeded
    BY <2>2, <2>5 DEF ChainInv, DoneSucceeded
  <2> QED BY <1>1, <2>6
<1>6. CASE \E r \in Runner : PushCallback(r) /\ k = Head(todo[r])
  <2>1. PICK r \in Runner : PushCallback(r) /\ k = Head(todo[r])
    BY <1>6
  <2>2. todo[r] \in Seq(Job) /\ todo[r] # << >> /\ pc[r] = "callbacks"
    BY <2>1 DEF PushCallback, TypeOK, AwaitsOK, RunnerTypeOK
  <2>3. 1 \in 1..Len(todo[r]) /\ todo[r][1] = k
    BY <2>1, <2>2
  <2>4. Callback(k)
    BY <2>2, <2>3 DEF ChainInv, CallbacksOnly
  <2> QED BY <1>2, <2>4 DEF Callback, LinksApart
<1> QED BY <1>3, <1>4, <1>5, <1>6, AcceptedFrom DEF Accepts

(* Consecutive links follow one another.                                      *)
LEMMA OrderedLinks ==
  ASSUME InOrder
  PROVE  ChainOrdered
<1> SUFFICES ASSUME NEW j \in Job, NEW n \in 2..Len(Links(j)), Links(j)[n] \in accepted
             PROVE  Links(j)[n - 1] \in succeeded
  BY DEF ChainOrdered
<1>1. Def[j].chain \in Seq(Job)
  BY ScenarioAssumption DEF JobDef
<1>2. Links(j) \in Seq(Job)
  BY <1>1 DEF Links
<1>3. Links(j)[n - 1] \in Job
  BY <1>2
<1>4. Follows(Links(j)[n - 1], Links(j)[n])
  BY DEF Follows
<1> QED BY <1>3, <1>4 DEF InOrder

(* The chains of all records keep to what was dispatched.                     *)
LEMMA ChainsHold == LinksApart /\ Spec => [](TypeOK /\ ChainInv)
<1> DEFINE Inv == LinksApart /\ TypeOK /\ ChainInv
<1>1. LinksApart /\ Init => Inv
  BY TypeInit DEF Init, StoreInit, ChainInv, LinkedInv, RowsLinked, ClaimsLinked, FailedLinked,
     RequeuesLinked, HasRow, AdminIdle, DoneSucceeded, CallbacksOnly, InOrder, Busy, Settling
<1>2. Inv /\ [Next]_vars => Inv'
  <2> SUFFICES ASSUME Inv, [Next]_vars PROVE Inv'
    OBVIOUS
  <2>1. LinksApart'
    BY DEF LinksApart, Follows, Links, Listed
  <2>2. TypeOK' /\ DoneSucceeded'
    BY TypeStep, DoneStep DEF ChainInv
  <2> QED BY <2>1, <2>2, RowsLinkedStep, FailedLinkedStep, CallbacksStep, InOrderStep
          DEF ChainInv, LinkedInv
<1>3. Inv => TypeOK /\ ChainInv
  OBVIOUS
<1> QED BY <1>1, <1>2, <1>3, PTL DEF Spec

(* A link of a chain is queued only after the job before it succeeded, through *)
(* every crash, error, lapsed claim and retry by hand: whatever record a job   *)
(* has reached, its chain is what followed it when it was dispatched.          *)
THEOREM ChainsInOrder == LinksApart /\ Spec => []ChainOrdered
<1>1. TypeOK /\ ChainInv => ChainOrdered
  BY OrderedLinks DEF ChainInv
<1> QED BY <1>1, ChainsHold, PTL

-----------------------------------------------------------------------------
(* Attempts.  Where handlers run in the process itself and nothing is        *)
(* debounced, a row's attempts are claims that each entered the handler, and *)
(* the limit is the class's own: a pool may refuse a job it claimed, and a   *)
(* debounced dispatch puts a new job in an old row.                          *)

Within(row, count) ==
  row.job \in Buildable =>
    /\ row.policy.max = Def[row.job].policy.max
    /\ row.attempts <= count[row.job]

RowsWithin == \A i \in DOMAIN jobs : jobs[i].key = NoKey /\ Within(jobs[i], runs)
ClaimsWithin == \A r \in Runner : pc[r] \in Busy => Within(Record(r), runs)

(* Which way a failed attempt goes. *)
Verdicts ==
  \A r \in Runner :
    /\ pc[r] = "bury" /\ Record(r).job \in Buildable
         => Record(r).attempts >= Record(r).policy.max
    /\ pc[r] = "retry" => Record(r).attempts < Record(r).policy.max

(* Before the first fault: a free row has an attempt left, and a reserved one *)
(* is in some runner's hands.                                                 *)
Holder(r, i) == pc[r] \in Settling /\ claim[r].id = i
Calm ==
  /\ \A p \in Process : proc[p] = "up"
  /\ \A i \in DOMAIN jobs :
       IF jobs[i].age = Unreserved THEN jobs[i].attempts < jobs[i].policy.max
       ELSE \E r \in Runner : Holder(r, i)
  /\ AttemptsBounded

AttemptsInv ==
  /\ RowsWithin /\ ClaimsWithin /\ Verdicts /\ FailedAfterMaxAttempts
  /\ Undisturbed => Calm
(* What a pushed row starts with.                                             *)
LEMMA PushedFresh ==
  ASSUME TypeOK, NEW row, Pushes(row)
  PROVE  /\ row.attempts = 0 /\ row.age = Unreserved
         /\ row.job \in Buildable => row.policy.max = Def[row.job].policy.max
         /\ RunsInline => row.key = NoKey
<1>1. ASSUME NEW j \in Job, NEW b, row = Dispatched(j, b)
      PROVE  /\ row.attempts = 0 /\ row.age = Unreserved
             /\ row.policy.max = Def[row.job].policy.max
             /\ RunsInline => row.key = NoKey
  BY <1>1 DEF Dispatched, FreshRow, RunsInline, NothingDebounced
<1>2. ASSUME NEW j, NEW chain, NEW fallback, row = Stored(j, chain, fallback)
      PROVE  /\ row.attempts = 0 /\ row.age = Unreserved /\ row.key = NoKey
             /\ row.job \in Buildable => row.policy.max = Def[row.job].policy.max
  BY <1>2 DEF Stored, FreshRow
<1>3. ASSUME NEW a \in Admin, Requeue(a), admin[a].row.job \in Buildable, row = Requeued(a)
      PROVE  /\ row.attempts = 0 /\ row.age = Unreserved /\ row.key = NoKey
             /\ row.policy.max = Def[row.job].policy.max
  <2>1. admin[a].row.job \in Job
    BY <1>3, RequeuedRow DEF FailedRow
  <2>2. Def[admin[a].row.job].policy \in Policy
    BY <2>1, ScenarioAssumption DEF JobDef
  <2> QED BY <1>3, <2>2 DEF Requeued, FreshRow, Policy
<1> QED BY <1>1, <1>2, <1>3 DEF Pushes, Chained, CalledBack

(* Handlers are entered, never unentered; a claim outside a pool enters one.  *)
LEMMA RunsGrow ==
  ASSUME TypeOK, [Next]_vars
  PROVE  \A j \in Job : runs[j] <= runs'[j]
<1>1. runs \in [Job -> Nat]
  BY DEF TypeOK, HistoryTypeOK
<1>2. ASSUME NEW k, Run(k) PROVE \A j \in Job : runs[j] <= runs'[j]
  BY <1>1, <1>2 DEF Run
<1>3. UNCHANGED runs => \A j \in Job : runs[j] <= runs'[j]
  BY <1>1
<1>4. ASSUME NEW r \in Runner, Poll(r) \/ RunnerStep(r) \/ DbError(r)
      PROVE  UNCHANGED runs \/ \E k : Run(k)
  <2>1. PopJob(r) => UNCHANGED runs \/ \E k : Run(k)
    BY DEF PopJob
  <2>2. HandlerReturns(r) \/ HandlerThrows(r) => UNCHANGED runs \/ \E k : Run(k)
    BY DEF HandlerReturns, HandlerThrows
  <2> QED BY <1>4, <2>1, <2>2 DEF RunnerStep, Poll, PopNothing, PoolRefuses, DeleteDone,
       PushChained, CountComplete, CountFailed, CountJob, Bury, Unlist, FetchBatch,
       PushCallback, Retry, DbError, history
<1>5. ASSUME NEW a \in Admin,
             \/ \E i \in DOMAIN failed : RetryFailed(a, i)
             \/ FlushJobs(a) \/ AdminStep(a) \/ AdminCrash(a)
      PROVE  UNCHANGED runs
  BY <1>5 DEF RetryFailed, FlushJobs, AdminStep, Requeue, ForgetRetried, FlushFailed,
     FlushBatches, AdminCrash, history
<1>6. ASSUME NEW p \in Process, Shutdown(p) \/ Crash(p) \/ ProcessStep(p)
      PROVE  UNCHANGED runs
  BY <1>6 DEF Shutdown, Crash, ProcessStep, DrainTimesOut, Exit, Restart, Halt, history
<1>7. CASE \/ \E p \in Process, j \in Job : Dispatch(p, j)
           \/ \E p \in Process, b \in Batch : DispatchBatch(p, b)
           \/ \E b \in Batch : SendNext(b)
           \/ DiscardFailed \/ Elapse \/ UNCHANGED vars
  BY <1>3, <1>7 DEF Dispatch, DispatchBatch, SendNext, DiscardFailed, Discard, Elapse,
     vars, history
<1> QED BY <1>2, <1>3, <1>4, <1>5, <1>6, <1>7 DEF Next

(* A job claimed outside a pool is run at once, or, if it cannot be built,     *)
(* buried or sent to retry.                                                   *)
LEMMA InlineClaim ==
  ASSUME TypeOK, RunsInline, NEW r \in Runner, PopJob(r), NEW i \in DOMAIN jobs, Takes(r, i)
  PROVE  /\ pc'[r] = AfterClaim(r, Claimed(i))
         /\ pc'[r] \in {"handle", "bury", "retry"}
         /\ jobs[i].job \in Buildable =>
              /\ pc'[r] = "handle"
              /\ runs'[jobs[i].job] = runs[jobs[i].job] + 1
<1>1. PICK k \in DOMAIN jobs :
        /\ claim' = [claim EXCEPT ![r] = [id |-> k, row |-> Claimed(k)]]
        /\ Goto(r, AfterClaim(r, Claimed(k)))
        /\ IF Host[r] \notin Pooled /\ jobs[k].job \in Buildable
           THEN Run(jobs[k].job) ELSE UNCHANGED runs
  BY DEF PopJob
<1>2. k = i
  BY <1>1 DEF Takes, TypeOK, RunnerTypeOK
<1>3. jobs[i] \in JobRow
  BY DEF TypeOK, StoreTypeOK, JobsTypeOK
<1>4. jobs[i].job \in Job /\ Claimed(i).job = jobs[i].job
  BY <1>3 DEF JobRow, Claimed
<1>5. pc'[r] = AfterClaim(r, Claimed(i))
  BY <1>1, <1>2 DEF Goto, TypeOK, RunnerTypeOK
<1>6. jobs[i].job \in Buildable => runs'[jobs[i].job] = runs[jobs[i].job] + 1
  BY <1>1, <1>2, <1>4 DEF RunsInline, Run, TypeOK, HistoryTypeOK
<1> QED BY <1>4, <1>5, <1>6 DEF AfterClaim

(* A record's attempts stay within the runs of its job.                       *)
LEMMA WithinStep ==
  ASSUME RunsInline, TypeOK, RowsWithin, ClaimsWithin, [Next]_vars
  PROVE  RowsWithin' /\ ClaimsWithin'
<1>1. \A j \in Job : runs[j] \in Nat /\ runs'[j] \in Nat /\ runs[j] <= runs'[j]
  BY RunsGrow, TypeStep DEF TypeOK, HistoryTypeOK
<1>2. ASSUME NEW row, row.job \in Job, row.attempts \in Nat, Within(row, runs)
      PROVE  Within(row, runs')
  BY <1>1, <1>2 DEF Within
<1>3. ASSUME NEW i \in DOMAIN jobs PROVE jobs[i] \in JobRow
  BY DEF TypeOK, StoreTypeOK, JobsTypeOK
<1>4. ASSUME NEW i \in DOMAIN jobs'
      PROVE  jobs'[i].key = NoKey /\ Within(jobs'[i], runs')
  <2>1. i \in DOMAIN jobs => /\ jobs[i].job \in Job /\ jobs[i].attempts \in Nat
                             /\ jobs[i].key = NoKey /\ Within(jobs[i], runs)
    BY <1>3 DEF RowsWithin, JobRow
  <2>2. CASE Pushes(jobs'[i]) /\ jobs'[i] \in JobRow
    <3>1. jobs'[i].job \in Job
      BY <2>2 DEF JobRow
    <3> QED BY <1>1, <2>2, <3>1, PushedFresh DEF Within
  <2>3. CASE i \in DOMAIN jobs /\ SameRow(jobs'[i], jobs[i])
    BY <1>1, <2>1, <2>3 DEF SameRow, Within
  <2>4. CASE \E r \in Runner : PopJob(r) /\ Takes(r, i)
    <3>1. PICK r \in Runner : PopJob(r) /\ Takes(r, i)
      BY <2>4
    <3>2. i \in DOMAIN jobs /\ jobs[i] \in JobRow /\ jobs'[i] = Claimed(i)
      BY <1>3, <3>1 DEF Takes
    <3>3. /\ jobs'[i].job = jobs[i].job /\ jobs'[i].key = jobs[i].key
          /\ jobs'[i].policy = jobs[i].policy
          /\ jobs'[i].attempts = jobs[i].attempts + 1
      BY <3>2 DEF Claimed, JobRow
    <3>4. jobs[i].job \in Buildable => runs'[jobs[i].job] = runs[jobs[i].job] + 1
      BY <3>1, <3>2, InlineClaim
    <3> QED BY <1>1, <2>1, <3>2, <3>3, <3>4 DEF Within
  <2>5. ~\E row \in JobRow : Def[row.job].debounce > 0
    <3>1. \A j \in Job : ~(Def[j].debounce > 0)
      BY DEF RunsInline, NothingDebounced
    <3> QED BY <3>1 DEF JobRow
  <2> QED BY <2>2, <2>3, <2>4, <2>5, RowsFrom DEF RowOrigin
<1>5. ASSUME NEW r \in Runner, pc'[r] \in Busy PROVE Within(claim'[r].row, runs')
  <2>1. CASE PopJob(r)
    <3>1. PICK i \in DOMAIN jobs : Takes(r, i)
      BY <2>1, PopTakes
    <3>2. i \in DOMAIN jobs' /\ claim'[r].row = jobs'[i]
      BY <3>1 DEF Takes, ClaimRow
    <3> QED BY <1>4, <3>2
  <2>2. CASE ~PopJob(r)
    <3>1. pc[r] \in Busy /\ claim'[r] = claim[r]
      BY <1>5, <2>2, RunnerMoves DEF Moves, Stays, Advances
    <3>2. Record(r) \in JobRow /\ Within(Record(r), runs)
      BY <3>1, BusyClaim DEF ClaimsWithin, TypeOK
    <3>3. Record(r).job \in Job /\ Record(r).attempts \in Nat
      BY <3>2 DEF JobRow
    <3> QED BY <1>2, <3>1, <3>2, <3>3 DEF Record
  <2> QED BY <2>1, <2>2
<1> QED BY <1>4, <1>5 DEF RowsWithin, ClaimsWithin, Record

(* A job is given up with its attempts used up, and tried again otherwise.    *)
LEMMA VerdictsStep ==
  ASSUME RunsInline, TypeOK, Verdicts, [Next]_vars
  PROVE  Verdicts'
<1> SUFFICES ASSUME NEW r \in Runner
             PROVE  /\ pc'[r] = "bury" /\ claim'[r].row.job \in Buildable
                         => claim'[r].row.attempts >= claim'[r].row.policy.max
                    /\ pc'[r] = "retry" => claim'[r].row.attempts < claim'[r].row.policy.max
  BY DEF Verdicts, Record
<1>1. CASE PopJob(r)
  <2>1. PICK i \in DOMAIN jobs : Takes(r, i)
    BY <1>1, PopTakes
  <2>2. jobs[i] \in JobRow
    BY DEF TypeOK, StoreTypeOK, JobsTypeOK
  <2>3. Claimed(i).job = jobs[i].job
    BY <2>2 DEF Claimed, JobRow
  <2>4. claim'[r].row = Claimed(i)
    BY <2>1 DEF Takes
  <2>5. Claimed(i).attempts \in Nat /\ Claimed(i).policy.max \in Nat
    BY <2>2 DEF Claimed, JobRow, Policy
  <2>6. pc'[r] = "retry" => Claimed(i).attempts < Claimed(i).policy.max
    BY <1>1, <2>1, <2>5, InlineClaim DEF AfterClaim
  <2> QED BY <1>1, <2>1, <2>3, <2>4, <2>6, InlineClaim
<1>2. CASE Stays(r)
  BY <1>2 DEF Stays, Verdicts, Record
<1>3. CASE claim'[r] = claim[r] /\ (GivesUp(r) \/ TriesAgain(r))
  BY <1>3 DEF GivesUp, TriesAgain, Record
<1>4. CASE pc'[r] \notin {"bury", "retry"}
  BY <1>4
<1> QED BY <1>1, <1>2, <1>3, <1>4, RunnerMoves DEF Moves, Advances, Busy, Settling

(* So a job in the failed table was run that often.                           *)
LEMMA FailedRunsStep ==
  ASSUME TypeOK, ClaimsWithin, Verdicts, FailedAfterMaxAttempts, [Next]_vars
  PROVE  FailedAfterMaxAttempts'
<1> SUFFICES ASSUME NEW i \in DOMAIN failed', failed'[i].job \in Buildable
             PROVE  runs'[failed'[i].job] >= Def[failed'[i].job].policy.max
  BY DEF FailedAfterMaxAttempts
<1>1. \A j \in Job : /\ runs[j] \in Nat /\ runs'[j] \in Nat /\ runs[j] <= runs'[j]
                     /\ Def[j].policy.max \in Nat
  <2>1. \A j \in Job : Def[j].policy \in Policy
    BY ScenarioAssumption DEF JobDef
  <2>2. \A j \in Job : Def[j].policy.max \in Nat
    BY <2>1 DEF Policy
  <2> QED BY <2>2, RunsGrow, TypeStep DEF TypeOK, HistoryTypeOK
<1>2. CASE i \in DOMAIN failed /\ failed'[i] = failed[i]
  <2>1. failed[i].job \in Job
    BY <1>2 DEF TypeOK, StoreTypeOK, FailedTypeOK, FailedRow
  <2> QED BY <1>1, <1>2, <2>1 DEF FailedAfterMaxAttempts
<1>3. CASE \E r \in Runner : pc[r] = "bury" /\ failed'[i].job = Record(r).job
  <2>1. PICK r \in Runner : pc[r] = "bury" /\ failed'[i].job = Record(r).job
    BY <1>3
  <2>2. Record(r) \in JobRow /\ Within(Record(r), runs)
    BY <2>1, BusyClaim DEF ClaimsWithin, TypeOK, Busy, Settling
  <2>3. Record(r).attempts \in Nat /\ Record(r).job \in Job
    BY <2>2 DEF JobRow
  <2>4. Record(r).attempts >= Record(r).policy.max
    BY <2>1 DEF Verdicts
  <2> QED BY <1>1, <2>1, <2>2, <2>3, <2>4 DEF Within
<1> QED BY <1>2, <1>3, FailedFrom DEF FailedOrigin

(* A step spends at most one fault.                                           *)
Fault == {"crash", "stop", "error", "lapse", "admin"}

(* What a step may spend.                                                     *)
LEMMA SpendsOne ==
  ASSUME [Next]_vars
  PROVE  UNCHANGED spent \/ \E what \in Fault : Spend(what)
<1>1. ASSUME NEW r \in Runner, Poll(r) \/ RunnerStep(r) \/ DbError(r)
      PROVE  UNCHANGED spent \/ Spend("error")
  BY <1>1 DEF RunnerStep, Poll, PopNothing, PopJob, HandlerReturns, HandlerThrows,
     PoolRefuses, DeleteDone, PushChained, CountComplete, CountFailed, CountJob, Bury,
     Unlist, FetchBatch, PushCallback, Retry, DbError
<1>2. ASSUME NEW a \in Admin,
             \/ \E i \in DOMAIN failed : RetryFailed(a, i)
             \/ FlushJobs(a) \/ AdminStep(a) \/ AdminCrash(a)
      PROVE  UNCHANGED spent \/ Spend("admin") \/ Spend("crash")
  BY <1>2 DEF RetryFailed, FlushJobs, AdminStep, Requeue, ForgetRetried, FlushFailed,
     FlushBatches, AdminCrash
<1>3. ASSUME NEW p \in Process, Shutdown(p) \/ Crash(p) \/ ProcessStep(p)
      PROVE  UNCHANGED spent \/ Spend("stop") \/ Spend("crash")
  BY <1>3 DEF Shutdown, Crash, ProcessStep, DrainTimesOut, Exit, Restart
<1>4. CASE \/ \E p \in Process, j \in Job : Dispatch(p, j)
           \/ \E p \in Process, b \in Batch : DispatchBatch(p, b)
           \/ \E b \in Batch : SendNext(b)
           \/ UNCHANGED vars
  BY <1>4 DEF Dispatch, DispatchBatch, SendNext, vars
<1>5. CASE DiscardFailed
  <2>1. Spend("admin")
    BY <1>5 DEF DiscardFailed, Discard
  <2> QED BY <2>1 DEF Fault
<1>6. CASE Elapse
  <2>1. UNCHANGED spent \/ Spend("lapse")
    BY <1>6 DEF Elapse
  <2> QED BY <2>1 DEF Fault
<1> QED BY <1>1, <1>2, <1>3, <1>4, <1>5, <1>6 DEF Next, Fault

(* A fault, once spent, stays spent.                                          *)
LEMMA SpentGrows ==
  ASSUME TypeOK, NEW what \in Fault, Spend(what)
  PROVE  /\ spent'[what] # 0
         /\ \A k \in Fault : spent'[k] = 0 => spent[k] = 0
<1>1. spent \in Bounds /\ spent' = [spent EXCEPT ![what] = @ + 1]
  BY DEF TypeOK, Spend
<1>2. \A k \in Fault : spent[k] \in Nat /\ k \in DOMAIN spent
  BY <1>1 DEF Bounds, Fault
<1>3. \A k \in Fault : spent'[k] = IF k = what THEN spent[k] + 1 ELSE spent[k]
  BY <1>1, <1>2
<1> QED BY <1>2, <1>3

(* Before the first fault nothing has been spent.                             *)
LEMMA NothingSpent ==
  ASSUME TypeOK, Undisturbed', [Next]_vars
  PROVE  Undisturbed /\ ~\E what \in Fault : Spend(what)
<1>1. \A k \in Fault : spent'[k] = 0
  BY DEF Undisturbed, Nothing, Fault
<1> QED BY <1>1, SpendsOne, SpentGrows DEF Undisturbed

(* Nobody has to stop, so nobody does.                                        *)
LEMMA StaysUp ==
  ASSUME TypeOK, \A p \in Process : proc[p] = "up", Undisturbed', [Next]_vars
  PROVE  \A p \in Process : proc'[p] = "up"
<1>1. /\ ~Spend("crash") /\ ~Spend("stop") /\ ~Spend("error")
      /\ ~Spend("lapse") /\ ~Spend("admin")
  BY NothingSpent DEF Fault
<1>2. proc \in [Process -> {"up", "draining", "drained", "timedout", "down"}]
  BY DEF TypeOK, ProcessTypeOK
<1>3. ASSUME NEW r \in Runner, EndJob(r) PROVE proc' = proc
  BY <1>2, <1>3, ScenarioAssumption DEF EndJob
<1>4. ASSUME NEW r \in Runner, Poll(r) \/ RunnerStep(r) \/ DbError(r) PROVE proc' = proc
  <2>1. ~DbError(r)
    BY <1>1 DEF DbError
  <2> QED BY <1>3, <1>4, <2>1 DEF RunnerStep, Poll, PopNothing, PopJob, HandlerReturns,
       HandlerThrows, PoolRefuses, DeleteDone, PushChained, CountComplete, CountFailed,
       CountJob, Bury, Unlist, FetchBatch, PushCallback, Retry, CountOrEnd, Failing,
       Continue, processVars
<1>5. ASSUME NEW p \in Process PROVE ~(Shutdown(p) \/ Crash(p) \/ ProcessStep(p))
  BY <1>1 DEF Shutdown, Crash, ProcessStep, DrainTimesOut, Exit, Restart
<1>6. ASSUME NEW a \in Admin,
             \/ \E i \in DOMAIN failed : RetryFailed(a, i)
             \/ FlushJobs(a) \/ AdminStep(a) \/ AdminCrash(a)
      PROVE  proc' = proc
  BY <1>6 DEF RetryFailed, FlushJobs, AdminStep, Requeue, ForgetRetried, FlushFailed,
     FlushBatches, AdminCrash, processVars
<1>7. CASE \/ \E p \in Process, j \in Job : Dispatch(p, j)
           \/ \E p \in Process, b \in Batch : DispatchBatch(p, b)
           \/ \E b \in Batch : SendNext(b)
           \/ DiscardFailed \/ Elapse \/ UNCHANGED vars
  BY <1>7 DEF Dispatch, DispatchBatch, SendNext, DiscardFailed, Discard, Elapse, vars,
     processVars
<1> QED BY <1>4, <1>5, <1>6, <1>7 DEF Next

(* How a runner lets go of the row it claimed.                                *)
LEMMA Releases ==
  ASSUME TypeOK, \A p \in Process : proc[p] = "up", Undisturbed', [Next]_vars,
         NEW s \in Runner, pc[s] \in Settling
  PROVE  \/ pc'[s] \in Settling /\ claim'[s] = claim[s]
         \/ DeleteJob(claim[s].id) \/ Retry(s)
<1>1. /\ ~Spend("crash") /\ ~Spend("stop") /\ ~Spend("error")
      /\ ~Spend("lapse") /\ ~Spend("admin")
  BY NothingSpent DEF Fault
<1>2. ASSUME NEW r \in Runner, RunnerStep(r), r = s
      PROVE  \/ pc'[s] \in Settling /\ claim'[s] = claim[s]
             \/ DeleteJob(claim[s].id) \/ Retry(s)
  <2>1. CASE HandlerReturns(r) \/ HandlerThrows(r) \/ PoolRefuses(r) \/ Bury(r)
    BY <1>2, <2>1 DEF HandlerReturns, HandlerThrows, PoolRefuses, Bury, Failing, Continue,
       Goto, TypeOK, RunnerTypeOK, Settling
  <2>2. CASE DeleteDone(r) \/ Unlist(r)
    BY <1>2, <2>2 DEF DeleteDone, Unlist
  <2>3. CASE Retry(r)
    BY <1>2, <2>3
  <2>4. CASE PopNothing(r) \/ PopJob(r) \/ PushChained(r) \/ CountComplete(r)
             \/ CountFailed(r) \/ FetchBatch(r) \/ PushCallback(r)
    BY <1>2, <2>4 DEF PopNothing, PopJob, PushChained, CountComplete, CountFailed, CountJob,
       FetchBatch, PushCallback, Settling
  <2> QED BY <1>2, <2>1, <2>2, <2>3, <2>4 DEF RunnerStep
<1>3. ASSUME NEW r \in Runner, Poll(r) \/ RunnerStep(r), r # s PROVE Stays(s)
  BY <1>3, RunnerStepMoves
<1>4. ASSUME NEW r \in Runner PROVE ~DbError(r) /\ ~(Poll(r) /\ r = s)
  BY <1>1 DEF DbError, Poll, Settling
<1>5. ASSUME NEW p \in Process PROVE ~(Shutdown(p) \/ Crash(p) \/ ProcessStep(p))
  BY <1>1 DEF Shutdown, Crash, ProcessStep, DrainTimesOut, Exit, Restart
<1>6. ASSUME NEW a \in Admin,
             \/ \E i \in DOMAIN failed : RetryFailed(a, i)
             \/ FlushJobs(a) \/ AdminStep(a) \/ AdminCrash(a)
      PROVE  pc' = pc /\ claim' = claim
  BY <1>6 DEF RetryFailed, FlushJobs, AdminStep, Requeue, ForgetRetried, FlushFailed,
     FlushBatches, AdminCrash, runnerVars
<1>7. CASE \/ \E p \in Process, j \in Job : Dispatch(p, j)
           \/ \E p \in Process, b \in Batch : DispatchBatch(p, b)
           \/ \E b \in Batch : SendNext(b)
           \/ DiscardFailed \/ Elapse \/ UNCHANGED vars
  BY <1>7 DEF Dispatch, DispatchBatch, SendNext, DiscardFailed, Discard, Elapse, vars,
     runnerVars
<1>8. CASE \E r \in Runner : Poll(r) \/ RunnerStep(r) \/ DbError(r)
  <2>1. PICK r \in Runner : Poll(r) \/ RunnerStep(r)
    BY <1>4, <1>8
  <2>2. CASE r = s
    BY <1>2, <1>4, <2>1, <2>2
  <2>3. CASE r # s
    BY <1>3, <2>1, <2>3 DEF Stays
  <2> QED BY <2>2, <2>3
<1>9. ASSUME NEW a \in Admin,
             \/ \E i \in DOMAIN failed : RetryFailed(a, i)
             \/ FlushJobs(a) \/ AdminStep(a) \/ AdminCrash(a)
      PROVE  pc'[s] \in Settling /\ claim'[s] = claim[s]
  BY <1>6, <1>9
<1> QED BY <1>5, <1>7, <1>8, <1>9 DEF Next, Stays

(* Where a free row, and a reserved one, comes from.                          *)
FreeFrom(i) ==
  \/ i = lastId + 1
  \/ i \in DOMAIN jobs /\ jobs[i].age = Unreserved
  \/ \E r \in Runner : Retry(r) /\ claim[r].id = i
ReservedFrom(i) ==
  \/ i \in DOMAIN jobs /\ jobs[i].age # Unreserved
  \/ \E r \in Runner : PopJob(r) /\ Takes(r, i)

(* The reservation of every row after a step.                                 *)
LEMMA AgesFrom ==
  ASSUME TypeOK, [Next]_vars, NEW i \in DOMAIN jobs'
  PROVE  IF jobs'[i].age = Unreserved THEN FreeFrom(i) ELSE ReservedFrom(i)
<1>1. JobsTypeOK
  BY DEF TypeOK, StoreTypeOK
<1>2. ASSUME i \in DOMAIN jobs,
             jobs'[i].age = Unreserved <=> jobs[i].age = Unreserved
      PROVE  IF jobs'[i].age = Unreserved THEN FreeFrom(i) ELSE ReservedFrom(i)
  BY <1>2 DEF FreeFrom, ReservedFrom
<1>3. CASE UNCHANGED <<jobs, lastId>>
  BY <1>2, <1>3
<1>4. CASE \E ids : jobs' = Without(jobs, ids)
  BY <1>2, <1>4 DEF Without
<1>5. CASE \E row \in JobRow : Pushes(row) /\ InsertJob(row)
  <2>1. PICK row \in JobRow : Pushes(row) /\ InsertJob(row)
    BY <1>5
  <2>2. /\ DOMAIN jobs' = DOMAIN jobs \cup {lastId + 1}
        /\ jobs'[lastId + 1] = row
        /\ \A k \in DOMAIN jobs : jobs'[k] = jobs[k]
    BY <1>1, <2>1, InsertJobEffect
  <2>3. row.age = Unreserved
    BY <2>1, PushedFresh
  <2>4. CASE i = lastId + 1
    BY <2>2, <2>3, <2>4 DEF FreeFrom
  <2>5. CASE i \in DOMAIN jobs
    BY <1>2, <2>2, <2>5
  <2> QED BY <2>2, <2>4, <2>5
<1>6. CASE \E row \in JobRow : Pushes(row) /\ UpsertDebounced(row)
  <2>1. PICK row \in JobRow : Pushes(row) /\ UpsertDebounced(row)
    BY <1>6
  <2>2. CASE Holders(row.key) = {}
    BY <1>5, <2>1, <2>2 DEF UpsertDebounced
  <2>3. CASE Holders(row.key) # {}
    <3>1. /\ i \in DOMAIN jobs
          /\ jobs'[i] = IF i \in Holders(row.key)
                        THEN [jobs[i] EXCEPT !.job = row.job, !.chain = row.chain,
                                             !.policy = row.policy, !.due = row.due]
                        ELSE jobs[i]
      BY <2>1, <2>3 DEF UpsertDebounced
    <3>2. jobs[i] \in JobRow
      BY <1>1, <3>1 DEF JobsTypeOK
    <3>3. jobs'[i].age = jobs[i].age
      BY <3>1, <3>2 DEF JobRow
    <3> QED BY <1>2, <3>1, <3>3
  <2> QED BY <2>2, <2>3
<1>7. CASE \E r \in Runner : PopJob(r)
  <2>1. PICK r \in Runner : PopJob(r)
    BY <1>7
  <2>2. PICK k \in DOMAIN jobs : Takes(r, k)
    BY <2>1, PopTakes
  <2>3. /\ DOMAIN jobs' = DOMAIN jobs /\ jobs'[k].age = 0
        /\ \A m \in DOMAIN jobs \ {k} : jobs'[m] = jobs[m]
    BY <1>1, <2>2, ClaimRowEffect DEF Takes
  <2>4. CASE i = k
    BY <2>1, <2>2, <2>3, <2>4 DEF ReservedFrom, Unreserved
  <2>5. CASE i # k
    BY <1>2, <2>3, <2>5
  <2> QED BY <2>4, <2>5
<1>8. CASE \E r \in Runner, delay \in Nat :
             Retry(r) /\ claim[r].id \in Nat /\ RetryJob(claim[r].id, delay)
  <2>1. PICK r \in Runner, delay \in Nat :
               Retry(r) /\ claim[r].id \in Nat /\ RetryJob(claim[r].id, delay)
    BY <1>8
  <2>2. /\ DOMAIN jobs' = DOMAIN jobs
        /\ \A k \in DOMAIN jobs \ {claim[r].id} : jobs'[k] = jobs[k]
    BY <1>1, <2>1, RetryJobEffect
  <2>3. CASE i = claim[r].id
    <3>1. jobs'[i] = [jobs[i] EXCEPT !.due = delay, !.age = Unreserved]
      BY <2>1, <2>2, <2>3 DEF RetryJob
    <3>2. jobs[i] \in JobRow
      BY <1>1, <2>2 DEF JobsTypeOK
    <3>3. jobs'[i].age = Unreserved
      BY <3>1, <3>2 DEF JobRow
    <3> QED BY <2>1, <2>3, <3>3 DEF FreeFrom
  <2>4. CASE i # claim[r].id
    BY <1>2, <2>2, <2>4
  <2> QED BY <2>3, <2>4
<1>9. CASE ElapseStore
  <2>1. i \in DOMAIN jobs /\ jobs'[i].age = Older(jobs[i].age)
    BY <1>1, <1>9, ElapseEffect
  <2>2. jobs[i].age \in -1..Visibility
    BY <1>1, <2>1 DEF JobsTypeOK, JobRow
  <2>3. Older(jobs[i].age) = Unreserved <=> jobs[i].age = Unreserved
    BY <2>2, VisibilityAssumption DEF Older, Unreserved
  <2> QED BY <1>2, <2>1, <2>3
<1> QED BY <1>3, <1>4, <1>5, <1>6, <1>7, <1>8, <1>9, OneStatement
       DEF Statement, DeleteJob

(* A claim takes a free row, which has an attempt left.                       *)
LEMMA TakesFree ==
  ASSUME TypeOK, Exclusive, Calm, NEW r \in Runner, NEW i \in DOMAIN jobs, Takes(r, i)
  PROVE  jobs[i].attempts < jobs[i].policy.max
<1>1. jobs[i].age = Unreserved \/ jobs[i].age >= Visibility
  BY DEF Takes, Claimable
<1>2. CASE jobs[i].age = Unreserved
  BY <1>2 DEF Calm
<1>3. CASE jobs[i].age # Unreserved
  <2>1. PICK s \in Runner : Holder(s, i)
    BY <1>3 DEF Calm
  <2>2. jobs[i].age = held[s] /\ held[s] < Visibility /\ held[s] \in Nat
    BY <2>1 DEF Holder, Exclusive, ReservationHeld, TypeOK, RunnerTypeOK
  <2> QED BY <1>1, <1>3, <2>2, VisibilityAssumption
<1> QED BY <1>2, <1>3

(* Until something goes wrong, no row is left behind and none is overused.    *)
LEMMA CalmStep ==
  ASSUME RunsInline, TypeOK, Exclusive, OwnRow, RowsWithin, Verdicts, Calm, Undisturbed',
         [Next]_vars
  PROVE  Calm'
<1>1. \A p \in Process : proc[p] = "up"
  BY DEF Calm
<1>2. ASSUME NEW i \in DOMAIN jobs PROVE jobs[i] \in JobRow
  BY DEF TypeOK, StoreTypeOK, JobsTypeOK
<1>3. ASSUME NEW i \in DOMAIN jobs', jobs'[i].age = Unreserved
      PROVE  jobs'[i].attempts < jobs'[i].policy.max
  <2>1. jobs'[i] \in JobRow
    BY TypeStep DEF TypeOK, StoreTypeOK, JobsTypeOK
  <2>2. jobs'[i].policy.max \in Nat \ {0}
    BY <2>1 DEF JobRow, Policy
  <2>3. CASE Pushes(jobs'[i])
    BY <2>2, <2>3, PushedFresh
  <2>4. CASE i \in DOMAIN jobs /\ SameRow(jobs'[i], jobs[i]) /\ i # lastId + 1
    <3>1. CASE jobs[i].age = Unreserved
      BY <2>4, <3>1 DEF Calm, SameRow
    <3>2. CASE \E r \in Runner : Retry(r) /\ claim[r].id = i
      <4>1. PICK r \in Runner : Retry(r) /\ claim[r].id = i
        BY <3>2
      <4>2. pc[r] = "retry"
        BY <4>1 DEF Retry
      <4>3. SameRow(jobs[i], Record(r))
        BY <2>4, <4>1, <4>2 DEF OwnRow, Settling
      <4>4. Record(r).attempts < Record(r).policy.max
        BY <4>2 DEF Verdicts
      <4> QED BY <2>4, <4>3, <4>4 DEF SameRow
    <3> QED BY <1>3, <2>4, <3>1, <3>2, AgesFrom DEF FreeFrom
  <2>5. ~\E r \in Runner : Takes(r, i)
    <3>1. ASSUME NEW r \in Runner, Takes(r, i) PROVE FALSE
      <4>1. i \in DOMAIN jobs /\ jobs'[i] = Claimed(i)
        BY <3>1 DEF Takes
      <4>2. Claimed(i).age = 0
        BY <1>2, <4>1 DEF Claimed, JobRow
      <4> QED BY <1>3, <4>1, <4>2 DEF Unreserved
    <3> QED BY <3>1
  <2>6. ~\E row \in JobRow : Def[row.job].debounce > 0
    <3>1. \A j \in Job : ~(Def[j].debounce > 0)
      BY DEF RunsInline, NothingDebounced
    <3> QED BY <3>1 DEF JobRow
  <2>7. i \in DOMAIN jobs => i # lastId + 1
    BY DEF TypeOK, StoreTypeOK, JobsTypeOK
  <2> QED BY <2>3, <2>4, <2>5, <2>6, <2>7, RowsFrom DEF RowOrigin
<1>4. ASSUME NEW i \in DOMAIN jobs', jobs'[i].age # Unreserved
      PROVE  \E r \in Runner : pc'[r] \in Settling /\ claim'[r].id = i
  <2>1. CASE \E r \in Runner : PopJob(r) /\ Takes(r, i)
    <3>1. PICK r \in Runner : PopJob(r) /\ Takes(r, i)
      BY <2>1
    <3>2. i \in DOMAIN jobs /\ claim'[r].id = i
      BY <3>1 DEF Takes
    <3>3. pc'[r] \in Settling
      BY <3>1, <3>2, InlineClaim DEF Settling
    <3> QED BY <3>2, <3>3
  <2>2. CASE i \in DOMAIN jobs /\ jobs[i].age # Unreserved
    <3>1. PICK r \in Runner : Holder(r, i)
      BY <2>2 DEF Calm
    <3>2. ~DeleteJob(claim[r].id)
      BY <3>1 DEF Holder, DeleteJob, Without
    <3>3. ~Retry(r)
      <4>1. jobs[i].key = NoKey
        BY <2>2 DEF RowsWithin
      <4>2. ~RetryRefused(i)
        BY <4>1 DEF RetryRefused
      <4>3. ASSUME NEW delay, RetryJob(i, delay) PROVE FALSE
        <5>1. jobs'[i] = [jobs[i] EXCEPT !.due = delay, !.age = Unreserved]
          BY <2>2, <4>3 DEF RetryJob
        <5>2. jobs'[i].age = Unreserved
          BY <1>2, <2>2, <5>1 DEF JobRow
        <5> QED BY <1>4, <5>2
      <4> QED BY <3>1, <4>2, <4>3 DEF Retry, Holder
    <3> QED BY <1>1, <3>1, <3>2, <3>3, Releases DEF Holder
  <2> QED BY <1>4, <2>1, <2>2, AgesFrom DEF ReservedFrom
<1>5. ASSUME NEW r \in Runner, pc'[r] = "handle"
      PROVE  claim'[r].row.attempts <= claim'[r].row.policy.max
  <2>1. CASE PopJob(r)
    <3>1. PICK i \in DOMAIN jobs : Takes(r, i)
      BY <2>1, PopTakes
    <3>2. /\ jobs[i] \in JobRow /\ jobs[i].attempts < jobs[i].policy.max
      BY <1>2, <3>1, TakesFree
    <3>3. /\ jobs[i].attempts \in Nat /\ jobs[i].policy.max \in Nat
          /\ Claimed(i).attempts = jobs[i].attempts + 1
          /\ Claimed(i).policy = jobs[i].policy
      BY <3>2 DEF Claimed, JobRow, Policy
    <3> QED BY <3>1, <3>2, <3>3 DEF Takes
  <2>2. CASE Stays(r)
    BY <1>5, <2>2, NothingSpent DEF Stays, Calm, AttemptsBounded, Record
  <2> QED BY <1>5, <2>1, <2>2, RunnerMoves
          DEF Moves, Advances, GivesUp, TriesAgain, Busy, Settling
<1>6. \A p \in Process : proc'[p] = "up"
  BY <1>1, StaysUp
<1>7. AttemptsBounded'
  BY <1>5 DEF AttemptsBounded, Record
<1> QED BY <1>3, <1>4, <1>6, <1>7 DEF Calm, Holder

(* A job is listed as failed only after its handler was entered as often as    *)
(* its class allows, whatever crashes, errors, lapsed claims and operations    *)
(* come between; and as long as nothing of the kind has happened it is entered *)
(* no more often than that (Job.ts: maxAttempts).                              *)
THEOREM AttemptsKept == RunsInline /\ Spec => []AttemptsHonoured
<1> DEFINE Inv == RunsInline /\ OwnInv /\ AttemptsInv
<1>1. RunsInline /\ Init => Inv
  <2>1. Init => AttemptsInv
    BY DEF Init, StoreInit, AttemptsInv, RowsWithin, ClaimsWithin, Verdicts,
       FailedAfterMaxAttempts, Calm, AttemptsBounded, Busy, Settling
  <2> QED BY <2>1, OwnInvStep
<1>2. Inv /\ [Next]_vars => Inv'
  <2> SUFFICES ASSUME Inv, [Next]_vars PROVE Inv'
    OBVIOUS
  <2>1. RunsInline' /\ OwnInv' /\ TypeOK
    BY OwnInvStep DEF RunsInline, NothingDebounced, OwnInv, ExclusiveInv
  <2>2. RowsWithin' /\ ClaimsWithin' /\ Verdicts' /\ FailedAfterMaxAttempts'
    BY <2>1, WithinStep, VerdictsStep, FailedRunsStep DEF AttemptsInv
  <2>3. ASSUME Undisturbed' PROVE Calm'
    <3>1. Undisturbed
      BY <2>1, <2>3, NothingSpent
    <3>2. InTime
      BY <3>1 DEF Undisturbed, Nothing, InTime
    <3> QED BY <2>1, <2>3, <3>1, <3>2, CalmStep DEF OwnInv, ExclusiveInv, AttemptsInv
  <2> QED BY <2>1, <2>2, <2>3 DEF AttemptsInv
<1>3. Inv => AttemptsHonoured
  BY DEF AttemptsInv, AttemptsHonoured, Calm, AttemptsBounded
<1> QED BY <1>1, <1>2, <1>3, PTL DEF Spec

-----------------------------------------------------------------------------
(* Batches. *)

Uncounted == Settling \cup {"chain", "count", "countFailed"}

(* A claim or a row that its batch still waits for: the row's id, its job. *)
Holds(r, b, i, j) ==
  /\ pc[r] \in Uncounted /\ claim[r].id = i
  /\ Record(r).batch = b /\ Record(r).job = j
Token(b, i, j) ==
  \/ i \in DOMAIN jobs /\ jobs[i].batch = b /\ jobs[i].job = j
  \/ \E r \in Runner : Holds(r, b, i, j)
Tokens(b) == {i \in 1..lastId : \E j \in Job : Token(b, i, j)}

Unsent(b) == Len(BatchDef[b].jobs) - sent[b]
Awaited(b) == Cardinality(Tokens(b)) + Unsent(b)

Accounted(b) ==
  /\ sent[b] <= Len(BatchDef[b].jobs)
  /\ sent[b] = 0 => Tokens(b) = {}
  /\ reports[b] <= 1
  /\ reports[b] = 1 => Tokens(b) = {} /\ Unsent(b) = 0
  /\ b \in DOMAIN batches => Awaited(b) <= batches[b].pending

(* While no job of the batch failed and none went astray, every job of it    *)
(* that was sent has succeeded or is still on its way.                        *)
OnTheWay(b) ==
  b \in DOMAIN batches /\ batches[b].failed = 0 /\ Awaited(b) = batches[b].pending =>
    \A m \in 1..sent[b] :
      \/ BatchDef[b].jobs[m] \in succeeded
      \/ \E i \in Tokens(b) : Token(b, i, BatchDef[b].jobs[m])

AllSucceeded(b) ==
  \A m \in DOMAIN BatchDef[b].jobs : BatchDef[b].jobs[m] \in succeeded
Ready(k) == \A b \in Batch : Listed(k, BatchDef[b].then) => AllSucceeded(b)
ThenReady ==
  \A r \in Runner : pc[r] \in {"fetch", "callbacks"} =>
    \A n \in 1..Len(todo[r]) : Ready(todo[r][n])

(* No claim has lapsed and no statement has been refused by the database. *)
Careful == spent.lapse = 0 /\ spent.error = 0

BatchesRight ==
  /\ \A b \in Batch : Accounted(b) /\ OnTheWay(b)
  /\ ThenReady /\ ThenMeansAllSucceeded

(* What a batch's row and its report may do in a step.                        *)
Created(b) ==
  /\ b \notin DOMAIN batches /\ b \in DOMAIN batches'
  /\ batches'[b].pending = Len(BatchDef[b].jobs)
  /\ sent[b] = 0 /\ sent'[b] = 0 /\ reports'[b] = reports[b]
CountsOne(r, b, f) ==
  /\ pc[r] = IF f = 0 THEN "count" ELSE "countFailed"
  /\ pc'[r] \notin Uncounted /\ Record(r).batch = b
  /\ UNCHANGED <<jobs, lastId>>
  /\ b \in DOMAIN batches' <=> b \in DOMAIN batches
  /\ b \in DOMAIN batches =>
       /\ batches'[b].pending = batches[b].pending - 1
       /\ batches'[b].failed = batches[b].failed + f
  /\ \/ reports'[b] = reports[b]
     \/ /\ b \in DOMAIN batches /\ batches'[b].pending <= 0
        /\ reports'[b] = reports[b] + 1
BatchStays(b) ==
  /\ reports'[b] = reports[b]
  /\ b \in DOMAIN batches' => b \in DOMAIN batches /\ batches'[b] = batches[b]
BatchMoves(b) ==
  \/ BatchStays(b) \/ Created(b)
  \/ \E r \in Runner, f \in {0, 1} : CountsOne(r, b, f)

(* Counting one job of its batch.                                             *)
LEMMA CountMoves ==
  ASSUME TypeOK, NEW r \in Runner, NEW f \in {0, 1}, NEW b \in Batch,
         CountJob(r, IF f = 0 THEN "count" ELSE "countFailed", f)
  PROVE  IF Record(r).batch = b THEN CountsOne(r, b, f) ELSE BatchStays(b)
<1> DEFINE c == Record(r).batch
<1>1. /\ batches' = IF c \in DOMAIN batches
                    THEN [batches EXCEPT ![c] = Counted(c, f)] ELSE batches
      /\ pc[r] = IF f = 0 THEN "count" ELSE "countFailed"
      /\ UNCHANGED <<jobs, lastId>>
  BY DEF CountJob, RecordBatch
<1>2. reports \in [Batch -> Nat]
  BY DEF TypeOK, HistoryTypeOK
<1>3. c \in DOMAIN batches => Counted(c, f).pending \in Int
  BY DEF TypeOK, StoreTypeOK, BatchesTypeOK, BatchRow, Counted
<1>4. \/ EndJob(r) /\ UNCHANGED reports
      \/ /\ BatchStatus(c, f) # "pending"
         /\ Continue(r, "fetch") /\ reports' = [reports EXCEPT ![c] = @ + 1]
  BY DEF CountJob
<1>5. BatchStatus(c, f) # "pending" => c \in DOMAIN batches /\ Counted(c, f).pending <= 0
  BY <1>3 DEF BatchStatus
<1>6. pc'[r] \notin Uncounted
  <2>1. EndJob(r) => pc'[r] \notin Busy
    BY EndMoves
  <2>2. Continue(r, "fetch") => pc'[r] = "fetch"
    BY DEF Continue, Goto, TypeOK, RunnerTypeOK
  <2> QED BY <1>4, <2>1, <2>2 DEF Uncounted, Busy, Settling
<1>7. CASE c = b
  BY <1>1, <1>2, <1>4, <1>5, <1>6, <1>7 DEF CountsOne, Counted
<1>8. CASE c # b
  BY <1>1, <1>2, <1>4, <1>8 DEF BatchStays
<1> QED BY <1>7, <1>8

(* A step creates a batch, counts a job of it, or leaves it alone.            *)
LEMMA BatchesFrom ==
  ASSUME TypeOK, [Next]_vars, NEW b \in Batch
  PROVE  BatchMoves(b)
<1>1. UNCHANGED <<batches, reports>> => BatchStays(b)
  BY DEF BatchStays
<1>2. CASE \E p \in Process, c \in Batch : DispatchBatch(p, c)
  <2>1. PICK c \in Batch : /\ c \notin DOMAIN batches /\ sent[c] = 0
                           /\ CreateBatch(c, Len(BatchDef[c].jobs))
                           /\ UNCHANGED <<sent, reports>>
    BY <1>2 DEF DispatchBatch, history
  <2>2. CASE c = b
    BY <2>1, <2>2 DEF CreateBatch, With, Created, BatchMoves
  <2>3. CASE c # b
    BY <2>1, <2>3 DEF CreateBatch, With, BatchStays, BatchMoves
  <2> QED BY <2>2, <2>3
<1>3. CASE \E r \in Runner : Poll(r) \/ RunnerStep(r) \/ DbError(r)
  <2>1. PICK r \in Runner : Poll(r) \/ RunnerStep(r) \/ DbError(r)
    BY <1>3
  <2>2. CASE CountComplete(r)
    <3>1. CountJob(r, IF 0 = 0 THEN "count" ELSE "countFailed", 0)
      BY <2>2 DEF CountComplete
    <3> QED BY <3>1, CountMoves DEF BatchMoves
  <2>3. CASE CountFailed(r)
    <3>1. CountJob(r, IF 1 = 0 THEN "count" ELSE "countFailed", 1)
      BY <2>3 DEF CountFailed
    <3> QED BY <3>1, CountMoves DEF BatchMoves
  <2>4. CASE ~CountComplete(r) /\ ~CountFailed(r)
    <3>1. UNCHANGED <<batches, reports>>
      BY <2>1, <2>4 DEF RunnerStep, Poll, PopNothing, PopJob, HandlerReturns, HandlerThrows,
         PoolRefuses, DeleteDone, PushChained, Bury, Unlist, FetchBatch, PushCallback,
         Retry, DbError, storeVars, history
    <3> QED BY <1>1, <3>1 DEF BatchMoves
  <2> QED BY <2>2, <2>3, <2>4
<1>4. CASE \E a \in Admin : \/ \E i \in DOMAIN failed : RetryFailed(a, i)
                            \/ FlushJobs(a) \/ AdminStep(a) \/ AdminCrash(a)
  <2>1. PICK a \in Admin : \/ \E i \in DOMAIN failed : RetryFailed(a, i)
                           \/ FlushJobs(a) \/ AdminStep(a) \/ AdminCrash(a)
    BY <1>4
  <2>2. CASE FlushBatches(a)
    BY <2>2 DEF FlushBatches, Without, history, BatchStays, BatchMoves
  <2>3. CASE ~FlushBatches(a)
    <3>1. UNCHANGED <<batches, reports>>
      BY <2>1, <2>3 DEF RetryFailed, FlushJobs, AdminStep, Requeue, ForgetRetried,
         FlushFailed, AdminCrash, storeVars, history
    <3> QED BY <1>1, <3>1 DEF BatchMoves
  <2> QED BY <2>2, <2>3
<1>5. CASE \E p \in Process : Shutdown(p) \/ Crash(p) \/ ProcessStep(p)
  BY <1>1, <1>5 DEF Shutdown, Crash, ProcessStep, DrainTimesOut, Exit, Restart, Halt,
     storeVars, history, BatchMoves
<1>6. CASE \/ \E p \in Process, j \in Job : Dispatch(p, j)
           \/ \E c \in Batch : SendNext(c)
           \/ DiscardFailed \/ Elapse \/ UNCHANGED vars
  <2>1. UNCHANGED <<batches, reports>>
    BY <1>6 DEF Dispatch, SendNext, DiscardFailed, Discard, Elapse, ElapseStore, vars,
       storeVars, history
  <2> QED BY <1>1, <2>1 DEF BatchMoves
<1> QED BY <1>2, <1>3, <1>4, <1>5, <1>6 DEF Next

(* A batch is sent job by job.                                                *)
LEMMA SentFrom ==
  ASSUME TypeOK, [Next]_vars, NEW b \in Batch
  PROVE  \/ sent'[b] = sent[b]
         \/ \E j \in Job : Enqueues(j, b)
<1>1. CASE \E c \in Batch : SendNext(c)
  <2>1. PICK c \in Batch : SendNext(c)
    BY <1>1
  <2>2. CASE \E j \in Job : Enqueues(j, c)
    <3>1. sent' = [sent EXCEPT ![c] = @ + 1]
      BY <2>2, NullAssumption DEF Enqueues
    <3> QED BY <2>2, <3>1 DEF TypeOK, ClientTypeOK
  <2> QED BY <2>1, <2>2, SendNextCases
<1>2. CASE \E r \in Runner : Poll(r) \/ RunnerStep(r) \/ DbError(r)
  <2>1. UNCHANGED clientVars
    BY <1>2 DEF RunnerStep, Poll, PopNothing, PopJob, HandlerReturns, HandlerThrows,
       PoolRefuses, DeleteDone, PushChained, CountComplete, CountFailed, CountJob, Bury,
       Unlist, FetchBatch, PushCallback, Retry, DbError
  <2> QED BY <2>1 DEF clientVars
<1>3. CASE \E a \in Admin : \/ \E i \in DOMAIN failed : RetryFailed(a, i)
                            \/ FlushJobs(a) \/ AdminStep(a) \/ AdminCrash(a)
  <2>1. UNCHANGED sent
    BY <1>3 DEF RetryFailed, FlushJobs, AdminStep, Requeue, ForgetRetried,
                FlushFailed, FlushBatches, AdminCrash
  <2> QED BY <2>1
<1>4. CASE \E p \in Process : Shutdown(p) \/ Crash(p) \/ ProcessStep(p)
  BY <1>4 DEF Shutdown, Crash, ProcessStep, DrainTimesOut, Exit, Restart, Halt, clientVars
<1>5. CASE \/ \E p \in Process, j \in Job : Dispatch(p, j)
           \/ \E p \in Process, c \in Batch : DispatchBatch(p, c)
           \/ DiscardFailed \/ Elapse \/ UNCHANGED vars
  BY <1>5 DEF Dispatch, DispatchBatch, DiscardFailed, Discard, Elapse, vars, clientVars
<1> QED BY <1>1, <1>2, <1>3, <1>4, <1>5 DEF Next

(* What dispatching a job of a batch leaves alone.                            *)
LEMMA EnqueueEffect ==
  ASSUME TypeOK, NEW b \in Batch, NEW j \in Job, Enqueues(j, b)
  PROVE  /\ sent[b] \in Nat /\ sent[b] < Len(BatchDef[b].jobs)
         /\ sent'[b] = sent[b] + 1 /\ j = BatchDef[b].jobs[sent[b] + 1]
         /\ UNCHANGED <<batches, reports, succeeded>>
<1>1. /\ SendNext(b) /\ sent[b] + 1 \in DOMAIN BatchDef[b].jobs
      /\ j = BatchDef[b].jobs[sent[b] + 1]
      /\ sent' = [sent EXCEPT ![b] = @ + 1]
  BY NullAssumption DEF Enqueues
<1>2. BatchDef[b].jobs \in Seq(Job) /\ sent \in [Batch -> Nat]
  BY ScenarioAssumption DEF Callbacks, TypeOK, ClientTypeOK
<1>3. sent[b] < Len(BatchDef[b].jobs)
  BY <1>1, <1>2
<1> QED BY <1>1, <1>2, <1>3 DEF SendNext

(* Only a batch's own loop pushes rows of the batch.                          *)
LEMMA PushedOfBatch ==
  ASSUME TypeOK, NEW row, Pushes(row), NEW b \in Batch, row.batch = b
  PROVE  row.job \in Job /\ Enqueues(row.job, b)
<1>1. ASSUME NEW j \in Job, NEW c, row = Dispatched(j, c) PROVE row.batch = c /\ row.job = j
  BY <1>1 DEF Dispatched, FreshRow
<1>2. ASSUME NEW j, NEW chain, NEW fallback, row = Stored(j, chain, fallback)
      PROVE  row.batch = NoBatch
  BY <1>2 DEF Stored, FreshRow
<1>3. ASSUME NEW a, row = Requeued(a) PROVE row.batch = NoBatch
  BY <1>3 DEF Requeued, FreshRow
<1> QED BY <1>1, <1>2, <1>3, NullAssumption DEF Pushes, Chained, CalledBack

(* A token is a known row id and a job.                                       *)
LEMMA TokenTypes ==
  ASSUME TypeOK, Exclusive, NEW b, NEW i, NEW j, Token(b, i, j)
  PROVE  i \in 1..lastId /\ j \in Job
<1>1. CASE i \in DOMAIN jobs /\ jobs[i].job = j
  <2>1. jobs[i] \in JobRow /\ i \in 1..lastId
    BY <1>1 DEF TypeOK, StoreTypeOK, JobsTypeOK
  <2> QED BY <1>1, <2>1 DEF JobRow
<1>2. CASE \E r \in Runner : Holds(r, b, i, j)
  <2>1. PICK r \in Runner : Holds(r, b, i, j)
    BY <1>2
  <2>2. pc[r] \in Busy
    BY <2>1 DEF Holds, Uncounted, Busy
  <2>3. claim[r].id \in Nat \ {0} /\ Record(r) \in JobRow /\ claim[r].id <= lastId
    BY <2>2, BusyClaim DEF TypeOK, Claim, Exclusive, ClaimsKnown
  <2>4. lastId \in Nat
    BY DEF TypeOK, StoreTypeOK, JobsTypeOK
  <2> QED BY <2>1, <2>3, <2>4 DEF Holds, JobRow
<1> QED BY <1>1, <1>2 DEF Token

(* A row id stands for one job: of a row and of the claim of it, or of the    *)
(* one runner that still counts the job once the row is gone.                 *)
LEMMA TokenUnique ==
  ASSUME TypeOK, Exclusive, OwnRow, NEW b, NEW i, NEW j, NEW k,
         Token(b, i, j), Token(b, i, k)
  PROVE  j = k
<1>1. Uncounted \subseteq Busy
  BY DEF Uncounted, Busy
<1>2. ASSUME i \in DOMAIN jobs, NEW r \in Runner, NEW l, Holds(r, b, i, l)
      PROVE  jobs[i].job = l
  <2>1. pc[r] \in Settling
    BY <1>1, <1>2 DEF Holds, Exclusive, SettledRowsGone
  <2> QED BY <1>2, <2>1 DEF Holds, OwnRow, SameRow
<1>3. ASSUME NEW r \in Runner, NEW s \in Runner, Holds(r, b, i, j), Holds(s, b, i, k)
      PROVE  j = k
  BY <1>1, <1>3 DEF Holds, Exclusive, NoDoubleProcessing
<1> QED BY <1>2, <1>3 DEF Token

(* Without errors and lapses, tokens come from dispatches only.               *)
LEMMA TokensFrom ==
  ASSUME TypeOK, NothingDebounced, ~Spend("error"), [Next]_vars,
         NEW b \in Batch, NEW i, NEW j, Token(b, i, j)'
  PROVE  Token(b, i, j) \/ (i = lastId + 1 /\ j \in Job /\ Enqueues(j, b))
<1>1. CASE i \in DOMAIN jobs' /\ jobs'[i].batch = b /\ jobs'[i].job = j
  <2>1. CASE Pushes(jobs'[i]) /\ i = lastId + 1
    BY <1>1, <2>1, PushedOfBatch
  <2>2. CASE i \in DOMAIN jobs /\ SameRow(jobs'[i], jobs[i])
    BY <1>1, <2>2 DEF SameRow, Token
  <2>3. CASE \E r \in Runner : Takes(r, i)
    <3>1. i \in DOMAIN jobs /\ jobs'[i] = Claimed(i)
      BY <2>3 DEF Takes
    <3>2. jobs[i] \in JobRow
      BY <3>1 DEF TypeOK, StoreTypeOK, JobsTypeOK
    <3>3. jobs[i].batch = b /\ jobs[i].job = j
      BY <1>1, <3>1, <3>2 DEF Claimed, JobRow
    <3> QED BY <3>1, <3>3 DEF Token
  <2>4. ~\E row \in JobRow : Def[row.job].debounce > 0
    <3>1. \A k \in Job : ~(Def[k].debounce > 0)
      BY DEF NothingDebounced
    <3> QED BY <3>1 DEF JobRow
  <2> QED BY <1>1, <2>1, <2>2, <2>3, <2>4, RowsFrom DEF RowOrigin
<1>2. CASE \E r \in Runner : /\ pc'[r] \in Uncounted /\ claim'[r].id = i
                             /\ claim'[r].row.batch = b /\ claim'[r].row.job = j
  <2>1. PICK r \in Runner : /\ pc'[r] \in Uncounted /\ claim'[r].id = i
                            /\ claim'[r].row.batch = b /\ claim'[r].row.job = j
    BY <1>2
  <2>2. CASE PopJob(r)
    <3>1. PICK k \in DOMAIN jobs : Takes(r, k)
      BY <2>2, PopTakes
    <3>2. i = k /\ claim'[r].row = Claimed(k) /\ jobs[k] \in JobRow
      BY <2>1, <3>1 DEF Takes, TypeOK, StoreTypeOK, JobsTypeOK
    <3>3. jobs[k].batch = b /\ jobs[k].job = j
      BY <2>1, <3>2 DEF Claimed, JobRow
    <3> QED BY <3>1, <3>2, <3>3 DEF Token
  <2>3. CASE pc[r] \in Uncounted /\ claim'[r] = claim[r]
    BY <2>1, <2>3 DEF Token, Holds, Record
  <2>4. CASE Stays(r)
    BY <2>1, <2>3, <2>4 DEF Stays
  <2>5. CASE Advances(r)
    <3>1. ~DbError(r)
      BY DEF DbError
    <3>2. pc'[r] \notin {"fetch", "callbacks"} /\ claim'[r] = claim[r]
      BY <2>1, <2>5 DEF Uncounted, Settling, Advances
    <3>3. pc[r] \in Uncounted
      BY <2>5, <3>1, <3>2 DEF Advances, HandlerReturns, Bury, DeleteDone, PushChained,
         Unlist, Uncounted, Settling
    <3> QED BY <2>3, <3>2, <3>3
  <2> QED BY <2>1, <2>2, <2>4, <2>5, RunnerMoves DEF Moves, Uncounted, Busy
<1> QED BY <1>1, <1>2 DEF Token, Holds, Record

(* A batch's tokens are finitely many.                                        *)
LEMMA TokensFinite ==
  ASSUME TypeOK, NEW b
  PROVE  IsFiniteSet(Tokens(b)) /\ Cardinality(Tokens(b)) \in Nat
<1>1. IsFiniteSet(1..lastId)
  BY FS_Interval DEF TypeOK, StoreTypeOK, JobsTypeOK
<1>2. Tokens(b) \in SUBSET (1..lastId)
  BY DEF Tokens
<1>3. IsFiniteSet(Tokens(b))
  BY <1>1, <1>2, FS_Subset
<1> QED BY <1>3, FS_CardinalityType

(* A batch gains at most the token of the job being dispatched, and loses the *)
(* token of the job being counted.                                            *)
LEMMA TokensStep ==
  ASSUME TypeOK, Exclusive, NothingDebounced, ~Spend("error"), [Next]_vars, NEW b \in Batch
  PROVE  /\ Tokens(b)' \subseteq Tokens(b) \cup {lastId + 1}
         /\ lastId + 1 \notin Tokens(b)
         /\ (~\E j \in Job : Enqueues(j, b)) => Tokens(b)' \subseteq Tokens(b)
<1>1. lastId \in Nat
  BY DEF TypeOK, StoreTypeOK, JobsTypeOK
<1>2. ASSUME NEW i \in Tokens(b)'
      PROVE  i \in Tokens(b) \/ (i = lastId + 1 /\ \E j \in Job : Enqueues(j, b))
  <2>1. PICK j \in Job : Token(b, i, j)'
    BY <1>2 DEF Tokens
  <2>2. Token(b, i, j) => i \in Tokens(b)
    BY TokenTypes DEF Tokens
  <2> QED BY <2>1, <2>2, TokensFrom
<1> QED BY <1>1, <1>2 DEF Tokens

(* The token of a job being counted.                                          *)
LEMMA CountedToken ==
  ASSUME TypeOK, Exclusive, NothingDebounced, ~Spend("error"), [Next]_vars, NEW b \in Batch,
         NEW r \in Runner, NEW f \in {0, 1}, CountsOne(r, b, f)
  PROVE  /\ Token(b, claim[r].id, Record(r).job)
         /\ claim[r].id \in Tokens(b)
         /\ claim[r].id \notin Tokens(b)'
<1>1. pc[r] \in {"count", "countFailed"}
  BY DEF CountsOne
<1>2. Token(b, claim[r].id, Record(r).job)
  BY <1>1 DEF CountsOne, Token, Holds, Uncounted
<1>3. claim[r].id \in Tokens(b)
  BY <1>2, TokenTypes DEF Tokens
<1>4. claim[r].id \notin DOMAIN jobs'
  <2>1. claim[r].id \notin DOMAIN jobs
    BY <1>1 DEF Exclusive, SettledRowsGone, Busy, Settling
  <2> QED BY <2>1 DEF CountsOne
<1>5. ASSUME NEW s \in Runner, pc'[s] \in Uncounted, claim'[s].id = claim[r].id
      PROVE  FALSE
  <2>1. s # r
    BY <1>5 DEF CountsOne
  <2>2. ~PopJob(s)
    <3>1. ASSUME PopJob(s) PROVE FALSE
      <4>1. PICK i \in DOMAIN jobs : Takes(s, i)
        BY <3>1, PopTakes
      <4>2. i = claim[r].id
        BY <1>5, <4>1 DEF Takes
      <4> QED BY <1>4, <4>1, <4>2 DEF CountsOne
    <3> QED BY <3>1
  <2>3. pc[s] \in Busy /\ claim[s].id = claim[r].id
    BY <1>5, <2>2, RunnerMoves DEF Moves, Stays, Advances, Uncounted, Busy
  <2> QED BY <1>1, <2>1, <2>3 DEF Exclusive, NoDoubleProcessing, Busy
<1>6. claim[r].id \notin Tokens(b)'
  BY <1>4, <1>5 DEF Tokens, Token, Holds
<1> QED BY <1>2, <1>3, <1>6

(* A token that stays keeps its job.                                          *)
LEMMA TokenKept ==
  ASSUME TypeOK, Exclusive, OwnRow, NothingDebounced, ~Spend("error"), [Next]_vars,
         NEW b \in Batch, NEW i \in Tokens(b)', NEW j, Token(b, i, j)
  PROVE  Token(b, i, j)'
<1>1. PICK k \in Job : Token(b, i, k)'
  BY DEF Tokens
<1>2. i \in 1..lastId /\ lastId \in Nat
  BY TokenTypes DEF TypeOK, StoreTypeOK, JobsTypeOK
<1>3. Token(b, i, k)
  BY <1>1, <1>2, TokensFrom
<1> QED BY <1>1, <1>3, TokenUnique

(* What a step does to a batch's accounts, in numbers: to the set of what it  *)
(* waits for, to what is still to be sent and to what it expects.             *)
Steady(b) ==
  /\ Tokens(b)' \subseteq Tokens(b) /\ sent'[b] = sent[b] /\ BatchStays(b)
Sends(b) ==
  /\ Tokens(b)' \subseteq Tokens(b) \cup {lastId + 1} /\ lastId + 1 \notin Tokens(b)
  /\ \E j \in Job : Enqueues(j, b)
Begins(b) == Tokens(b)' \subseteq Tokens(b) /\ Created(b)
Settles(b) ==
  \E r \in Runner, f \in {0, 1} :
    /\ CountsOne(r, b, f) /\ sent'[b] = sent[b]
    /\ Token(b, claim[r].id, Record(r).job) /\ claim[r].id \in Tokens(b)
    /\ Tokens(b)' \subseteq Tokens(b) \ {claim[r].id}

(* Every step does one of the four.                                           *)
LEMMA BatchSteps ==
  ASSUME TypeOK, Exclusive, NothingDebounced, ~Spend("error"), [Next]_vars, NEW b \in Batch
  PROVE  Steady(b) \/ Sends(b) \/ Begins(b) \/ Settles(b)
<1>1. CASE \E j \in Job : Enqueues(j, b)
  BY <1>1, TokensStep DEF Sends
<1>2. CASE ~\E j \in Job : Enqueues(j, b)
  <2>1. sent'[b] = sent[b] /\ Tokens(b)' \subseteq Tokens(b)
    BY <1>2, SentFrom, TokensStep
  <2>2. CASE BatchStays(b)
    BY <2>1, <2>2 DEF Steady
  <2>3. CASE Created(b)
    BY <2>1, <2>3 DEF Begins
  <2>4. CASE \E r \in Runner, f \in {0, 1} : CountsOne(r, b, f)
    <3>1. PICK r \in Runner, f \in {0, 1} : CountsOne(r, b, f)
      BY <2>4
    <3>2. /\ Token(b, claim[r].id, Record(r).job) /\ claim[r].id \in Tokens(b)
          /\ claim[r].id \notin Tokens(b)'
      BY <3>1, CountedToken
    <3> QED BY <2>1, <3>1, <3>2 DEF Settles
  <2> QED BY <2>2, <2>3, <2>4, BatchesFrom DEF BatchMoves
<1> QED BY <1>1, <1>2

(* A part of a finite set has at most as many members, and as many only if it *)
(* is the whole set.                                                          *)
LEMMA PartOf ==
  ASSUME NEW S, IsFiniteSet(S), NEW T, T \subseteq S
  PROVE  /\ IsFiniteSet(T) /\ Cardinality(T) \in Nat /\ Cardinality(S) \in Nat
         /\ Cardinality(T) <= Cardinality(S)
         /\ Cardinality(T) = Cardinality(S) => T = S
         /\ Cardinality(T) = 0 => T = {}
<1>1. T \in SUBSET S
  OBVIOUS
<1>2. /\ IsFiniteSet(T) /\ Cardinality(T) <= Cardinality(S)
      /\ Cardinality(S) = Cardinality(T) => T = S
  BY <1>1, FS_Subset
<1>3. Cardinality(T) \in Nat /\ Cardinality(S) \in Nat
  BY <1>2, FS_CardinalityType
<1>4. Cardinality(T) = 0 => T = {}
  BY <1>2, FS_EmptySet
<1> QED BY <1>2, <1>3, <1>4

(* What a batch waits for is finite after a step, too.                        *)
LEMMA TokensStayFinite ==
  ASSUME TypeOK, [Next]_vars, NEW b
  PROVE  /\ IsFiniteSet(Tokens(b)') /\ Cardinality(Tokens(b)') \in Nat
         /\ Cardinality(Tokens(b)') = 0 => Tokens(b)' = {}
<1>1. lastId' \in Nat
  BY TypeStep DEF TypeOK, StoreTypeOK, JobsTypeOK
<1>2. IsFiniteSet(1..lastId')
  BY <1>1, FS_Interval
<1>3. Tokens(b)' \subseteq 1..lastId'
  BY DEF Tokens
<1> QED BY <1>2, <1>3, PartOf

(* The numbers a batch's accounts are made of.                                *)
LEMMA BatchNumbers ==
  ASSUME TypeOK, NEW b \in Batch
  PROVE  /\ sent[b] \in Nat /\ Len(BatchDef[b].jobs) \in Nat /\ reports[b] \in Nat
         /\ BatchDef[b].jobs \in Seq(Job)
         /\ IsFiniteSet(Tokens(b)) /\ Cardinality(Tokens(b)) \in Nat
         /\ b \in DOMAIN batches => batches[b].pending \in Int /\ batches[b].failed \in Nat
<1>1. BatchDef[b].jobs \in Seq(Job)
  BY ScenarioAssumption DEF Callbacks
<1>2. b \in DOMAIN batches => batches[b].pending \in Int /\ batches[b].failed \in Nat
  BY DEF TypeOK, StoreTypeOK, BatchesTypeOK, BatchRow
<1> QED BY <1>1, <1>2, TokensFinite DEF TypeOK, ClientTypeOK, HistoryTypeOK

(* The accounts balance.                                                      *)
LEMMA AccountedStep ==
  ASSUME TypeOK, Exclusive, NothingDebounced, ~Spend("error"), [Next]_vars,
         NEW b \in Batch, Accounted(b)
  PROVE  Accounted(b)'
<1> DEFINE len == Len(BatchDef[b].jobs)
<1>2. /\ sent[b] \in Nat /\ len \in Nat /\ reports[b] \in Nat
      /\ IsFiniteSet(Tokens(b)) /\ Cardinality(Tokens(b)) \in Nat
      /\ b \in DOMAIN batches => batches[b].pending \in Int
  BY BatchNumbers
<1>3. Cardinality(Tokens(b)') \in Nat /\ (Cardinality(Tokens(b)') = 0 => Tokens(b)' = {})
  BY TokensStayFinite
<1>4. /\ sent[b] <= len /\ (sent[b] = 0 => Tokens(b) = {})
      /\ reports[b] <= 1 /\ (reports[b] = 1 => Tokens(b) = {} /\ len - sent[b] = 0)
      /\ b \in DOMAIN batches =>
           Cardinality(Tokens(b)) + (len - sent[b]) <= batches[b].pending
  BY DEF Accounted, Unsent, Awaited
<1> SUFFICES
      /\ sent'[b] <= len /\ (sent'[b] = 0 => Tokens(b)' = {})
      /\ reports'[b] <= 1 /\ (reports'[b] = 1 => Tokens(b)' = {} /\ len - sent'[b] = 0)
      /\ b \in DOMAIN batches' =>
           Cardinality(Tokens(b)') + (len - sent'[b]) <= batches'[b].pending
  BY DEF Accounted, Unsent, Awaited
<1> HIDE DEF len
<1>5. CASE Tokens(b)' \subseteq Tokens(b) /\ sent'[b] = sent[b] /\ BatchStays(b)
  <2>1. Cardinality(Tokens(b)') <= Cardinality(Tokens(b))
    BY <1>2, <1>5, FS_Subset
  <2> QED BY <1>2, <1>3, <1>4, <1>5, <2>1 DEF BatchStays
<1>6. CASE Sends(b)
  <2>1. /\ sent[b] < len /\ sent'[b] = sent[b] + 1
        /\ UNCHANGED <<batches, reports>>
    BY <1>6, EnqueueEffect DEF Sends, len
  <2>2. /\ IsFiniteSet(Tokens(b) \cup {lastId + 1})
        /\ Cardinality(Tokens(b) \cup {lastId + 1}) = Cardinality(Tokens(b)) + 1
    BY <1>2, <1>6, FS_AddElement DEF Sends
  <2>3. Cardinality(Tokens(b)') <= Cardinality(Tokens(b)) + 1
    BY <1>6, <2>2, FS_Subset DEF Sends
  <2> QED BY <1>2, <1>3, <1>4, <2>1, <2>3
<1>7. CASE Begins(b)
  <2>1. Tokens(b)' = {} /\ Cardinality(Tokens(b)') = 0
    BY <1>4, <1>7, FS_EmptySet DEF Begins, Created
  <2> QED BY <1>2, <1>4, <1>7, <2>1 DEF Begins, Created, len
<1>8. CASE Settles(b)
  <2>1. PICK r \in Runner, f \in {0, 1} :
          /\ CountsOne(r, b, f) /\ sent'[b] = sent[b]
          /\ claim[r].id \in Tokens(b)
          /\ Tokens(b)' \subseteq Tokens(b) \ {claim[r].id}
    BY <1>8 DEF Settles
  <2>2. /\ IsFiniteSet(Tokens(b) \ {claim[r].id})
        /\ Cardinality(Tokens(b) \ {claim[r].id}) = Cardinality(Tokens(b)) - 1
    BY <1>2, <2>1, FS_RemoveElement
  <2>3. Cardinality(Tokens(b)') <= Cardinality(Tokens(b)) - 1
    BY <2>1, <2>2, FS_Subset
  <2>4. reports[b] = 0
    BY <1>2, <1>4, <2>1
  <2>5. b \in DOMAIN batches' =>
          Cardinality(Tokens(b)') + (len - sent'[b]) <= batches'[b].pending
    BY <1>2, <1>3, <1>4, <2>1, <2>3 DEF CountsOne
  <2>6. \/ reports'[b] = 0
        \/ /\ reports'[b] = 1 /\ b \in DOMAIN batches' /\ batches'[b].pending <= 0
           /\ batches'[b].pending \in Int
    BY <1>2, <2>1, <2>4 DEF CountsOne
  <2>7. reports'[b] = 1 => Tokens(b)' = {} /\ len - sent'[b] = 0
    BY <1>2, <1>3, <1>4, <2>1, <2>5, <2>6
  <2>8. sent'[b] = 0 => Tokens(b)' = {}
    BY <1>4, <2>1
  <2> QED BY <1>4, <2>1, <2>5, <2>6, <2>7, <2>8
<1> QED BY <1>5, <1>6, <1>7, <1>8, BatchSteps DEF Steady

(* As long as the accounts balance exactly, every job sent has succeeded or   *)
(* still counts.                                                              *)
LEMMA OnTheWayStep ==
  ASSUME TypeOK, Exclusive, OwnRow, NothingDebounced, DoneSucceeded, ~Spend("error"),
         [Next]_vars, NEW b \in Batch, Accounted(b), OnTheWay(b)
  PROVE  OnTheWay(b)'
<1> DEFINE len == Len(BatchDef[b].jobs)
           list == BatchDef[b].jobs
<1>1. /\ sent[b] \in Nat /\ len \in Nat
      /\ IsFiniteSet(Tokens(b)) /\ Cardinality(Tokens(b)) \in Nat
      /\ b \in DOMAIN batches => batches[b].pending \in Int /\ batches[b].failed \in Nat
  BY BatchNumbers
<1>2. Cardinality(Tokens(b)') \in Nat
  BY TokensStayFinite
<1>3. b \in DOMAIN batches => Cardinality(Tokens(b)) + (len - sent[b]) <= batches[b].pending
  BY DEF Accounted, Awaited, Unsent
<1> SUFFICES ASSUME b \in DOMAIN batches', batches'[b].failed = 0,
                    Cardinality(Tokens(b)') + (len - sent'[b]) = batches'[b].pending,
                    NEW m \in 1..sent'[b]
             PROVE  \/ list[m] \in succeeded'
                    \/ \E i \in Tokens(b)' : Token(b, i, list[m])'
  BY DEF OnTheWay, Awaited, Unsent
<1>4. succeeded \subseteq succeeded'
  BY DoneStep
<1>5. ASSUME b \in DOMAIN batches, batches[b].failed = 0,
             Cardinality(Tokens(b)) + (len - sent[b]) = batches[b].pending,
             m \in 1..sent[b]
      PROVE  \/ list[m] \in succeeded
             \/ \E i \in Tokens(b) : Token(b, i, list[m])
  BY <1>5 DEF OnTheWay, Awaited, Unsent
<1>6. ASSUME NEW i \in Tokens(b)', Token(b, i, list[m]) PROVE Token(b, i, list[m])'
  BY <1>6, TokenKept
<1> HIDE DEF len, list
<1>7. CASE Steady(b)
  <2>1. b \in DOMAIN batches /\ batches'[b] = batches[b] /\ sent'[b] = sent[b]
    BY <1>7 DEF Steady, BatchStays
  <2>2. /\ Cardinality(Tokens(b)') <= Cardinality(Tokens(b))
        /\ Cardinality(Tokens(b)') = Cardinality(Tokens(b)) => Tokens(b)' = Tokens(b)
    BY <1>1, <1>7, FS_Subset DEF Steady
  <2>3. /\ Cardinality(Tokens(b)') = Cardinality(Tokens(b))
        /\ Cardinality(Tokens(b)) + (len - sent[b]) = batches[b].pending
    BY <1>1, <1>2, <1>3, <2>1, <2>2
  <2> QED BY <1>4, <1>5, <1>6, <2>1, <2>2, <2>3
<1>8. CASE Sends(b)
  <2>1. PICK j \in Job : Enqueues(j, b)
    BY <1>8 DEF Sends
  <2>2. /\ sent'[b] = sent[b] + 1 /\ j = list[sent[b] + 1] /\ batches' = batches
    BY <2>1, EnqueueEffect DEF list
  <2> DEFINE more == Tokens(b) \cup {lastId + 1}
  <2>3. IsFiniteSet(more) /\ Cardinality(more) = Cardinality(Tokens(b)) + 1
    BY <1>1, <1>8, FS_AddElement DEF Sends
  <2>4. /\ Cardinality(Tokens(b)') <= Cardinality(more)
        /\ Cardinality(Tokens(b)') = Cardinality(more) => Tokens(b)' = more
    BY <1>8, <2>3, FS_Subset DEF Sends
  <2>5. /\ Tokens(b)' = more
        /\ Cardinality(Tokens(b)) + (len - sent[b]) = batches[b].pending
    <3>1. /\ b \in DOMAIN batches /\ batches[b].pending \in Int
          /\ Cardinality(Tokens(b)') + (len - sent[b] - 1) = batches[b].pending
      BY <1>1, <1>2, <2>2
    <3>2. /\ Cardinality(Tokens(b)') = Cardinality(Tokens(b)) + 1
          /\ Cardinality(Tokens(b)) + (len - sent[b]) = batches[b].pending
      <4> HIDE DEF more
      <4> QED BY <1>1, <1>2, <1>3, <2>3, <2>4, <3>1
    <3> QED BY <2>3, <2>4, <3>2
  <2>6. CASE m \in 1..sent[b]
    BY <1>4, <1>5, <1>6, <2>2, <2>5, <2>6
  <2>7. CASE m = sent[b] + 1
    <3>1. PICK i \in Tokens(b)' : i = lastId + 1 /\ i \notin Tokens(b)
      BY <1>8, <2>5 DEF Sends
    <3>2. PICK k \in Job : Token(b, i, k)'
      BY DEF Tokens
    <3>3. ~Token(b, i, k)
      BY <3>1, TokenTypes DEF Tokens
    <3>4. Enqueues(k, b)
      BY <3>2, <3>3, TokensFrom
    <3>5. k = list[m]
      BY <2>7, <3>4, EnqueueEffect DEF list
    <3> QED BY <3>2, <3>5
  <2> QED BY <1>1, <2>2, <2>6, <2>7
<1>9. CASE Begins(b)
  <2>1. sent'[b] = 0
    BY <1>9 DEF Begins, Created
  <2> QED BY <2>1
<1>10. CASE Settles(b)
  <2>1. PICK r \in Runner, f \in {0, 1} :
          /\ CountsOne(r, b, f) /\ sent'[b] = sent[b]
          /\ Token(b, claim[r].id, Record(r).job) /\ claim[r].id \in Tokens(b)
          /\ Tokens(b)' \subseteq Tokens(b) \ {claim[r].id}
    BY <1>10 DEF Settles
  <2>2. /\ b \in DOMAIN batches
        /\ batches'[b].pending = batches[b].pending - 1
        /\ batches'[b].failed = batches[b].failed + f
    BY <2>1 DEF CountsOne
  <2>3. f = 0 /\ batches[b].failed = 0
    BY <1>1, <2>1, <2>2
  <2>4. Record(r).job \in succeeded
    BY <2>1, <2>3 DEF CountsOne, DoneSucceeded
  <2> DEFINE rest == Tokens(b) \ {claim[r].id}
  <2>5. IsFiniteSet(rest) /\ Cardinality(rest) = Cardinality(Tokens(b)) - 1
    BY <1>1, <2>1, FS_RemoveElement
  <2>6. /\ Cardinality(Tokens(b)') <= Cardinality(rest)
        /\ Cardinality(Tokens(b)') = Cardinality(rest) => Tokens(b)' = rest
    BY <2>1, <2>5, FS_Subset
  <2>7. /\ Tokens(b)' = rest
        /\ Cardinality(Tokens(b)) + (len - sent[b]) = batches[b].pending
    <3>1. Cardinality(Tokens(b)') + (len - sent[b]) = batches[b].pending - 1
      BY <1>1, <1>2, <2>1, <2>2
    <3>2. /\ Cardinality(Tokens(b)') = Cardinality(Tokens(b)) - 1
          /\ Cardinality(Tokens(b)) + (len - sent[b]) = batches[b].pending
      <4> HIDE DEF rest
      <4> QED BY <1>1, <1>2, <1>3, <2>2, <2>5, <2>6, <3>1
    <3> QED BY <2>5, <2>6, <3>2
  <2>8. CASE list[m] \in succeeded
    BY <1>4, <2>8
  <2>9. CASE \E i \in Tokens(b) : Token(b, i, list[m])
    <3>1. PICK i \in Tokens(b) : Token(b, i, list[m])
      BY <2>9
    <3>2. CASE i = claim[r].id
      <4>1. list[m] = Record(r).job
        BY <2>1, <3>1, <3>2, TokenUnique
      <4> QED BY <1>4, <2>4, <4>1
    <3>3. CASE i # claim[r].id
      BY <1>6, <2>7, <3>1, <3>3
    <3> QED BY <3>2, <3>3
  <2> QED BY <1>5, <2>1, <2>2, <2>3, <2>7, <2>8, <2>9
<1> QED BY <1>7, <1>8, <1>9, <1>10, BatchSteps

(* What has succeeded stays so: a then job once ready stays ready.            *)
LEMMA ReadyStays ==
  ASSUME DoneSucceeded, TypeOK, [Next]_vars, NEW k, Ready(k)
  PROVE  Ready(k)'
<1>1. succeeded \subseteq succeeded'
  BY DoneStep
<1> QED BY <1>1 DEF Ready, AllSucceeded

(* A batch that expects nobody any more and had no failure is all done.       *)
LEMMA AllDone ==
  ASSUME NEW b \in Batch, TypeOK, [Next]_vars, Accounted(b)', OnTheWay(b)',
         b \in DOMAIN batches', batches'[b].pending <= 0, batches'[b].failed = 0
  PROVE  AllSucceeded(b)'
<1>1. /\ sent'[b] \in Nat /\ batches'[b].pending \in Int
      /\ BatchDef[b].jobs \in Seq(Job)
  <2>1. BatchDef[b].jobs \in Seq(Job)
    BY ScenarioAssumption DEF Callbacks
  <2> QED BY <2>1, TypeStep
          DEF TypeOK, StoreTypeOK, BatchesTypeOK, BatchRow, ClientTypeOK
<1>2. PICK l \in Nat : l = Len(BatchDef[b].jobs)
  BY <1>1
<1>3. PICK w \in Nat : w = Cardinality(Tokens(b)')
  BY TokensStayFinite
<1>4. sent'[b] <= l /\ w + (l - sent'[b]) <= batches'[b].pending
  BY <1>2, <1>3 DEF Accounted, Awaited, Unsent
<1>5. w = 0 /\ sent'[b] = l /\ w + (l - sent'[b]) = batches'[b].pending
  BY <1>1, <1>4
<1>6. Tokens(b)' = {}
  BY <1>3, <1>5, TokensStayFinite
<1>7. \A m \in 1..sent'[b] : BatchDef[b].jobs[m] \in succeeded'
  BY <1>2, <1>3, <1>5, <1>6 DEF OnTheWay, Awaited, Unsent
<1>8. DOMAIN BatchDef[b].jobs = 1..l
  BY <1>1, <1>2
<1> QED BY <1>5, <1>7, <1>8 DEF AllSucceeded

(* The then jobs a runner is about to push belong to batches that succeeded.  *)
LEMMA ThenReadyStep ==
  ASSUME ThenApart, TypeOK, DoneSucceeded, ThenReady, [Next]_vars,
         \A b \in Batch : Accounted(b)' /\ OnTheWay(b)'
  PROVE  ThenReady'
<1> SUFFICES ASSUME NEW r \in Runner, pc'[r] \in {"fetch", "callbacks"},
                    NEW n \in 1..Len(todo'[r]), NEW k, k = todo'[r][n]
             PROVE  Ready(k)'
  BY DEF ThenReady, Ready, Listed
<1>1. ~PopJob(r)
  BY DEF PopJob, Goto, AfterClaim, TypeOK, RunnerTypeOK
<1>2. CASE Stays(r) \/ (FetchBatch(r) /\ todo'[r] = todo[r])
  <2>1. Ready(k)
    BY <1>2 DEF Stays, FetchBatch, ThenReady
  <2> QED BY <2>1, ReadyStays
<1>3. CASE PushCallback(r) /\ todo'[r] = Tail(todo[r])
  <2>1. todo[r] \in Seq(Job) /\ todo[r] # << >>
    BY <1>3 DEF PushCallback, TypeOK, AwaitsOK, RunnerTypeOK
  <2>2. n + 1 \in 1..Len(todo[r]) /\ todo'[r][n] = todo[r][n + 1]
    BY <1>3, <2>1
  <2>3. Ready(k)
    BY <1>3, <2>2 DEF ThenReady, PushCallback
  <2> QED BY <2>3, ReadyStays
<1>4. CASE (CountComplete(r) \/ CountFailed(r)) /\ pc'[r] = "fetch"
  <2>1. PICK at \in {"count", "countFailed"}, f \in {0, 1} : CountJob(r, at, f)
    BY <1>4 DEF CountComplete, CountFailed
  <2>2. ~EndJob(r)
    BY <1>4, EndMoves DEF Busy
  <2>3. PICK c \in Batch : c = Record(r).batch
    <3>1. pc[r] \in Busy
      BY <2>1 DEF CountJob, Busy
    <3> QED BY <2>1, <3>1, BusyClaim DEF CountJob, TypeOK, AwaitsOK, Record, JobRow
  <2> DEFINE status == BatchStatus(c, f)
  <2>4. /\ todo' = [todo EXCEPT ![r] = CallbacksOf(c, status)]
        /\ RecordBatch(c, f)
    BY <2>1, <2>2, <2>3 DEF CountJob
  <2>5. todo'[r] = CallbacksOf(c, status)
    BY <2>4 DEF TypeOK, RunnerTypeOK
  <2>6. \/ Listed(k, IF status = "complete" THEN BatchDef[c].then ELSE BatchDef[c].catch)
        \/ Listed(k, BatchDef[c].finally)
    <3> HIDE DEF status
    <3> QED BY <2>3, <2>5, CallbacksListed
  <2>7. k \in Job
    BY TypeStep DEF TypeOK, RunnerTypeOK
  <2>8. status = "complete" => AllSucceeded(c)'
    <3>1. HAVE status = "complete"
    <3>2. /\ c \in DOMAIN batches /\ ~(Counted(c, f).pending > 0)
          /\ ~(Counted(c, f).failed > 0)
      BY <3>1 DEF BatchStatus
    <3>3. c \in DOMAIN batches' /\ batches'[c] = Counted(c, f)
      BY <2>4, <3>2 DEF RecordBatch
    <3>4. batches'[c] \in BatchRow
      BY <3>3, TypeStep DEF TypeOK, StoreTypeOK, BatchesTypeOK
    <3>5. batches'[c].pending <= 0 /\ batches'[c].failed = 0
      BY <3>2, <3>3, <3>4 DEF BatchRow
    <3> HIDE DEF status
    <3> QED BY <2>3, <3>3, <3>5, AllDone
  <2>9. ASSUME NEW b \in Batch, Listed(k, BatchDef[b].then)
         PROVE  AllSucceeded(b)'
    <3> HIDE DEF status
    <3>1. /\ ~Listed(k, BatchDef[c].catch) /\ ~Listed(k, BatchDef[c].finally)
          /\ Listed(k, BatchDef[c].then) => c = b
      BY <2>3, <2>7, <2>9 DEF ThenApart
    <3>2. status = "complete" /\ c = b
      BY <2>6, <3>1
    <3> QED BY <2>8, <3>2
  <2> QED BY <2>9 DEF Ready, Listed
<1> QED BY <1>1, <1>2, <1>3, <1>4, RunnerMoves
        DEF Moves, Advances, GivesUp, TriesAgain, Busy, Settling

(* A then job is accepted only as a callback of its batch.                    *)
LEMMA ThenMeansStep ==
  ASSUME ThenApart, TypeOK, LinkedInv, DoneSucceeded, ThenReady, ThenMeansAllSucceeded,
         [Next]_vars
  PROVE  ThenMeansAllSucceeded'
<1>1. ASSUME NEW k \in accepted', NEW b \in Batch, Listed(k, BatchDef[b].then)
      PROVE  AllSucceeded(b)'
  <2>1. succeeded \subseteq succeeded'
    BY DoneStep
  <2>2. k \in Job
    BY TypeStep DEF TypeOK, HistoryTypeOK
  <2>3. CASE k \in accepted
    BY <1>1, <2>1, <2>3 DEF ThenMeansAllSucceeded, AllSucceeded, Listed
  <2>4. CASE \E c \in Batch \cup {NoBatch} : Enqueues(k, c)
    BY <1>1, <2>2, <2>4 DEF Enqueues, ThenApart, Listed
  <2>5. CASE \E r \in Runner : PushChained(r) /\ k = Head(Record(r).chain)
    <3>1. PICK r \in Runner : PushChained(r) /\ k = Head(Record(r).chain)
      BY <2>5
    <3>2. pc[r] = "chain" /\ pc[r] \in Busy
      BY <3>1 DEF PushChained, Busy
    <3>3. /\ Record(r).chain \in Seq(Job) /\ Record(r).chain # << >>
          /\ Record(r).job \in Job
      BY <3>2, BusyClaim DEF TypeOK, AwaitsOK, Record, JobRow
    <3>4. Follows(Record(r).job, k)
      BY <3>1, <3>2, <3>3, TailLinked DEF LinkedInv, ClaimsLinked
    <3> QED BY <1>1, <2>2, <3>3, <3>4 DEF ThenApart
  <2>6. CASE \E r \in Runner : PushCallback(r) /\ k = Head(todo[r])
    <3>1. PICK r \in Runner : PushCallback(r) /\ k = Head(todo[r])
      BY <2>6
    <3>2. todo[r] \in Seq(Job) /\ todo[r] # << >> /\ pc[r] = "callbacks"
      BY <3>1 DEF PushCallback, TypeOK, AwaitsOK, RunnerTypeOK
    <3>3. 1 \in 1..Len(todo[r]) /\ todo[r][1] = k
      BY <3>1, <3>2
    <3>4. Ready(k)
      BY <3>2, <3>3 DEF ThenReady
    <3> QED BY <1>1, <2>1, <3>4 DEF Ready, AllSucceeded
  <2> QED BY <2>3, <2>4, <2>5, <2>6, AcceptedFrom DEF Accepts
<1> QED BY <1>1 DEF ThenMeansAllSucceeded, AllSucceeded, Listed

(* Balanced accounts say that a finished batch waits for nobody.              *)
LEMMA FinishedMeans ==
  ASSUME TypeOK, \A b \in Batch : Accounted(b)
  PROVE  FinishedOnce /\ FinishedLast
<1>1. ASSUME NEW b \in Batch, reports[b] > 0
      PROVE  sent[b] = Len(BatchDef[b].jobs) /\ Tokens(b) = {}
  <2>1. reports[b] = 1
    BY <1>1, BatchNumbers DEF Accounted
  <2> QED BY <2>1, BatchNumbers DEF Accounted, Unsent
<1>2. ASSUME NEW i \in DOMAIN jobs PROVE i \in Tokens(jobs[i].batch)
  <2>1. i \in 1..lastId /\ jobs[i] \in JobRow
    BY DEF TypeOK, StoreTypeOK, JobsTypeOK
  <2> QED BY <2>1 DEF Tokens, Token, JobRow
<1> QED BY <1>1, <1>2 DEF FinishedOnce, FinishedLast, Accounted

(* Nothing lapsed or refused so far: nothing before, and no error now.        *)
LEMMA CarefulKept ==
  ASSUME TypeOK, [Next]_vars, Careful'
  PROVE  Careful /\ InTime /\ ~Spend("error")
<1>1. "lapse" \in Fault /\ "error" \in Fault
  BY DEF Fault
<1>2. spent'["lapse"] = 0 /\ spent'["error"] = 0
  BY DEF Careful
<1>3. ~Spend("error")
  BY <1>1, <1>2, SpentGrows
<1>4. spent["lapse"] = 0 /\ spent["error"] = 0
  BY <1>1, <1>2, SpendsOne, SpentGrows
<1> QED BY <1>3, <1>4 DEF Careful, InTime

(* The accounts of the batches, with what they rest on.                       *)
BatchInv == /\ OwnInv /\ LinkedInv /\ DoneSucceeded
            /\ Careful => BatchesRight

(* They hold where nothing is debounced and `then` jobs come by their batch.  *)
LEMMA BatchesHold == NothingDebounced /\ ThenApart /\ Spec => []BatchInv
<1> DEFINE Inv == NothingDebounced /\ ThenApart /\ BatchInv
<1>1. NothingDebounced /\ ThenApart /\ Init => Inv
  <2> SUFFICES ASSUME NothingDebounced, ThenApart, Init PROVE Inv
    OBVIOUS
  <2> USE DEF BatchInv
  <2>1. OwnInv /\ TypeOK
    BY OwnInvStep, TypeInit
  <2>2. LinkedInv /\ DoneSucceeded /\ ThenReady /\ ThenMeansAllSucceeded
    BY DEF Init, StoreInit, LinkedInv, RowsLinked, ClaimsLinked, FailedLinked,
       RequeuesLinked, HasRow, AdminIdle, DoneSucceeded, ThenReady, ThenMeansAllSucceeded,
       Busy, Settling
  <2>3. ASSUME NEW b \in Batch PROVE Accounted(b) /\ OnTheWay(b)
    <3>1. Tokens(b) = {} /\ sent[b] = 0 /\ reports[b] = 0 /\ b \notin DOMAIN batches
      BY DEF Init, StoreInit, Tokens
    <3>2. Len(BatchDef[b].jobs) \in Nat
      BY <2>1, BatchNumbers
    <3> QED BY <3>1, <3>2 DEF Accounted, OnTheWay
  <2> QED BY <2>1, <2>2, <2>3 DEF BatchesRight
<1>2. Inv /\ [Next]_vars => Inv'
  <2> SUFFICES ASSUME Inv, [Next]_vars PROVE Inv'
    OBVIOUS
  <2> USE DEF BatchInv
  <2>1. NothingDebounced' /\ ThenApart'
    BY DEF NothingDebounced, ThenApart, Follows, Links, Listed
  <2>2. TypeOK /\ OwnInv' /\ DoneSucceeded'
    BY OwnInvStep, DoneStep DEF OwnInv, ExclusiveInv
  <2>3. LinkedInv'
    BY <2>2, RowsLinkedStep, FailedLinkedStep DEF LinkedInv
  <2>4. ASSUME Careful' PROVE BatchesRight'
    <3>1. /\ BatchesRight /\ Exclusive /\ OwnRow
          /\ ~Spend("error")
      BY <2>2, <2>4, CarefulKept DEF OwnInv, ExclusiveInv
    <3>2. ASSUME NEW b \in Batch PROVE Accounted(b)' /\ OnTheWay(b)'
      BY <2>2, <3>1, AccountedStep, OnTheWayStep DEF BatchesRight
    <3>3. ThenReady' /\ ThenMeansAllSucceeded'
      BY <2>2, <3>1, <3>2, ThenReadyStep, ThenMeansStep DEF BatchesRight
    <3> QED BY <3>2, <3>3 DEF BatchesRight
  <2> QED BY <2>1, <2>2, <2>3, <2>4
<1>3. Inv => BatchInv
  OBVIOUS
<1> QED BY <1>1, <1>2, <1>3, PTL DEF Spec

(* The callbacks of a batch are sound through every crash, stop and operation  *)
(* of the console: its then jobs are queued only once every job of it has      *)
(* succeeded, it is reported finished at most once, and never while one of its *)
(* jobs is still to be sent, queued or running.                                *)
THEOREM BatchesSound ==
  NothingDebounced /\ ThenApart /\ Spec => [](Careful => BatchCallbacksSound)
<1>1. BatchInv => (Careful => BatchCallbacksSound)
  BY FinishedMeans DEF BatchInv, OwnInv, ExclusiveInv, BatchesRight, BatchCallbacksSound
<1> QED BY <1>1, BatchesHold, PTL
-----------------------------------------------------------------------------
(* Success.  Of the arrows above only a database error leads from a job that *)
(* is being concluded to a retry or to the failed table.                     *)

(* Whatever fails beside it, crashes and chained jobs that cannot be rebuilt   *)
(* included, a job whose handler has returned is not taken for a failed one    *)
(* unless the database answers with an error (_queueStored's comment).        *)
THEOREM SuccessHeld == Spec => SuccessStands
<1> DEFINE Step == \A r \in Runner :
             pc[r] \in Concluding /\ pc'[r] \in {"bury", "retry"}
               => spent'.error > spent.error
<1>1. TypeOK /\ [Next]_vars => Step
  <2> SUFFICES ASSUME TypeOK, [Next]_vars, NEW r \in Runner,
                      pc[r] \in Concluding, pc'[r] \in {"bury", "retry"}
               PROVE  spent'.error > spent.error
    OBVIOUS
  <2>1. ~Stays(r) /\ ~PopJob(r) /\ pc[r] # "handle"
    BY DEF Stays, PopJob, Concluding
  <2>2. Advances(r)
    BY <2>1, RunnerMoves DEF Moves, Busy, Settling
  <2>3. DbError(r)
    BY <2>1, <2>2 DEF Advances
  <2>4. spent \in Bounds /\ spent' = [spent EXCEPT !["error"] = @ + 1]
    BY <2>3 DEF DbError, Spend, TypeOK
  <2>5. spent'.error = spent.error + 1 /\ spent.error \in Nat
    BY <2>4 DEF Bounds
  <2> QED BY <2>5
<1>2. TypeOK /\ [Next]_vars => [Step]_vars
  BY <1>1
<1> QED BY <1>2, TypeCorrect, PTL DEF Spec, SuccessStands
=============================================================================
