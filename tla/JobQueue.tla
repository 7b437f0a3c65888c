------------------------------ MODULE JobQueue ------------------------------
(***************************************************************************)
(* QueueManager over the SQLite driver: processes that dispatch jobs,      *)
(* chains and batches, runners that claim and settle them, an operator     *)
(* that retries or discards failed jobs, crashes, graceful shutdowns and   *)
(* database errors.                                                        *)
(*                                                                         *)
(* A runner is one in-flight loop over the configured queues: the          *)
(* queue:work loop, or one firing of the provider's poll interval.  Its pc *)
(* names the statement (or the handler) it is awaiting; the action for     *)
(* that pc is the statement together with the code that runs when the      *)
(* await resumes, up to the next await.                                    *)
(***************************************************************************)
EXTENDS JobStore

CONSTANTS
  Def,        \* Job -> its class's policy, and what it is dispatched with
  Solo,       \* jobs dispatched on their own
  BatchDef,   \* Batch -> its jobs and its then, catch and finally jobs
  Registered, \* jobs whose class is in the JobRegistry
  Unbuildable, \* jobs whose class's fromPayload throws on what was stored
  DefaultPolicy, \* the policy of a callback whose class is not registered
  QueueList,  \* config queue.queues, in priority order
  Process, Runner,
  Host,       \* Runner -> the process it runs in
  CommandLoop, \* runners that are queue:work loops (they recheck shutdown)
  Pooled,     \* processes that hand jobs to a WorkerPool
  Admin,      \* concurrent uses of the failed-jobs console
  DrainLimit, \* seconds drain() waits
  Faults,     \* what a behaviour may contain: each member bounds its crashes,
              \* stops, db errors, lapsed claims and admin operations
  Nobody

JobDef == [policy: Policy, chain: Seq(Job), debounce: Nat,
           key: DebounceKey \cup {NoKey}]
Callbacks == [jobs: Seq(Job), then: Seq(Job), catch: Seq(Job), finally: Seq(Job)]
Bounds == [crash: Nat, stop: Nat, error: Nat, lapse: Nat, admin: Nat]

ASSUME ScenarioAssumption ==
  /\ Def \in [Job -> JobDef]
  /\ Solo \subseteq Job /\ Registered \subseteq Job /\ Unbuildable \subseteq Job
  /\ BatchDef \in [Batch -> Callbacks]
  /\ DefaultPolicy \in Policy
  /\ QueueList \in Seq(Queue) /\ QueueList # << >>
  /\ Host \in [Runner -> Process]
  /\ CommandLoop \subseteq Runner /\ Pooled \subseteq Process
  /\ DrainLimit \in Nat
  /\ Faults \subseteq Bounds
  /\ Nobody \notin Process

VARIABLES
  pc,        \* Runner -> what it awaits
  claim,     \* Runner -> the record pop returned
  held,      \* Runner -> seconds since that claim
  todo,      \* Runner -> batch callbacks still to push
  guarded,   \* Runner -> inside _processRecord's try block
  sweep,     \* Runner -> queues left in this pass, the current one first
  proc,      \* Process -> up, draining, drained, timedout or down
  drainAge,  \* Process -> seconds since drain() began
  sender,    \* Batch -> the process inside dispatchBatch's loop
  sent,      \* Batch -> jobs of the batch pushed so far
  admin,     \* Admin -> what the console is doing
  spent,    \* what is left of Faults
  accepted,  \* history: jobs the queue has accepted
  runs,      \* history: Job -> times its handler was entered
  succeeded, \* history: jobs whose handler returned
  dropped,   \* history: jobs replaced by a debounce or discarded by hand
  reports    \* history: Batch -> statuses other than "pending" reported

runnerVars == <<pc, claim, held, todo, guarded, sweep>>
processVars == <<proc, drainAge>>
clientVars == <<sender, sent, admin>>
history == <<accepted, runs, succeeded, dropped, reports>>
vars == <<storeVars, runnerVars, processVars, clientVars, spent, history>>
-----------------------------------------------------------------------------
(* Jobs that _resolveJob makes an instance of: of an unknown class it returns  *)
(* none, and where fromPayload throws, so does it.                            *)
Buildable == Registered \ Unbuildable

NoClaim == [id |-> 0]
Claim == [id: Nat \ {0}, row: JobRow]

(* pcs at which the runner still has to write the row it claimed *)
Settling == {"handle", "delete", "bury", "unlist", "retry"}
Busy == Settling \cup {"chain", "count", "countFailed", "fetch", "callbacks"}
PCs == Busy \cup {"idle", "pop"}

Nothing == [crash |-> 0, stop |-> 0, error |-> 0, lapse |-> 0, admin |-> 0]

AdminIdle == [pc |-> "idle"]
AdminState ==
  {AdminIdle} \cup [pc: {"requeue", "forget"}, id: Nat, row: FailedRow]
              \cup [pc: {"flushFailed", "flushBatches"}]

RunnerTypeOK ==
  /\ pc \in [Runner -> PCs]
  /\ claim \in [Runner -> Claim \cup {NoClaim}]
  /\ held \in [Runner -> 0..Visibility]
  /\ todo \in [Runner -> Seq(Job)]
  /\ guarded \in [Runner -> BOOLEAN]
  /\ sweep \in [Runner -> Seq(Queue)]

ProcessTypeOK ==
  /\ proc \in [Process -> {"up", "draining", "drained", "timedout", "down"}]
  /\ drainAge \in [Process -> 0..DrainLimit]

ClientTypeOK ==
  /\ sender \in [Batch -> Process \cup {Nobody}]
  /\ sent \in [Batch -> Nat]
  /\ admin \in [Admin -> AdminState]

HistoryTypeOK ==
  /\ accepted \subseteq Job
  /\ runs \in [Job -> Nat]
  /\ succeeded \subseteq Job
  /\ dropped \subseteq Job
  /\ reports \in [Batch -> Nat]

(* What a runner at each await has in hand. *)
AwaitsOK ==
  \A r \in Runner :
    /\ pc[r] \in Busy => claim[r] \in Claim
    /\ guarded[r] => pc[r] \in Busy
    /\ pc[r] # "idle" => sweep[r] # << >>
    /\ pc[r] = "chain" => claim[r].row.chain # << >>
    /\ pc[r] \in {"count", "countFailed", "fetch", "callbacks"}
         => claim[r].row.batch # NoBatch
    /\ pc[r] = "callbacks" => todo[r] # << >>

(* Types of the tables, the runners, the processes and the clients. *)
TypeOK ==
  /\ StoreTypeOK /\ RunnerTypeOK /\ ProcessTypeOK /\ ClientTypeOK
  /\ spent \in Bounds
  /\ HistoryTypeOK
  /\ AwaitsOK

Init ==
  /\ StoreInit
  /\ pc = [r \in Runner |-> "idle"]
  /\ claim = [r \in Runner |-> NoClaim]
  /\ held = [r \in Runner |-> 0]
  /\ todo = [r \in Runner |-> << >>]
  /\ guarded = [r \in Runner |-> FALSE]
  /\ sweep = [r \in Runner |-> << >>]
  /\ proc = [p \in Process |-> "up"]
  /\ drainAge = [p \in Process |-> 0]
  /\ sender = [b \in Batch |-> Nobody]
  /\ sent = [b \in Batch |-> 0]
  /\ admin = [a \in Admin |-> AdminIdle]
  /\ spent = Nothing
  /\ accepted = {} /\ runs = [j \in Job |-> 0] /\ succeeded = {} /\ dropped = {}
  /\ reports = [b \in Batch |-> 0]

Spend(what) ==
  /\ spent' = [spent EXCEPT ![what] = @ + 1]
  /\ \E f \in Faults : \A k \in DOMAIN f : spent'[k] <= f[k]
-----------------------------------------------------------------------------
(* Dispatch. *)

(* dispatch: push or pushDebounced; refused once the manager shuts down. *)
Enqueue(j, batch) ==
  LET d == Def[j]
      row == FreshRow(j, d.chain, d.policy, d.debounce, batch,
                      IF d.debounce > 0 THEN d.key ELSE NoKey)
  IN /\ IF d.debounce > 0
        THEN /\ UpsertDebounced(row)
             /\ dropped' = dropped \cup {jobs[i].job : i \in Holders(d.key)}
        ELSE InsertJob(row) /\ UNCHANGED dropped
     /\ accepted' = accepted \cup {j}

Dispatch(p, j) ==
  /\ proc[p] = "up"
  /\ j \in Solo \ accepted
  /\ Enqueue(j, NoBatch)
  /\ UNCHANGED <<failed, lastFailed, batches, runnerVars, processVars,
                 clientVars, spent, runs, succeeded, reports>>

(* dispatchBatch: the batch row first, then one dispatch per job. *)
DispatchBatch(p, b) ==
  /\ proc[p] # "down"
  /\ b \notin DOMAIN batches /\ sender[b] = Nobody /\ sent[b] = 0
  /\ CreateBatch(b, Len(BatchDef[b].jobs))
  /\ sender' = [sender EXCEPT ![b] = p]
  /\ UNCHANGED <<jobs, lastId, failed, lastFailed, runnerVars, processVars,
                 sent, admin, spent, history>>

SendNext(b) ==
  /\ sender[b] # Nobody
  /\ IF proc[sender[b]] = "up" /\ sent[b] < Len(BatchDef[b].jobs)
     THEN /\ Enqueue(BatchDef[b].jobs[sent[b] + 1], b)
          /\ sent' = [sent EXCEPT ![b] = @ + 1]
          /\ sender' = [sender EXCEPT ![b] =
                          IF sent[b] + 1 = Len(BatchDef[b].jobs) THEN Nobody ELSE @]
     ELSE /\ sender' = [sender EXCEPT ![b] = Nobody]
          /\ UNCHANGED <<jobs, lastId, sent, accepted, dropped>>
  /\ UNCHANGED <<failed, lastFailed, batches, runnerVars, processVars, admin,
                 spent, runs, succeeded, reports>>
-----------------------------------------------------------------------------
(* Processing. *)

Record(r) == claim[r].row
Active(p) == {r \in Runner : Host[r] = p /\ pc[r] \in Busy}

Goto(r, next) == pc' = [pc EXCEPT ![r] = next]

(* processNext returns or throws: activeJobCount drops, which may complete a  *)
(* drain, and the loop goes on to its next queue.                             *)
MoreQueues(r) == Tail(sweep[r]) # << >> /\ (r \in CommandLoop => proc[Host[r]] = "up")

EndJob(r) ==
  /\ Goto(r, IF MoreQueues(r) THEN "pop" ELSE "idle")
  /\ sweep' = [sweep EXCEPT ![r] = IF MoreQueues(r) THEN Tail(@) ELSE << >>]
  /\ claim' = [claim EXCEPT ![r] = NoClaim]
  /\ held' = [held EXCEPT ![r] = 0]
  /\ todo' = [todo EXCEPT ![r] = << >>]
  /\ guarded' = [guarded EXCEPT ![r] = FALSE]
  /\ proc' = [proc EXCEPT ![Host[r]] =
                IF @ = "draining" /\ Active(Host[r]) = {r} THEN "drained" ELSE @]
  /\ UNCHANGED drainAge

(* The runner goes on to another await of the same job. *)
Continue(r, next) ==
  /\ Goto(r, next)
  /\ UNCHANGED <<claim, held, sweep, processVars>>

(* _processRecord's catch block, and the failure branch of the pool's path. *)
Failing_early(r) ==
  /\ Continue(r, IF Record(r).attempts + 1 >= Record(r).policy.max THEN "bury" ELSE "retry")
  /\ guarded' = [guarded EXCEPT ![r] = FALSE]
  /\ todo' = [todo EXCEPT ![r] = << >>]
Failing(r) ==
  /\ Continue(r, IF Record(r).attempts >= Record(r).policy.max THEN "bury" ELSE "retry")
  /\ guarded' = [guarded EXCEPT ![r] = FALSE]
  /\ todo' = [todo EXCEPT ![r] = << >>]

(* _onJobComplete, entered after the chain step. *)
CountOrEnd(r) ==
  IF Record(r).batch # NoBatch
  THEN Continue(r, "count") /\ UNCHANGED <<todo, guarded>>
  ELSE EndJob(r)

(* A handler is entered: at the claim, or in a pool's worker at any time     *)
(* before its outcome is known.                                               *)
Run(j) == runs' = [runs EXCEPT ![j] = @ + 1]

Poll(r) ==
  /\ pc[r] = "idle" /\ proc[Host[r]] = "up"
  /\ Goto(r, "pop")
  /\ sweep' = [sweep EXCEPT ![r] = QueueList]
  /\ UNCHANGED <<storeVars, claim, held, todo, guarded, processVars, clientVars,
                 spent, history>>

PopNothing(r) ==
  /\ pc[r] = "pop"
  /\ Claimable(Head(sweep[r])) = {}
  /\ EndJob(r)
  /\ UNCHANGED <<storeVars, clientVars, spent, history>>

(* _instantiate, inside the try block: of an unknown class there is no        *)
(* instance and the job goes straight to fail(); a fromPayload that throws is  *)
(* caught there, as a failed attempt.  A pool discovers both in the worker.   *)
AfterClaim(r, row) ==
  IF Host[r] \in Pooled \/ row.job \in Buildable THEN "handle"
  ELSE IF row.job \notin Registered \/ row.attempts >= row.policy.max
  THEN "bury" ELSE "retry"

PopJob(r) ==
  /\ pc[r] = "pop"
  /\ \E i \in DOMAIN jobs :
       LET j == jobs[i].job
           inline == Host[r] \notin Pooled
       IN /\ IsOldest(i, Claimable(Head(sweep[r])))
          /\ ClaimRow(i)
          /\ claim' = [claim EXCEPT ![r] = [id |-> i, row |-> Claimed(i)]]
          /\ Goto(r, AfterClaim(r, Claimed(i)))
          /\ guarded' = [guarded EXCEPT ![r] =
                           inline /\ (j \in Registered => j \in Buildable)]
          /\ IF inline /\ j \in Buildable THEN Run(j) ELSE UNCHANGED runs
  /\ held' = [held EXCEPT ![r] = 0]
  /\ UNCHANGED <<failed, lastFailed, batches, todo, sweep, processVars,
                 clientVars, spent, accepted, succeeded, dropped, reports>>

HandlerReturns(r) ==
  /\ pc[r] = "handle" /\ Record(r).job \in Buildable
  /\ Continue(r, "delete")
  /\ IF Host[r] \in Pooled THEN Run(Record(r).job) ELSE UNCHANGED runs
  /\ succeeded' = succeeded \cup {Record(r).job}
  /\ UNCHANGED <<storeVars, todo, guarded, clientVars, spent, accepted,
                 dropped, reports>>

HandlerThrows(r) ==
  /\ pc[r] = "handle" /\ Record(r).job \in Buildable
  /\ Failing(r)
  /\ IF Host[r] \in Pooled THEN Run(Record(r).job) ELSE UNCHANGED runs
  /\ UNCHANGED <<storeVars, clientVars, spent, accepted, succeeded, dropped, reports>>

(* WorkerPool.run reports failure without the handler: a full backlog, no      *)
(* live worker, a lost or terminated one, or a job the worker cannot build.    *)
PoolRefuses(r) ==
  /\ pc[r] = "handle" /\ Host[r] \in Pooled
  /\ Failing(r)
  /\ UNCHANGED <<storeVars, clientVars, spent, history>>

DeleteDone_skipsChain(r) ==
  /\ pc[r] = "delete"
  /\ DeleteJob(claim[r].id)
  /\ CountOrEnd(r)
  /\ UNCHANGED <<failed, lastFailed, batches, clientVars, spent, history>>
DeleteDone_anyChain(r) ==     \* the chain's length is not looked at
  /\ pc[r] = "delete"
  /\ DeleteJob(claim[r].id)
  /\ Continue(r, "chain") /\ UNCHANGED <<todo, guarded>>
  /\ UNCHANGED <<failed, lastFailed, batches, clientVars, spent, history>>
DeleteDone(r) ==
  /\ pc[r] = "delete"
  /\ DeleteJob(claim[r].id)
  /\ IF Record(r).chain # << >>
     THEN Continue(r, "chain") /\ UNCHANGED <<todo, guarded>>
     ELSE CountOrEnd(r)
  /\ UNCHANGED <<failed, lastFailed, batches, clientVars, spent, history>>

(* _queueStored: under the job's own policy if it can be rebuilt here; what    *)
(* fromPayload throws is caught and the job is queued under the fallback.     *)
Stored(j, chain, fallback) ==
  FreshRow(j, chain, IF j \in Buildable THEN Def[j].policy ELSE fallback,
           0, NoBatch, NoKey)

PushChained_throws(r) ==     \* what fromPayload throws is not caught
  /\ pc[r] = "chain"
  /\ LET j == Head(Record(r).chain)
     IN IF j \in Registered \ Buildable
        THEN /\ IF guarded[r] THEN Failing(r) ELSE EndJob(r)
             /\ UNCHANGED <<jobs, lastId, accepted>>
        ELSE /\ InsertJob(Stored(j, Tail(Record(r).chain), Record(r).policy))
             /\ accepted' = accepted \cup {j}
             /\ CountOrEnd(r)
  /\ UNCHANGED <<failed, lastFailed, batches, clientVars, spent, runs,
                 succeeded, dropped, reports>>
PushChained(r) ==
  /\ pc[r] = "chain"
  /\ InsertJob(Stored(Head(Record(r).chain), Tail(Record(r).chain), Record(r).policy))
  /\ accepted' = accepted \cup {Head(Record(r).chain)}
  /\ CountOrEnd(r)
  /\ UNCHANGED <<failed, lastFailed, batches, clientVars, spent, runs,
                 succeeded, dropped, reports>>

(* recordBatchJobComplete or recordBatchJobFailed, and what its status sets   *)
(* going: the batch's then or catch jobs, and its finally jobs.               *)
CallbacksOf(b, status) ==
  (IF status = "complete" THEN BatchDef[b].then ELSE BatchDef[b].catch)
    \o BatchDef[b].finally

CountJob(r, at, failures) ==
  LET b == Record(r).batch
      status == BatchStatus(b, failures)
  IN /\ pc[r] = at
     /\ RecordBatch(b, failures)
     /\ IF status = "pending"
        THEN EndJob(r) /\ UNCHANGED reports
        ELSE /\ Continue(r, "fetch")
             /\ todo' = [todo EXCEPT ![r] = CallbacksOf(b, status)]
             /\ reports' = [reports EXCEPT ![b] = @ + 1]
             /\ UNCHANGED guarded
     /\ UNCHANGED <<jobs, lastId, failed, lastFailed, clientVars, spent,
                    accepted, runs, succeeded, dropped>>

CountComplete(r) == CountJob(r, "count", 0)
CountFailed(r) == CountJob(r, "countFailed", 1)

(* getBatch: a batch flushed meanwhile has no callbacks left. *)
FetchBatch(r) ==
  /\ pc[r] = "fetch"
  /\ IF Record(r).batch \in DOMAIN batches /\ todo[r] # << >>
     THEN Continue(r, "callbacks") /\ UNCHANGED <<todo, guarded>>
     ELSE EndJob(r)
  /\ UNCHANGED <<storeVars, clientVars, spent, history>>

PushCallback(r) ==
  /\ pc[r] = "callbacks"
  /\ InsertJob(Stored(Head(todo[r]), << >>, DefaultPolicy))
  /\ accepted' = accepted \cup {Head(todo[r])}
  /\ IF Tail(todo[r]) # << >>
     THEN /\ Continue(r, "callbacks")
          /\ todo' = [todo EXCEPT ![r] = Tail(@)]
          /\ UNCHANGED guarded
     ELSE EndJob(r)
  /\ UNCHANGED <<failed, lastFailed, batches, clientVars, spent, runs,
                 succeeded, dropped, reports>>

(* fail(): the failed row, then the job row.  Only the unknown-class call is  *)
(* still inside the try block, and it returns without _onJobFailed.           *)
Bury(r) ==
  /\ pc[r] = "bury"
  /\ InsertFailed(Record(r), Record(r).attempts)
  /\ Continue(r, "unlist")
  /\ UNCHANGED <<jobs, lastId, batches, todo, guarded, clientVars, spent, history>>

Unlist_pushesChain(r) ==
  /\ pc[r] = "unlist"
  /\ DeleteJob(claim[r].id)
  /\ IF Record(r).chain = << >>
     THEN EndJob(r)
     ELSE Continue(r, "chain") /\ UNCHANGED <<todo, guarded>>
  /\ UNCHANGED <<failed, lastFailed, batches, clientVars, spent, history>>
Unlist(r) ==
  /\ pc[r] = "unlist"
  /\ DeleteJob(claim[r].id)
  /\ IF guarded[r] \/ Record(r).batch = NoBatch
     THEN EndJob(r)
     ELSE Continue(r, "countFailed") /\ UNCHANGED <<todo, guarded>>
  /\ UNCHANGED <<failed, lastFailed, batches, clientVars, spent, history>>

Retry(r) ==
  /\ pc[r] = "retry"
  /\ \/ RetryJob(claim[r].id, Record(r).policy.delay)
     \/ RetryRefused(claim[r].id) /\ UNCHANGED <<jobs, lastId>>
  /\ EndJob(r)
  /\ UNCHANGED <<failed, lastFailed, batches, clientVars, spent, history>>

(* The awaited statement rejects: inside the try block the error reaches the  *)
(* catch, elsewhere it leaves processNext.                                    *)
DbError(r) ==
  /\ pc[r] \notin {"idle", "handle"}
  /\ Spend("error")
  /\ IF guarded[r] THEN Failing(r) ELSE EndJob(r)
  /\ UNCHANGED <<storeVars, clientVars, history>>

RunnerStep(r) ==
  \/ PopNothing(r) \/ PopJob(r)
  \/ HandlerReturns(r) \/ HandlerThrows(r) \/ PoolRefuses(r)
  \/ DeleteDone(r) \/ PushChained(r) \/ CountComplete(r)
  \/ Bury(r) \/ Unlist(r) \/ CountFailed(r)
  \/ FetchBatch(r) \/ PushCallback(r) \/ Retry(r)
-----------------------------------------------------------------------------
(* The failed-jobs console (retryFailed, queue:retry, queue:flush). *)

AdminGoto(a, state) == admin' = [admin EXCEPT ![a] = state]

RetryFailed(a, i) ==
  /\ admin[a] = AdminIdle /\ Spend("admin")
  /\ AdminGoto(a, [pc |-> "requeue", id |-> i, row |-> failed[i]])
  /\ UNCHANGED <<storeVars, runnerVars, processVars, sender, sent, history>>

(* _requeue: afresh, under the class's own policy, on the queue it failed on;  *)
(* of a job that cannot be rebuilt the failed row stays and the retry ends.   *)
Requeue(a) ==
  /\ admin[a].pc = "requeue"
  /\ LET row == admin[a].row
     IN IF row.job \in Buildable
        THEN /\ InsertJob(FreshRow(row.job, row.chain,
                                   [Def[row.job].policy EXCEPT !.queue = row.queue],
                                   0, NoBatch, NoKey))
             /\ AdminGoto(a, [admin[a] EXCEPT !.pc = "forget"])
        ELSE AdminGoto(a, AdminIdle) /\ UNCHANGED <<jobs, lastId>>
  /\ UNCHANGED <<failed, lastFailed, batches, runnerVars, processVars, sender,
                 sent, spent, history>>

ForgetRetried(a) ==
  /\ admin[a].pc = "forget"
  /\ DeleteFailed({admin[a].id})
  /\ AdminGoto(a, AdminIdle)
  /\ UNCHANGED <<jobs, lastId, batches, runnerVars, processVars, sender, sent,
                 spent, history>>

(* forgetFailed(id), and clearFailed(queue?): one DELETE. *)
Discard(ids) ==
  /\ ids # {} /\ Spend("admin")
  /\ DeleteFailed(ids)
  /\ dropped' = dropped \cup {failed[i].job : i \in ids}
  /\ UNCHANGED <<jobs, lastId, batches, runnerVars, processVars, clientVars,
                 accepted, runs, succeeded, reports>>

DiscardFailed ==
  \/ \E i \in DOMAIN failed : Discard({i})
  \/ \E q \in Queue : Discard({i \in DOMAIN failed : failed[i].queue = q})
  \/ Discard(DOMAIN failed)

(* flush(): three statements. *)
FlushJobs(a) ==
  /\ admin[a] = AdminIdle /\ Spend("admin")
  /\ DOMAIN jobs # {}
  /\ jobs' = Without(jobs, DOMAIN jobs)
  /\ dropped' = dropped \cup {jobs[i].job : i \in DOMAIN jobs}
  /\ AdminGoto(a, [pc |-> "flushFailed"])
  /\ UNCHANGED <<lastId, failed, lastFailed, batches, runnerVars, processVars,
                 sender, sent, accepted, runs, succeeded, reports>>

FlushFailed(a) ==
  /\ admin[a].pc = "flushFailed"
  /\ DeleteFailed(DOMAIN failed)
  /\ dropped' = dropped \cup {failed[i].job : i \in DOMAIN failed}
  /\ AdminGoto(a, [pc |-> "flushBatches"])
  /\ UNCHANGED <<jobs, lastId, batches, runnerVars, processVars, sender, sent,
                 spent, accepted, runs, succeeded, reports>>

FlushBatches(a) ==
  /\ admin[a].pc = "flushBatches"
  /\ batches' = Without(batches, DOMAIN batches)
  /\ AdminGoto(a, AdminIdle)
  /\ UNCHANGED <<jobs, lastId, failed, lastFailed, runnerVars, processVars,
                 sender, sent, spent, history>>

AdminStep(a) ==
  Requeue(a) \/ ForgetRetried(a) \/ FlushFailed(a) \/ FlushBatches(a)

(* The console's process dies between two statements. *)
AdminCrash(a) ==
  /\ admin[a] # AdminIdle /\ Spend("crash")
  /\ AdminGoto(a, AdminIdle)
  /\ UNCHANGED <<storeVars, runnerVars, processVars, sender, sent, history>>
-----------------------------------------------------------------------------
(* Processes and time. *)

(* onStopping: drain() returns at once when no job is active. *)
Shutdown(p) ==
  /\ proc[p] = "up" /\ Spend("stop")
  /\ proc' = [proc EXCEPT ![p] = IF Active(p) = {} THEN "drained" ELSE "draining"]
  /\ drainAge' = [drainAge EXCEPT ![p] = 0]
  /\ UNCHANGED <<storeVars, runnerVars, clientVars, history>>

DrainTimesOut(p) ==
  /\ proc[p] = "draining" /\ drainAge[p] = DrainLimit
  /\ proc' = [proc EXCEPT ![p] = "timedout"]
  /\ UNCHANGED <<storeVars, runnerVars, drainAge, clientVars, spent, history>>

(* The process goes away with everything it held in memory. *)
Halt(p) ==
  /\ proc' = [proc EXCEPT ![p] = "down"]
  /\ pc' = [r \in Runner |-> IF Host[r] = p THEN "idle" ELSE pc[r]]
  /\ claim' = [r \in Runner |-> IF Host[r] = p THEN NoClaim ELSE claim[r]]
  /\ held' = [r \in Runner |-> IF Host[r] = p THEN 0 ELSE held[r]]
  /\ todo' = [r \in Runner |-> IF Host[r] = p THEN << >> ELSE todo[r]]
  /\ guarded' = [r \in Runner |-> IF Host[r] = p THEN FALSE ELSE guarded[r]]
  /\ sweep' = [r \in Runner |-> IF Host[r] = p THEN << >> ELSE sweep[r]]
  /\ sender' = [b \in Batch |-> IF sender[b] = p THEN Nobody ELSE sender[b]]
  /\ UNCHANGED <<storeVars, drainAge, sent, admin, history>>

Exit(p) ==
  /\ proc[p] \in {"drained", "timedout"}
  /\ Halt(p)
  /\ UNCHANGED spent

Crash(p) ==
  /\ proc[p] # "down" /\ Spend("crash")
  /\ Halt(p)

Restart(p) ==
  /\ proc[p] = "down"
  /\ proc' = [proc EXCEPT ![p] = "up"]
  /\ drainAge' = [drainAge EXCEPT ![p] = 0]
  /\ UNCHANGED <<storeVars, runnerVars, clientVars, spent, history>>

(* A second passes.  The configuration's contract is that a claim is settled  *)
(* within the visibility timeout; a second that breaks it costs a lapse.      *)
Tired(r) == pc[r] \in Settling /\ held[r] + 1 >= Visibility

Elapse ==
  /\ ElapseStore
  /\ held' = [r \in Runner |-> IF pc[r] \in Settling /\ held[r] < Visibility
                               THEN held[r] + 1 ELSE held[r]]
  /\ drainAge' = [p \in Process |-> IF proc[p] = "draining" /\ drainAge[p] < DrainLimit
                                    THEN drainAge[p] + 1 ELSE drainAge[p]]
  /\ IF \E r \in Runner : Tired(r) THEN Spend("lapse") ELSE UNCHANGED spent
  /\ UNCHANGED <<pc, claim, todo, guarded, sweep, proc, clientVars, history>>

ProcessStep(p) == DrainTimesOut(p) \/ Exit(p) \/ Restart(p)

Next ==
  \/ \E p \in Process, j \in Job : Dispatch(p, j)
  \/ \E p \in Process, b \in Batch : DispatchBatch(p, b)
  \/ \E b \in Batch : SendNext(b)
  \/ \E r \in Runner : Poll(r) \/ RunnerStep(r) \/ DbError(r)
  \/ \E a \in Admin : \/ \E i \in DOMAIN failed : RetryFailed(a, i)
                      \/ FlushJobs(a) \/ AdminStep(a) \/ AdminCrash(a)
  \/ DiscardFailed
  \/ \E p \in Process : Shutdown(p) \/ Crash(p) \/ ProcessStep(p)
  \/ Elapse

Spec == Init /\ [][Next]_vars

(* Timers fire, awaits settle and handlers end; nobody has to dispatch. *)
Fairness ==
  /\ \A r \in Runner : WF_vars(Poll(r)) /\ WF_vars(RunnerStep(r))
  /\ \A b \in Batch : WF_vars(SendNext(b))
  /\ \A a \in Admin : WF_vars(AdminStep(a))
  /\ \A p \in Process : WF_vars(ProcessStep(p))
  /\ WF_vars(Elapse)

FairSpec == Spec /\ Fairness
-----------------------------------------------------------------------------
(* Properties. *)

Undisturbed == spent = Nothing   \* no fault so far
InTime == spent.lapse = 0        \* no claim has outlived the visibility timeout

Queued(j) == \E i \in DOMAIN jobs : jobs[i].job = j
Failed(j) == \E i \in DOMAIN failed : failed[i].job = j
Settled(j) == j \in succeeded \cup dropped \/ Failed(j)

(* pop's comment: concurrent workers never double-process a job.  As long as  *)
(* every claim is settled within the visibility timeout, no two runners are   *)
(* ever between pop and the end of the same job, whatever crashes, database   *)
(* errors, retries and flushes come between.                                  *)
NoDoubleProcessing ==
  \A r1, r2 \in Runner :
    r1 # r2 /\ {pc[r1], pc[r2]} \subseteq Busy => claim[r1].id # claim[r2].id

(* A runner that still has to settle its job holds that row's reservation: a  *)
(* retry, delete or fail by id alone therefore only ever hits its own claim.  *)
ReservationHeld ==
  \A r \in Runner :
    pc[r] \in Settling /\ claim[r].id \in DOMAIN jobs
      => jobs[claim[r].id].age = held[r] /\ held[r] < Visibility

(* The inductive form of the two: a runner past its last write to the row has *)
(* no row left, and row ids are never used again.                             *)
ClaimsKnown == \A r \in Runner : pc[r] \in Busy => claim[r].id <= lastId
SettledRowsGone ==
  \A r \in Runner : pc[r] \in Busy \ Settling => claim[r].id \notin DOMAIN jobs
Exclusive ==
  ClaimsKnown /\ SettledRowsGone /\ ReservationHeld /\ NoDoubleProcessing

(* No accepted job vanishes: it is queued, failed, done, or was replaced or   *)
(* discarded on purpose, through crashes, errors, restarts and manual retries.*)
NoJobLost == \A j \in accepted : Queued(j) \/ Settled(j)

(* A job reaches the failed table only after its handler was entered          *)
(* maxAttempts times, if it can be rebuilt at all, and as long as nothing else *)
(* goes wrong it is entered no more often than that (Job.ts: max attempts      *)
(* before the failed queue).                                                  *)
FailedAfterMaxAttempts ==
  \A i \in DOMAIN failed :
    failed[i].job \in Buildable => runs[failed[i].job] >= Def[failed[i].job].policy.max
AttemptsBounded ==
  Undisturbed => \A r \in Runner :
    pc[r] = "handle" => Record(r).attempts <= Record(r).policy.max
AttemptsHonoured == FailedAfterMaxAttempts /\ AttemptsBounded

(* Once a handler has returned, its job is sent to retry or to the failed      *)
(* table only by an error of the database: the chain and the batch are dealt   *)
(* with inside the try block whose catch does that, and a next job that cannot *)
(* be rebuilt must not get there (_queueStored's comment).                    *)
Concluding == {"delete", "chain", "count", "fetch", "callbacks"}
SuccessStands ==
  [][\A r \in Runner : pc[r] \in Concluding /\ pc'[r] \in {"bury", "retry"}
       => spent'.error > spent.error]_vars

(* Bus.chain: a link is queued only after the one before it succeeded.        *)
Links(j) == <<j>> \o Def[j].chain
ChainOrdered ==
  \A j \in Job : \A n \in 2..Len(Links(j)) :
    Links(j)[n] \in accepted => Links(j)[n - 1] \in succeeded

(* What the theorems about chains and batches ask of a scenario: that a job   *)
(* stands for one place it is dispatched from.  k directly follows j in a     *)
(* dispatched chain;                                                          *)
Follows(j, k) ==
  \E l \in Job : \E n \in 2..Len(Links(l)) : Links(l)[n - 1] = j /\ Links(l)[n] = k
Listed(k, list) == \E n \in DOMAIN list : list[n] = k

(* a link of a chain follows one job only and is dispatched by its chain only;*)
LinksApart ==
  \A k \in Job : (\E j \in Job : Follows(j, k)) =>
    /\ \A j1, j2 \in Job : Follows(j1, k) /\ Follows(j2, k) => j1 = j2
    /\ k \notin Solo
    /\ \A b \in Batch : \A list \in {BatchDef[b].jobs, BatchDef[b].then,
                                     BatchDef[b].catch, BatchDef[b].finally} :
         ~Listed(k, list)

(* a then job of a batch is dispatched by that batch's success only;          *)
ThenApart ==
  \A b \in Batch : \A k \in Job : Listed(k, BatchDef[b].then) =>
    /\ k \notin Solo
    /\ \A j \in Job : ~Follows(j, k)
    /\ \A c \in Batch : /\ ~Listed(k, BatchDef[c].jobs)
                        /\ ~Listed(k, BatchDef[c].catch)
                        /\ ~Listed(k, BatchDef[c].finally)
                        /\ Listed(k, BatchDef[c].then) => c = b

(* no job is debounced, and none runs in a worker thread.                     *)
NothingDebounced == \A j \in Job : Def[j].debounce = 0
RunsInline == Pooled = {} /\ NothingDebounced

(* Batches: the then jobs mean every job of the batch succeeded, *)
ThenMeansAllSucceeded ==
  \A b \in Batch : \A n \in DOMAIN BatchDef[b].then :
    BatchDef[b].then[n] \in accepted =>
      \A m \in DOMAIN BatchDef[b].jobs : BatchDef[b].jobs[m] \in succeeded

(* the batch is reported finished once, so its callbacks are queued once, *)
FinishedOnce == \A b \in Batch : reports[b] <= 1

(* and never while one of its jobs is still to be sent, queued or running.    *)
FinishedLast ==
  \A b \in Batch : reports[b] > 0 =>
    /\ sent[b] = Len(BatchDef[b].jobs)
    /\ \A i \in DOMAIN jobs : jobs[i].batch # b
BatchCallbacksSound == ThenMeansAllSucceeded /\ FinishedOnce /\ FinishedLast

(* Every accepted job is eventually done, failed or discarded.                *)
EveryJobSettles == \A j \in Job : j \in accepted ~> Settled(j)

(* A chain goes on after each success, unless a crash comes between.          *)
ChainProceeds ==
  \A j \in Job : \A n \in 2..Len(Links(j)) :
    Links(j)[n - 1] \in succeeded ~> Links(j)[n] \in accepted \/ ~Undisturbed

(* A batch whose jobs were all sent queues its finally jobs (docs/queue.md:   *)
(* "always dispatched once the batch completes"), unless a crash comes between.*)
BatchFinishes ==
  \A b \in Batch :
    sent[b] = Len(BatchDef[b].jobs) /\ sent[b] > 0
      ~> \/ \A n \in DOMAIN BatchDef[b].finally : BatchDef[b].finally[n] \in accepted
         \/ ~Undisturbed

(* Together: a workflow that was started is carried on to its end. *)
WorkflowProceeds == ChainProceeds /\ BatchFinishes
=============================================================================
