----------------------------- MODULE MCJobQueue -----------------------------
(* Instances of JobQueue for TLC: the scenarios the .cfg files pick from. *)
EXTENDS JobQueue, TLC

CONSTANTS jobA, jobB, jobC, thenJob, catchJob, finallyJob,
          queue1, queue2, host1, host2, run1, run2, batch1, key1

Limits(queue, max, delay) == [queue |-> queue, max |-> max, delay |-> delay]
Plain(policy, chain) ==
  [policy |-> policy, chain |-> chain, debounce |-> 0, key |-> NoKey]
Debounced(policy) ==
  [policy |-> policy, chain |-> << >>, debounce |-> 1, key |-> key1]
Allow(crash, stop, error, lapse, adm) ==
  [crash |-> crash, stop |-> stop, error |-> error, lapse |-> lapse, admin |-> adm]

OneQueue == <<queue1>>
TwoQueues == <<queue1, queue2>>
TwoHosts == (run1 :> host1) @@ (run2 :> host2)
OneHost == run1 :> host1
NoBatches == << >>
Fallback == Limits(queue1, 2, 0)

(* Two debounced jobs under one key, each on its own queue; either is retried *)
(* after a second, so a retry can meet the other one waiting.                 *)
DebounceDef == (jobA :> Debounced(Limits(queue1, 2, 1)))
                 @@ (jobB :> Debounced(Limits(queue2, 2, 0)))

(* A batch of A and B with one callback of each kind; A carries a chain. *)
BatchJobDef == [j \in {jobA, jobB, jobC, thenJob, catchJob, finallyJob} |->
                  Plain(Limits(queue1, IF j = jobB THEN 2 ELSE 1, 0),
                        IF j = jobA THEN <<jobC>> ELSE << >>)]
OneBatch == batch1 :> [jobs |-> <<jobA, jobB>>, then |-> <<thenJob>>,
                       catch |-> <<catchJob>>, finally |-> <<finallyJob>>]

(* A job of one attempt, for the run about what happens to failed jobs. *)
LoneDef == jobA :> Plain(Limits(queue1, 1, 0), << >>)

(* Every scenario here is one the theorems about chains and batches cover.    *)
ASSUME LinksApart /\ ThenApart

OneCrash == {Allow(1, 0, 0, 0, 0)}
CrashErrorOrConsole == {Allow(1, 0, 1, 0, 0), Allow(0, 0, 0, 0, 2)}
Operations == {Allow(1, 1, 0, 0, 2)}
=============================================================================
