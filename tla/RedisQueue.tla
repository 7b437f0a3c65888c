----------------------------- MODULE RedisQueue -----------------------------
(***************************************************************************)
(* One queue of the redis driver, with the workers that pop it and settle  *)
(* what they popped (QueueManager.processNext).  A step is one redis       *)
(* command or one script, together with the code up to the next command;   *)
(* other workers' and dispatchers' commands come between.  Delays and      *)
(* reservations are distances from the present, 0 once they are due.       *)
(*                                                                         *)
(* An id is minted by INCR and never used again, so a job stands for its   *)
(* id; the set of queue names is read by flush and the listings only.      *)
(***************************************************************************)
EXTENDS Integers, Sequences, FiniteSets

CONSTANTS
  Job,        \* dispatches
  Key,        \* debounce keys
  NoKey,
  Def,        \* Job -> debounce key, delay, attempts allowed, retry delay
  Dispatched, \* how many of them a behaviour dispatches
  Worker,
  Visibility, \* seconds a reservation lasts
  Faults,     \* what a behaviour may contain: each member bounds its crashes,
              \* crashes with a job in hand and lapsed reservations
  None

JobDef == [key: Key \cup {NoKey}, wait: Nat, max: Nat \ {0}, delay: Nat]
Bounds == [crash: Nat, torn: Nat, lapse: Nat]

ASSUME RedisAssumption ==
  /\ Def \in [Job -> JobDef]
  /\ Visibility \in Nat \ {0} /\ Dispatched \in Nat
  /\ Faults \subseteq Bounds
  /\ None \notin Job /\ NoKey \notin Key

VARIABLES
  ready,     \* list: LPUSH at its head, RPOP at its tail
  delayed,   \* sorted set: member -> seconds until it is due
  reserved,  \* sorted set: member -> seconds left of its reservation
  failed,    \* jobs on the failed list
  holds,     \* hash: Key -> the delayed member that holds it
  worker,    \* Worker -> what it is doing
  spent,     \* how many of each fault there were
  accepted, succeeded, replaced   \* histories of jobs

redisVars == <<ready, delayed, reserved, failed, holds>>
history == <<accepted, succeeded, replaced>>
vars == <<redisVars, worker, spent, history>>
-----------------------------------------------------------------------------
(* The encoded record: what distinguishes two encodings of one job is the     *)
(* number of attempts.                                                        *)
Member == [job: Job, attempts: Nat]
Fresh(j) == [job |-> j, attempts |-> 0]

(* Between two polls a worker is about to search the delayed set.             *)
Idle == [pc |-> "scan", set |-> "delayed"]
WorkerState ==
  [pc: {"scan"}, set: {"delayed", "reserved"}]
  \cup [pc: {"claim"}]
  \cup [pc: {"promote"}, set: {"delayed", "reserved"}, due: SUBSET Member]
  \cup [pc: {"push", "unhold"}, set: {"delayed", "reserved"}, due: SUBSET Member,
        member: Member]
  \cup [pc: {"handle"}, member: Member]
  \cup [pc: {"find", "settle"}, member: Member, outcome: {"done", "failed", "retry"}]
  \cup [pc: {"release"}, member: Member, found: Member,
        outcome: {"done", "failed", "retry"}]

(* Types of the queue's structures and of its workers. *)
TypeOK ==
  /\ ready \in Seq(Member)
  /\ DOMAIN delayed \subseteq Member /\ delayed \in [DOMAIN delayed -> Nat]
  /\ DOMAIN reserved \subseteq Member
  /\ reserved \in [DOMAIN reserved -> 0..Visibility]
  /\ failed \subseteq Job
  /\ holds \in [Key -> Member \cup {None}]
  /\ worker \in [Worker -> WorkerState]
  /\ spent \in Bounds
  /\ accepted \subseteq Job /\ succeeded \subseteq Job /\ replaced \subseteq Job

Init ==
  /\ ready = << >> /\ delayed = << >> /\ reserved = << >> /\ failed = {}
  /\ holds = [k \in Key |-> None]
  /\ worker = [w \in Worker |-> Idle]
  /\ spent = [crash |-> 0, torn |-> 0, lapse |-> 0]
  /\ accepted = {} /\ succeeded = {} /\ replaced = {}

Spend(what) ==
  /\ spent' = [spent EXCEPT ![what] = @ + 1]
  /\ \E f \in Faults : \A k \in DOMAIN f : spent'[k] <= f[k]

(* ZADD and ZREM. *)
ZAdd(zset, m, score) ==
  [x \in DOMAIN zset \cup {m} |-> IF x = m THEN score ELSE zset[x]]
ZRem(zset, m) == [x \in DOMAIN zset \ {m} |-> zset[x]]

KeyOf(m) == Def[m.job].key
Become(w, next) == worker' = [worker EXCEPT ![w] = next]
-----------------------------------------------------------------------------
(* Dispatch. *)

(* A plain push, and retry's: delayed if it is not due yet.                   *)
Enqueue(m, wait) ==
  IF wait > 0
  THEN delayed' = ZAdd(delayed, m, wait) /\ UNCHANGED ready
  ELSE ready' = <<m>> \o ready /\ UNCHANGED delayed

Push(j) ==
  /\ Def[j].key = NoKey
  /\ Enqueue(Fresh(j), Def[j].wait)
  /\ UNCHANGED <<holds, replaced>>

(* One script: what holds the key leaves the delayed set, if it is still there.*)
PushDebounced(j) ==
  LET previous == holds[Def[j].key]
  IN /\ Def[j].key # NoKey
     /\ delayed' = ZAdd(ZRem(delayed, previous), Fresh(j), Def[j].wait)
     /\ holds' = [holds EXCEPT ![Def[j].key] = Fresh(j)]
     /\ replaced' = replaced \cup {m.job : m \in {previous} \cap DOMAIN delayed}
     /\ UNCHANGED ready

Dispatch(j) ==
  /\ j \notin accepted /\ Cardinality(accepted) < Dispatched
  /\ Push(j) \/ PushDebounced(j)
  /\ accepted' = accepted \cup {j}
  /\ UNCHANGED <<reserved, failed, worker, spent, succeeded>>
-----------------------------------------------------------------------------
(* pop: both sorted sets are searched for what is due, and each member found  *)
(* is moved to the ready list by whoever removes it; then one is claimed.     *)
(* What comes due while pop searches counts as due.                           *)
Due(zset) == {m \in DOMAIN zset : zset[m] = 0}

Onward_skipsReserved(set, due) ==    \* what a dead worker reserved stays so
  IF due # {} THEN [pc |-> "promote", set |-> set, due |-> due] ELSE [pc |-> "claim"]
Onward(set, due) ==
  IF due # {} THEN [pc |-> "promote", set |-> set, due |-> due]
  ELSE IF set = "delayed" THEN [pc |-> "scan", set |-> "reserved"]
  ELSE [pc |-> "claim"]

Scan(w) ==
  /\ worker[w].pc = "scan"
  /\ Become(w, Onward(worker[w].set,
                      Due(IF worker[w].set = "delayed" THEN delayed ELSE reserved)))
  /\ UNCHANGED <<redisVars, spent, history>>

Promote_ignoresLoser(w) ==    \* ZREM's answer is not looked at
  /\ worker[w].pc = "promote"
  /\ \E m \in worker[w].due :
       LET set == worker[w].set IN
       /\ delayed' = IF set = "delayed" THEN ZRem(delayed, m) ELSE delayed
       /\ reserved' = IF set = "reserved" THEN ZRem(reserved, m) ELSE reserved
       /\ Become(w, [pc |-> "push", set |-> set, due |-> worker[w].due \ {m},
                     member |-> m])
  /\ UNCHANGED <<ready, failed, holds, spent, history>>
Promote(w) ==
  /\ worker[w].pc = "promote"
  /\ \E m \in worker[w].due :
       LET set == worker[w].set
           rest == worker[w].due \ {m}
           won == m \in DOMAIN (IF set = "delayed" THEN delayed ELSE reserved)
       IN /\ delayed' = IF set = "delayed" THEN ZRem(delayed, m) ELSE delayed
          /\ reserved' = IF set = "reserved" THEN ZRem(reserved, m) ELSE reserved
          /\ Become(w, IF won THEN [pc |-> "push", set |-> set, due |-> rest, member |-> m]
                              ELSE Onward(set, rest))
  /\ UNCHANGED <<ready, failed, holds, spent, history>>

PushReady(w) ==
  /\ worker[w].pc = "push"
  /\ ready' = <<worker[w].member>> \o ready
  /\ Become(w, IF KeyOf(worker[w].member) # NoKey
               THEN [worker[w] EXCEPT !.pc = "unhold"]
               ELSE Onward(worker[w].set, worker[w].due))
  /\ UNCHANGED <<delayed, reserved, failed, holds, spent, history>>

(* HDEL, whoever holds the key by now. *)
Unhold(w) ==
  /\ worker[w].pc = "unhold"
  /\ holds' = [holds EXCEPT ![KeyOf(worker[w].member)] = None]
  /\ Become(w, Onward(worker[w].set, worker[w].due))
  /\ UNCHANGED <<ready, delayed, reserved, failed, spent, history>>

(* One script: RPOP, attempts + 1, ZADD to the reserved set.  pop has read its*)
(* clock before it promoted, so that less than a whole reservation is left;   *)
(* none at all is a lapse.                                                    *)
Reserve_notParked(m) == UNCHANGED <<reserved, spent>>
Reserve(m) ==
  \E left \in 0..Visibility :
    /\ reserved' = ZAdd(reserved, m, left)
    /\ IF left = 0 THEN Spend("lapse") ELSE UNCHANGED spent

Claim(w) ==
  /\ worker[w].pc = "claim"
  /\ IF ready = << >>
     THEN Become(w, Idle) /\ UNCHANGED <<ready, reserved, spent>>
     ELSE LET m == [ready[Len(ready)] EXCEPT !.attempts = @ + 1]
          IN /\ ready' = SubSeq(ready, 1, Len(ready) - 1)
             /\ Reserve(m)
             /\ Become(w, [pc |-> "handle", member |-> m])
  /\ UNCHANGED <<delayed, failed, holds, history>>
-----------------------------------------------------------------------------
(* delete, fail and retry: the reservation is found by the job's id and       *)
(* removed, then the job is written to where it goes, if anywhere.            *)
Outcomes(m) == {"done", IF m.attempts >= Def[m.job].max THEN "failed" ELSE "retry"}

Handle(w) ==
  /\ worker[w].pc = "handle"
  /\ \E outcome \in Outcomes(worker[w].member) :
       /\ Become(w, [pc |-> "find", member |-> worker[w].member, outcome |-> outcome])
       /\ succeeded' = IF outcome = "done" THEN succeeded \cup {worker[w].member.job}
                                           ELSE succeeded
  /\ UNCHANGED <<redisVars, spent, accepted, replaced>>

After(m, outcome) ==
  IF outcome = "done" THEN Idle
  ELSE [pc |-> "settle", member |-> m, outcome |-> outcome]

Find(w) ==
  /\ worker[w].pc = "find"
  /\ LET m == worker[w].member
         own == {x \in DOMAIN reserved : x.job = m.job}
     IN IF own = {}
        THEN Become(w, After(m, worker[w].outcome))
        ELSE \E x \in own :
               Become(w, [pc |-> "release", member |-> m, found |-> x,
                          outcome |-> worker[w].outcome])
  /\ UNCHANGED <<redisVars, spent, history>>

Release(w) ==
  /\ worker[w].pc = "release"
  /\ reserved' = ZRem(reserved, worker[w].found)
  /\ Become(w, After(worker[w].member, worker[w].outcome))
  /\ UNCHANGED <<ready, delayed, failed, holds, spent, history>>

Settle(w) ==
  /\ worker[w].pc = "settle"
  /\ LET m == worker[w].member
     IN IF worker[w].outcome = "failed"
        THEN failed' = failed \cup {m.job} /\ UNCHANGED <<ready, delayed>>
        ELSE Enqueue(m, Def[m.job].delay) /\ UNCHANGED failed
  /\ Become(w, Idle)
  /\ UNCHANGED <<reserved, holds, spent, history>>

WorkerStep(w) ==
  \/ Scan(w) \/ Promote(w) \/ PushReady(w) \/ Unhold(w) \/ Claim(w)
  \/ Handle(w) \/ Find(w) \/ Release(w) \/ Settle(w)
-----------------------------------------------------------------------------
(* Between a command that takes a job out of one structure and the command    *)
(* that puts it into the next, the job is in the worker's memory only.        *)
InHand(w) == worker[w].pc \in {"push", "settle"}

Crash(w) ==
  /\ worker[w] # Idle
  /\ Spend(IF InHand(w) THEN "torn" ELSE "crash")
  /\ Become(w, Idle)
  /\ UNCHANGED <<redisVars, history>>

Working(w) == worker[w].pc \in {"handle", "find", "release"}

(* A second passes; jobs are settled within the visibility timeout, or a      *)
(* lapse is spent.                                                            *)
Lapses(w) ==
  Working(w) /\ worker[w].member \in DOMAIN reserved /\ reserved[worker[w].member] = 1

Sooner(zset) == [m \in DOMAIN zset |-> IF zset[m] = 0 THEN 0 ELSE zset[m] - 1]

Elapse ==
  /\ delayed' = Sooner(delayed) /\ reserved' = Sooner(reserved)
  /\ IF \E w \in Worker : Lapses(w) THEN Spend("lapse") ELSE UNCHANGED spent
  /\ UNCHANGED <<ready, failed, holds, worker, history>>

Next ==
  \/ \E j \in Job : Dispatch(j)
  \/ \E w \in Worker : WorkerStep(w) \/ Crash(w)
  \/ Elapse

Spec == Init /\ [][Next]_vars

(* Workers poll for ever, commands are answered, handlers end, time passes.   *)
Fairness == WF_vars(Elapse) /\ \A w \in Worker : WF_vars(WorkerStep(w))
FairSpec == Spec /\ Fairness
-----------------------------------------------------------------------------
(* Properties. *)

Listed(j) == \E i \in DOMAIN ready : ready[i].job = j
In(zset, j) == \E m \in DOMAIN zset : m.job = j
Held(j, pc) == {w \in Worker : worker[w].pc = pc /\ worker[w].member.job = j}

(* No job is in two places at once: in two structures, twice in one, or in    *)
(* one and in a worker's hand, whatever crashes come between.  (Each job is   *)
(* promoted exactly once: _promoteDue's comment.)                             *)
Copies(j) ==
  Cardinality({i \in DOMAIN ready : ready[i].job = j})
    + Cardinality({m \in DOMAIN delayed : m.job = j})
    + Cardinality({m \in DOMAIN reserved : m.job = j})
    + Cardinality(Held(j, "push") \cup Held(j, "settle"))
    + Cardinality({j} \cap failed)
OnePlace == spent.lapse = 0 => \A j \in Job : Copies(j) <= 1

(* The class comment's promise, as an implementation of TaskQueue: no loss,   *)
(* no two workers on one job, nothing that ended coming back.                 *)
Where(j) ==
  IF Listed(j) \/ In(delayed, j) \/ Held(j, "push") # {} THEN "waiting"
  ELSE IF In(reserved, j) \/ Held(j, "settle") # {} THEN "taken"
  ELSE IF j \in failed THEN "failed"
  ELSE IF j \in replaced THEN "replaced"
  ELSE IF j \in succeeded THEN "done"
  ELSE IF j \in accepted THEN "lost"
  ELSE "new"
Works(w) ==
  IF worker[w].pc \in {"handle", "find", "release", "settle"}
  THEN worker[w].member.job ELSE None

Tasks == INSTANCE TaskQueue
  WITH state <- [j \in Job |-> Where(j)], work <- [w \in Worker |-> Works(w)]
ImplementsQueue == Tasks!Spec

(* The scenario of the promise: workers may die, but not between taking a job *)
(* out of one structure and putting it into the next, and settle their jobs   *)
(* within the visibility timeout.                                             *)
Timely == \A f \in Faults : f.torn = 0 /\ f.lapse = 0

(* Every accepted job is eventually done, failed or replaced.                 *)
EveryTaskSettles ==
  \A j \in Job : j \in accepted ~> Where(j) \in {"done", "failed", "replaced"}
=============================================================================
