------------------------------ MODULE WorkerPool ------------------------------
(***************************************************************************)
(* The pool of worker threads that runs jobs off the main thread, and the  *)
(* thread's side of the protocol (queue-worker.ts).  The parent and each   *)
(* thread exchange messages in order; a reply names no job, so the parent  *)
(* attributes it to whatever call its slot holds.                          *)
(*                                                                         *)
(* The pool starts as start() leaves it: one bootstrapped thread per slot. *)
(* A parent's handler is one step: it runs to its end without awaiting.    *)
(***************************************************************************)
EXTENDS Integers, Sequences, FiniteSets

CONSTANTS
  Call,        \* calls of run(), one per claimed job
  Nobody,      \* no call
  Size,        \* threads
  MaxPending,  \* calls that may wait for a thread
  MaxRespawns, \* consecutive respawns before a slot is given up
  MaxLost,     \* bound: events that threads fire which die by themselves
  Notices      \* events a dying thread may fire: 1 (close), 2 (error and close)

ASSUME PoolAssumption ==
  /\ Nobody \notin Call
  /\ Size \in Nat \ {0} /\ MaxPending \in Nat \ {0}
  /\ MaxRespawns \in Nat /\ MaxLost \in Nat
  /\ Notices \subseteq Nat \ {0}

Slot == 1..Size

VARIABLES
  slots,      \* Slot -> thread, busy, the call it holds, respawns, dead
  pending,    \* calls that wait for a free slot
  threads,    \* every thread spawned so far, in order
  outcome,    \* Call -> what its promise was settled with
  terminated, \* terminate() has run
  losses,     \* what is left of MaxLost
  returned,   \* history: calls whose handler returned
  misled      \* history: a thread's second notice was taken for its successor's

vars == <<slots, pending, threads, outcome, terminated, losses, returned, misled>>

NewThread(s, boot) ==
  [slot |-> s, alive |-> TRUE, boot |-> boot, inbox |-> << >>, running |-> {},
   outbox |-> << >>]

(* Types of the pool, of its threads and of the calls' outcomes. *)
TypeOK ==
  /\ slots \in [Slot -> [thread: 1..Len(threads), busy: BOOLEAN,
                         call: Call \cup {Nobody}, respawns: Nat, dead: BOOLEAN]]
  /\ pending \in Seq(Call) /\ Len(pending) <= MaxPending
  /\ threads \in Seq([slot: Slot, alive: BOOLEAN, boot: {"loading", "ready", "broken"},
                      inbox: Seq(Call), running: SUBSET Call,
                      outbox: Seq({"done", "error", "lost"})])
  /\ outcome \in [Call -> {"none", "waiting", "ok", "failed"}]
  /\ terminated \in BOOLEAN
  /\ losses \in 0..MaxLost
  /\ returned \subseteq Call /\ misled \in BOOLEAN

Init ==
  /\ threads = [s \in Slot |-> NewThread(s, "ready")]
  /\ slots = [s \in Slot |-> [thread |-> s, busy |-> FALSE, call |-> Nobody,
                              respawns |-> 0, dead |-> FALSE]]
  /\ pending = << >>
  /\ outcome = [c \in Call |-> "none"]
  /\ terminated = FALSE
  /\ losses = MaxLost
  /\ returned = {} /\ misled = FALSE
-----------------------------------------------------------------------------
(* The parent's handlers are compositions of the private methods, each a     *)
(* function on the pool's state.                                             *)

Pool == [slots |-> slots, pending |-> pending, threads |-> threads, outcome |-> outcome]
Becomes(pool) ==
  \E p \in {pool} : /\ slots' = p.slots /\ pending' = p.pending
                    /\ threads' = p.threads /\ outcome' = p.outcome

Resolve(p, c, result) ==
  IF c # Nobody /\ p.outcome[c] = "waiting"
  THEN [p EXCEPT !.outcome[c] = result] ELSE p

(* _drainPending: free slots in order take waiting calls in order. *)
Free_evenBusy(p, s) == ~p.slots[s].dead
Free(p, s) == ~p.slots[s].busy /\ ~p.slots[s].dead

DrainPending(p) ==
  LET free == {s \in Slot : ~terminated /\ Free(p, s)}
      rank(s) == Cardinality({t \in free : t <= s})
      given == {s \in free : rank(s) <= Len(p.pending)}
      call(s) == p.pending[rank(s)]
      posted(t) == p.threads[t].slot \in given /\ p.slots[p.threads[t].slot].thread = t
  IN IF p.pending = << >> THEN p ELSE
     [p EXCEPT
       !.pending = SubSeq(p.pending, Cardinality(given) + 1, Len(p.pending)),
       !.slots = [s \in Slot |->
                    IF s \in given THEN [p.slots[s] EXCEPT !.busy = TRUE, !.call = call(s)]
                                   ELSE p.slots[s]],
       !.threads = [t \in DOMAIN p.threads |->
                      IF posted(t)
                      THEN [p.threads[t] EXCEPT
                              !.inbox = Append(@, call(p.threads[t].slot))]
                      ELSE p.threads[t]]]

Settle_noDrain(p, s, result) ==
  Resolve([p EXCEPT !.slots[s].busy = FALSE, !.slots[s].call = Nobody],
          p.slots[s].call, result)
Settle(p, s, result) ==
  DrainPending(Resolve([p EXCEPT !.slots[s].busy = FALSE, !.slots[s].call = Nobody],
                       p.slots[s].call, result))

(* _spawn: the slot's new thread still has to bootstrap.  The call that the  *)
(* slot holds is left as it is.                                              *)
Spawn(p, s) ==
  [p EXCEPT !.threads = Append(@, NewThread(s, "loading")),
            !.slots[s].thread = Len(p.threads) + 1,
            !.slots[s].busy = FALSE]

GivesUp(respawns) == respawns > MaxRespawns

(* _onWorkerLost *)
WorkerLost_always(p, s) == Spawn(Settle(p, s, "failed"), s)
WorkerLost(p, s) ==
  IF terminated \/ p.slots[s].dead THEN p
  ELSE LET settled == Settle(p, s, "failed")
           counted == [settled EXCEPT !.slots[s].respawns = @ + 1]
       IN IF GivesUp(counted.slots[s].respawns)
          THEN DrainPending([counted EXCEPT !.slots[s].dead = TRUE])
          ELSE Spawn(counted, s)

Full_late == Len(pending) > MaxPending
Full == Len(pending) >= MaxPending
NoLiveSlot == ~terminated /\ \A s \in Slot : slots[s].dead

Run(c) ==
  /\ outcome[c] = "none"
  /\ LET waiting == [Pool EXCEPT !.outcome[c] = "waiting"]
     IN IF Full \/ NoLiveSlot
        THEN Becomes(Resolve(waiting, c, "failed"))
        ELSE Becomes(DrainPending([waiting EXCEPT !.pending = Append(@, c)]))
  /\ UNCHANGED <<terminated, losses, returned, misled>>

(* The parent handles the next event of a thread, current or replaced. *)
Reply(p, s, kind) ==
  Settle([p EXCEPT !.slots[s].respawns = 0], s, IF kind = "done" THEN "ok" ELSE "failed")

(* A notice of a thread that was replaced is acted on as its successor's.    *)
Misleads(t) ==
  LET s == threads[t].slot
  IN /\ Head(threads[t].outbox) = "lost" /\ slots[s].thread # t
     /\ ~terminated /\ ~slots[s].dead

Receive(t) ==
  /\ threads[t].outbox # << >>
  /\ LET s == threads[t].slot
         kind == Head(threads[t].outbox)
         taken == [Pool EXCEPT !.threads[t].outbox = Tail(@)]
     IN Becomes(IF kind = "lost" THEN WorkerLost(taken, s) ELSE Reply(taken, s, kind))
  /\ misled' = (misled \/ Misleads(t))
  /\ UNCHANGED <<terminated, losses, returned>>

(* terminate(): the waiting calls fail, then those in flight; every slot's   *)
(* thread is stopped and its close event follows.                            *)
Waiting == {pending[i] : i \in DOMAIN pending}
InFlight == {slots[s].call : s \in {s \in Slot : slots[s].busy}} \ {Nobody}
Stopped(thread) ==
  IF thread.alive
  THEN [thread EXCEPT !.alive = FALSE, !.running = {}, !.outbox = Append(@, "lost")]
  ELSE thread

Terminate ==
  /\ ~terminated
  /\ terminated' = TRUE
  /\ outcome' = [c \in Call |-> IF c \in Waiting \cup InFlight /\ outcome[c] = "waiting"
                                THEN "failed" ELSE outcome[c]]
  /\ pending' = << >>
  /\ slots' = [s \in Slot |-> IF slots[s].busy THEN [slots[s] EXCEPT !.call = Nobody]
                                               ELSE slots[s]]
  /\ threads' = [t \in DOMAIN threads |->
                   IF slots[threads[t].slot].thread = t THEN Stopped(threads[t])
                                                        ELSE threads[t]]
  /\ UNCHANGED <<losses, returned, misled>>
-----------------------------------------------------------------------------
(* The threads. *)

Post(t, kind) == [threads[t] EXCEPT !.outbox = Append(@, kind)]
Thread(t, new) ==
  /\ threads[t].alive
  /\ threads' = [threads EXCEPT ![t] = new]
  /\ UNCHANGED <<slots, pending, outcome, terminated, misled>>

(* The bootstrap message: ready, or bootstrap-error and alive. *)
Bootstrap(t) ==
  /\ threads[t].boot = "loading"
  /\ \E boot \in {"ready", "broken"} : Thread(t, [threads[t] EXCEPT !.boot = boot])
  /\ UNCHANGED <<losses, returned>>

(* A job message: refused before bootstrap and for a class it does not know. *)
Accept(t) ==
  /\ threads[t].inbox # << >>
  /\ LET rest == [threads[t] EXCEPT !.inbox = Tail(@)]
     IN \/ /\ threads[t].boot = "ready"
           /\ Thread(t, [rest EXCEPT !.running = @ \cup {Head(threads[t].inbox)}])
        \/ Thread(t, [rest EXCEPT !.outbox = Append(@, "error")])
  /\ UNCHANGED <<losses, returned>>

Finish(t, c) ==
  /\ c \in threads[t].running
  /\ \/ /\ Thread(t, [Post(t, "done") EXCEPT !.running = @ \ {c}])
        /\ returned' = returned \cup {c}
     \/ /\ Thread(t, [Post(t, "error") EXCEPT !.running = @ \ {c}])
        /\ UNCHANGED returned
  /\ UNCHANGED losses

(* The thread throws outside a job, fails to load, exits or is killed. *)
Die(t) ==
  /\ \E n \in Notices :
    /\ n <= losses /\ losses' = losses - n
    /\ Thread(t, [threads[t] EXCEPT !.alive = FALSE, !.running = {},
                                    !.outbox = @ \o [i \in 1..n |-> "lost"]])
  /\ UNCHANGED returned

ThreadStep(t) == Bootstrap(t) \/ Accept(t) \/ \E c \in Call : Finish(t, c)

Next ==
  \/ \E c \in Call : Run(c)
  \/ \E t \in DOMAIN threads : Receive(t) \/ ThreadStep(t) \/ Die(t)
  \/ Terminate

Spec == Init /\ [][Next]_vars

(* Messages are delivered and handlers end; nobody has to call or terminate.  *)
(* Some thread's progress is enough: no step of a thread can be undone.       *)
Progress ==
  \/ \E t \in DOMAIN threads : ThreadStep(t)
  \/ \E t \in DOMAIN threads : Receive(t)
FairSpec == Spec /\ WF_vars(Progress)
-----------------------------------------------------------------------------
(* A job is reported done, and then deleted by QueueManager, only if its own  *)
(* handler returned: replies carry no job, so this rests on every slot        *)
(* holding the one call its thread works on, through deaths and respawns, and *)
(* on a thread running one job at a time (the pool's size is its concurrency).*)
(* It holds until a thread's second notice (error, then close) is acted on     *)
(* after its successor was spawned: from then on it does not (WorkerPool.ts:   *)
(* 137-147 give both events to _onWorkerLost, which knows only the slot).      *)
SuccessMeansRan == \A c \in Call : outcome[c] = "ok" => c \in returned
OneJobPerThread ==
  \A t \in DOMAIN threads : Cardinality(threads[t].running) + Len(threads[t].inbox) <= 1
                            \/ ~threads[t].alive
ResultsBelong == ~misled => SuccessMeansRan /\ OneJobPerThread

(* Every living thread is the one its slot would stop: none is leaked by a    *)
(* respawn, and none outlives terminate(), under the same condition.          *)
NoLeakedThread ==
  ~misled => \A t \in DOMAIN threads : threads[t].alive =>
    slots[threads[t].slot].thread = t /\ ~terminated

(* While no thread has died, every call made before terminate() is answered   *)
(* (there are finitely many calls, so they are all answered in the end).      *)
CallsAnswered ==
  []<>(\/ \A c \in Call : outcome[c] # "waiting"
       \/ terminated \/ losses < MaxLost)
=============================================================================
