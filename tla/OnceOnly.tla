------------------------------ MODULE OnceOnly ------------------------------
(***************************************************************************)
(* The two clients that want one key's work done once: CacheManager's      *)
(* remember, with its invalidation by forget, and IdempotencyMiddleware's  *)
(* handle.  Both look in the cache, join a call already under way in their *)
(* process, and otherwise take a lock shared by all processes, look again, *)
(* work, store and release; "bare" is remember without a lock.  The lock   *)
(* is what Lease promises, the cache a store shared by all processes.      *)
(***************************************************************************)
EXTENDS Integers, FiniteSets

CONSTANTS
  Call, Process,
  Home,     \* Call -> the process it arrives in
  Body,     \* Call -> the request body; requests are validated against it
  Mode,     \* which of the clients a behaviour may be about
  Ttl,      \* ticks the lock lives
  Wait,     \* mode -> ticks a call waits for it
  Keep,     \* ticks a remembered entry lives; an idempotent one outlives all calls
  Events,   \* what a behaviour may contain: each member bounds its crashes, its
            \* lapsed locks, the changes of the data behind the value and the
            \* errors of the cache's set()
  Nobody, None, Error, Conflict

EventCount == [crash: Nat, lapse: Nat, change: Nat, error: Nat]

(* What work produces: by whom, and from which state of the data.            *)
Made == [by: Call, from: Nat]

ASSUME OnceAssumption ==
  /\ Home \in [Call -> Process]
  /\ Mode \subseteq {"remember", "bare", "idempotent"}
  /\ Ttl \in Nat \ {0} /\ Keep \in Nat \ {0} /\ Wait \in [Mode -> Nat]
  /\ Events \subseteq EventCount
  /\ Nobody \notin Call /\ None \notin Call \cup Made

VARIABLES
  mode,
  entry,    \* the key's cached value, and the time it has left
  inflight, \* Process -> the call its other calls join, or None
  call,     \* Call -> its state
  stray,    \* work that ran on when its call gave up a lost lock
  spent,    \* how many of each event there were
  unguarded, \* history: calls that went on without the lock
  ran,       \* history: calls whose handler succeeded
  holder, left, granted, believes, forces  \* the lock: see Lease

Key == INSTANCE Lease WITH Lock <- Call
lockVars == <<holder, left, granted, believes, forces>>
history == <<unguarded, ran>>
vars == <<mode, entry, inflight, call, stray, spent, history, lockVars>>

CallState == [
  pc: {"new", "looked", "joined", "waiting", "granted", "checking", "working",
       "storing", "leaving", "answered", "dead"},
  seen: Made \cup {None},    \* what the first look found
  host: Call \cup {None},    \* the call it joined
  patience: Nat,             \* time to the end of block's wait
  from: Nat,          \* the data its work read
  answer: Made \cup {None, Error, Conflict}]

(* Types; and a lock is granted and believed only by calls that wait for it   *)
(* or are inside.                                                             *)
TypeOK ==
  /\ mode \in Mode
  /\ entry \in [value: Made \cup {None}, left: 0..Keep]
  /\ inflight \in [Process -> Call \cup {None}]
  /\ call \in [Call -> CallState]
  /\ stray \subseteq Made
  /\ spent \in EventCount
  /\ unguarded \subseteq Call /\ ran \subseteq Call
  /\ holder \in Call \cup {Nobody} /\ left \in 0..Ttl /\ forces = 0
  /\ granted = {c \in Call : call[c].pc = "granted"}
  /\ believes \subseteq
       {c \in Call : call[c].pc \in {"checking", "working", "storing", "leaving"}}

Fresh == [pc |-> "new", seen |-> None, host |-> None, patience |-> 0, from |-> 0,
          answer |-> None]
Absent == [value |-> None, left |-> 0]

Init ==
  /\ mode \in Mode
  /\ entry = Absent
  /\ inflight = [p \in Process |-> None]
  /\ call = [c \in Call |-> Fresh]
  /\ stray = {}
  /\ spent = [crash |-> 0, lapse |-> 0, change |-> 0, error |-> 0]
  /\ unguarded = {} /\ ran = {}
  /\ Key!Init

version == spent.change   \* of the data

Spend(what) ==
  /\ spent' = [spent EXCEPT ![what] = @ + 1]
  /\ \E f \in Events : \A k \in DOMAIN f : spent'[k] <= f[k]
Goes(c, to) == call' = [call EXCEPT ![c] = to]
At(c, pc) == [call[c] EXCEPT !.pc = pc]
Over(pc, answer) == [Fresh EXCEPT !.pc = pc, !.answer = answer]
-----------------------------------------------------------------------------
(* The read at the start. *)
Look(c) ==
  /\ call[c].pc = "new"
  /\ Goes(c, [At(c, "looked") EXCEPT !.seen = entry.value])
  /\ UNCHANGED <<mode, entry, inflight, stray, spent, history, lockVars>>

(* A stored response answers its own request only. *)
Replay(c, made) ==
  IF mode = "idempotent" /\ Body[made.by] # Body[c] THEN Conflict ELSE made

(* Its answer: a hit; or a call to join, whose body is not compared; or this  *)
(* is the call the others join.                                               *)
Coalesce_ignoresOthers(c) ==
  /\ call[c].pc = "looked" /\ call[c].seen = None
  /\ Goes(c, IF mode = "bare" THEN [At(c, "working") EXCEPT !.from = version]
             ELSE [At(c, "waiting") EXCEPT !.patience = Wait[mode]])
  /\ inflight' = [inflight EXCEPT ![Home[c]] = c]
Coalesce(c) ==
  /\ call[c].pc = "looked" /\ call[c].seen = None
  /\ IF inflight[Home[c]] # None
     THEN Goes(c, [At(c, "joined") EXCEPT !.host = inflight[Home[c]]]) /\ UNCHANGED inflight
     ELSE /\ Goes(c, IF mode = "bare" THEN [At(c, "working") EXCEPT !.from = version]
                     ELSE [At(c, "waiting") EXCEPT !.patience = Wait[mode]])
          /\ inflight' = [inflight EXCEPT ![Home[c]] = c]

Hit(c) ==
  /\ call[c].pc = "looked" /\ call[c].seen # None
  /\ Goes(c, Over("answered", Replay(c, call[c].seen)))
  /\ UNCHANGED inflight

Resume(c) ==
  /\ Hit(c) \/ Coalesce(c)
  /\ UNCHANGED <<mode, entry, stray, spent, history, lockVars>>
-----------------------------------------------------------------------------
(* LockManager.block *)
Acquire(c) ==
  /\ call[c].pc = "waiting" /\ Key!Grant(c) /\ left' = Ttl
  /\ Goes(c, [At(c, "granted") EXCEPT !.patience = 0])
  /\ UNCHANGED <<mode, entry, inflight, stray, spent, history>>

Enter(c) ==
  /\ call[c].pc = "granted" /\ Key!Learn(c)
  /\ Goes(c, At(c, "checking"))
  /\ UNCHANGED <<mode, entry, inflight, stray, spent, history>>

(* LockNotAcquiredError: the work goes on without the lock.                   *)
GiveUp(c) ==
  /\ call[c].pc = "waiting" /\ call[c].patience = 0 /\ holder # Nobody
  /\ Goes(c, At(c, "checking"))
  /\ unguarded' = unguarded \cup {c}
  /\ UNCHANGED <<mode, entry, inflight, stray, spent, ran, lockVars>>

(* remember's lock is refreshed while it works ...                            *)
Beat(c) ==
  /\ mode = "remember" /\ c \in believes /\ Key!Extend(c)
  /\ UNCHANGED <<mode, entry, inflight, call, stray, spent, history>>

(* ... and a refresh that finds it gone (LockLostError) starts again without  *)
(* it, while the work begun goes on and will store what it makes.             *)
Lose(c) ==
  /\ mode = "remember" /\ c \in believes /\ holder # c
  /\ call[c].pc \in {"working", "storing"}
  /\ Goes(c, At(c, "checking"))
  /\ stray' = stray \cup {[by |-> c, from |-> call[c].from]}
  /\ unguarded' = unguarded \cup {c}
  /\ Key!Forget(c) /\ believes' = believes \ {c} /\ granted' = granted
  /\ UNCHANGED <<mode, entry, inflight, spent, ran>>
-----------------------------------------------------------------------------
(* The work: recheckThenCompute, and executeOnce. *)
Check_trustsFirstLook(c) ==
  /\ call[c].pc = "checking"
  /\ Goes(c, [At(c, "working") EXCEPT !.from = version])
  /\ UNCHANGED <<mode, entry, inflight, stray, spent, history, lockVars>>
Check(c) ==
  /\ call[c].pc = "checking"
  /\ Goes(c, IF entry.value = None
             THEN [At(c, "working") EXCEPT !.from = version]
             ELSE [At(c, "leaving") EXCEPT !.answer = Replay(c, entry.value)])
  /\ UNCHANGED <<mode, entry, inflight, stray, spent, history, lockVars>>

(* It fails by throwing, or by a response of 500 and more, which is not       *)
(* stored either.                                                             *)
Work(c) ==
  /\ call[c].pc = "working"
  /\ \/ Goes(c, At(c, "storing")) /\ ran' = ran \cup {c}
     \/ Goes(c, [At(c, "leaving") EXCEPT !.answer = Error]) /\ UNCHANGED ran
  /\ UNCHANGED <<mode, entry, inflight, stray, spent, unguarded, lockVars>>

Stored(made) == entry' = [value |-> made, left |-> Keep]

Store(c) ==
  /\ call[c].pc = "storing"
  /\ LET made == [by |-> c, from |-> call[c].from]
     IN Stored(made) /\ Goes(c, [At(c, "leaving") EXCEPT !.answer = made])
  /\ UNCHANGED <<mode, inflight, stray, spent, history, lockVars>>

(* set() rejects, and with it the call, whose work is done; the value may have*)
(* been stored all the same.                                                  *)
StoreFails(c) ==
  /\ call[c].pc = "storing" /\ Spend("error")
  /\ Stored([by |-> c, from |-> call[c].from]) \/ UNCHANGED entry
  /\ Goes(c, [At(c, "leaving") EXCEPT !.answer = Error])
  /\ UNCHANGED <<mode, inflight, stray, history, lockVars>>

StrayStores ==
  /\ \E made \in stray : stray' = stray \ {made} /\ (Stored(made) \/ UNCHANGED entry)
  /\ UNCHANGED <<mode, inflight, call, spent, history, lockVars>>

(* release(), then the finally blocks: the calls that joined are answered.    *)
Unlock_staysAcquired(c) ==
  IF holder = c THEN Key!Release(c) /\ UNCHANGED believes ELSE UNCHANGED lockVars
Unlock(c) ==
  IF c \notin believes THEN UNCHANGED lockVars
  ELSE IF holder = c THEN Key!Release(c) /\ believes' = believes \ {c}
  ELSE Key!Forget(c) /\ believes' = believes \ {c} /\ granted' = granted

Joined(c) == {d \in Call : call[d].pc = "joined" /\ call[d].host = c}
Leave_onlyOnSuccess(c) ==
  /\ call[c].pc = "leaving"
  /\ Unlock(c)
  /\ call' = [d \in Call |->
       IF d = c \/ (d \in Joined(c) /\ call[c].answer # Error)
       THEN Over("answered", call[c].answer)
       ELSE call[d]]
  /\ inflight' = [inflight EXCEPT ![Home[c]] = None]
  /\ UNCHANGED <<mode, entry, stray, spent, history>>
Leave(c) ==
  /\ call[c].pc = "leaving"
  /\ Unlock(c)
  /\ call' = [d \in Call |->
       IF d \in {c} \cup Joined(c)
       THEN Over("answered", call[c].answer)
       ELSE call[d]]
  /\ inflight' = [inflight EXCEPT ![Home[c]] = None]
  /\ UNCHANGED <<mode, entry, stray, spent, history>>
-----------------------------------------------------------------------------
(* The data changes and its key is forgotten. *)
Invalidate ==
  /\ mode # "idempotent" /\ Spend("change")
  /\ entry' = Absent
  /\ UNCHANGED <<mode, inflight, call, stray, history, lockVars>>

Alive(c) == call[c].pc \notin {"new", "answered", "dead"}

Crash(p) ==
  LET lost == {c \in Call : Home[c] = p /\ Alive(c)}
  IN /\ lost # {} /\ Spend("crash")
     /\ call' = [c \in Call |-> IF c \in lost THEN Over("dead", None) ELSE call[c]]
     /\ inflight' = [inflight EXCEPT ![p] = None]
     /\ stray' = {made \in stray : Home[made.by] # p}
     /\ granted' = granted \ lost /\ believes' = believes \ lost
     /\ UNCHANGED <<mode, entry, history, holder, left, forces>>

Less(n) == IF n = 0 THEN 0 ELSE n - 1

Older_noTtl == entry
Older == IF mode = "idempotent" \/ entry.value = None THEN entry
         ELSE IF entry.left = 1 THEN Absent
         ELSE [entry EXCEPT !.left = @ - 1]

(* A holder that lives is done, or has refreshed, before its deadline, or a   *)
(* lapse is spent.                                                            *)
Tick ==
  /\ IF left = 1 /\ Alive(holder) THEN Spend("lapse") ELSE UNCHANGED spent
  /\ Key!Tick \/ (left = 0 /\ UNCHANGED lockVars)
  /\ entry' = Older
  /\ call' = [c \in Call |-> [call[c] EXCEPT !.patience = Less(@)]]
  /\ UNCHANGED <<mode, inflight, stray, history>>

Step(c) ==
  \/ Resume(c) \/ Acquire(c) \/ Enter(c) \/ GiveUp(c) \/ Check(c) \/ Work(c)
  \/ Store(c) \/ Leave(c)

Next ==
  \/ \E c \in Call : Look(c) \/ Step(c) \/ StoreFails(c) \/ Beat(c) \/ Lose(c)
  \/ StrayStores \/ Invalidate \/ Tick
  \/ \E p \in Process : Crash(p)

Spec == Init /\ [][Next]_vars

(* Handlers, factories, the cache and the lock's driver answer; time passes;  *)
(* a held lock is refreshed in time.                                          *)
Fairness == /\ \A c \in Call : WF_vars(Step(c))
            /\ WF_vars(StrayStores) /\ SF_vars(Tick)
FairSpec == Spec /\ Fairness
-----------------------------------------------------------------------------
(* Properties. *)

(* Nobody has had to go on without the lock, and none was lost.               *)
Undisturbed == unguarded = {} /\ spent.lapse = 0

Working == {c \in Call : call[c].pc \in {"working", "storing"}}

(* One call works at a time: in one process always, and in all of them as     *)
(* long as the lock is there, whatever crashes ("only one node recomputes").  *)
OneAtATime ==
  /\ \A c, d \in Working : Home[c] = Home[d] => c = d
  /\ mode # "bare" /\ Undisturbed => Cardinality(Working) <= 1

Answers == {call[c].answer : c \in Call} \ {None, Error, Conflict}

(* How often a response may have been made and not stored: its process died   *)
(* first, or the cache refused it.                                            *)
Unstored == spent.crash + spent.error

(* Requests with one idempotency key have one effect and one answer: a        *)
(* handler runs again only when the process that ran it died before it could  *)
(* store its response, or the cache refused the response and the request      *)
(* failed, and then nobody has seen the first (handle).                       *)
OneEffect ==
  mode = "idempotent" /\ Undisturbed =>
    /\ Cardinality(ran) <= 1 + Unstored
    /\ Cardinality(Answers) <= 1
    /\ entry.value # None => Answers \subseteq {entry.value}

(* A value made before the data changed, which the work under way may store   *)
(* after forget(), is not served for ever.                                    *)
Stale == entry.value # None /\ entry.value.from < version
StaleHeals == Stale ~> ~Stale

(* Every call is answered or dies with its process: one that waits for the    *)
(* lock of a dead one, and one that joined a call which fails, included.      *)
EveryCallAnswered ==
  \A c \in Call : call[c].pc = "looked" ~> call[c].pc \in {"answered", "dead"}
=============================================================================
