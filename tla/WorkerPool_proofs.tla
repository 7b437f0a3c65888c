------------------------- MODULE WorkerPool_proofs -------------------------
(* Theorems about WorkerPool, for any number of calls, threads, deaths and    *)
(* respawns.                                                                  *)
EXTENDS WorkerPool, SequenceTheorems, FiniteSetTheorems, TLAPS

(* The handlers are compositions of functions on the pool's state, so that    *)
(* what they preserve is stated of a pool's state p, not of the variables.    *)
Word == {"done", "error", "lost"}
Result == {"ok", "failed"}
SlotRow == [thread: Nat, busy: BOOLEAN, call: Call \cup {Nobody}, respawns: Nat,
            dead: BOOLEAN]
ThreadRow == [slot: Slot, alive: BOOLEAN, boot: {"loading", "ready", "broken"},
              inbox: Seq(Call), running: SUBSET Call, outbox: Seq(Word)]
Outcome == [Call -> {"none", "waiting", "ok", "failed"}]
PoolState == [slots: [Slot -> SlotRow], pending: Seq(Call), threads: Seq(ThreadRow),
              outcome: Outcome]

(* Types; and each slot has a thread that was spawned for it.                 *)
Typed(p) ==
  /\ p \in PoolState /\ Len(p.pending) <= MaxPending
  /\ \A s \in Slot : /\ p.slots[s].thread \in DOMAIN p.threads
                     /\ p.threads[p.slots[s].thread].slot = s

TypeInv ==
  /\ Typed(Pool)
  /\ terminated \in BOOLEAN /\ losses \in 0..MaxLost /\ returned \subseteq Call
  /\ misled \in BOOLEAN

(* A thread that has work for its slot's call, or has answered it.            *)
Works(thread) == thread.alive /\ (thread.inbox # << >> \/ thread.running # {})
Answers(thread) == thread.outbox # << >> /\ thread.outbox[1] # "lost"
Idle(thread) == ~Works(thread) /\ ~Answers(thread)
OnlyLost(box) == \A i \in 1..Len(box) : box[i] = "lost"
Heard(thread) == ~thread.alive /\ OnlyLost(thread.outbox)

(* A thread answers once; after that come only notices of its death.          *)
Orderly(thread) ==
  /\ thread.alive => Len(thread.outbox) <= 1 /\ (thread.outbox # << >> => Answers(thread))
  /\ \A i \in 2..Len(thread.outbox) : thread.outbox[i] = "lost"

(* It does one thing at a time, all of it for the call that its slot holds.   *)
Single(thread, call) ==
  thread.alive =>
    /\ thread.inbox = << >> \/ thread.inbox = <<call>>
    /\ thread.running = {} \/ thread.running = {call}
    /\ thread.inbox # << >> => thread.running = {} /\ thread.outbox = << >>
    /\ thread.running # {} => thread.outbox = << >>

(* So the slot is busy with the call; if the answer is that it is done, its   *)
(* handler has returned.                                                      *)
Serves(thread, row, done) ==
  /\ Orderly(thread) /\ Single(thread, row.call)
  /\ Works(thread) \/ Answers(thread) => row.busy
  /\ Answers(thread) /\ thread.outbox[1] = "done" => row.call \in done \cup {Nobody}

(* Every thread of the pool but a slot's is dead, and has nothing to say but  *)
(* that.                                                                      *)
Current(p, t) == p.slots[p.threads[t].slot].thread = t
Of(p, s) == p.threads[p.slots[s].thread]
Sound(p, done) ==
  /\ \A t \in DOMAIN p.threads :
       /\ p.threads[t].alive => ~terminated
       /\ Heard(p.threads[t]) \/ Current(p, t)
  /\ \A s \in Slot : Serves(Of(p, s), p.slots[s], done)
  /\ \A c \in Call : p.outcome[c] = "ok" => c \in done

(* The rows of a pool.                                                        *)
LEMMA Rows ==
  ASSUME NEW p, p \in PoolState
  PROVE  /\ p.slots \in [Slot -> SlotRow] /\ p.pending \in Seq(Call)
         /\ p.threads \in Seq(ThreadRow) /\ p.outcome \in Outcome
         /\ DOMAIN p.threads = 1..Len(p.threads) /\ Len(p.threads) \in Nat
         /\ \A t \in DOMAIN p.threads : p.threads[t] \in ThreadRow /\ p.threads[t].slot \in Slot
<1>1. /\ p.slots \in [Slot -> SlotRow] /\ p.pending \in Seq(Call)
      /\ p.threads \in Seq(ThreadRow) /\ p.outcome \in Outcome
  BY DEF PoolState
<1>2. DOMAIN p.threads = 1..Len(p.threads) /\ Len(p.threads) \in Nat
  BY <1>1, LenProperties
<1>3. \A t \in DOMAIN p.threads : p.threads[t] \in ThreadRow
  BY <1>1, <1>2, ElementOfSeq
<1> QED BY <1>1, <1>2, <1>3 DEF ThreadRow

(* A pool of which one field is replaced.                                     *)
LEMMA Replaced ==
  ASSUME NEW p, p \in PoolState, NEW list, NEW q
  PROVE  /\ q = [p EXCEPT !.pending = list] =>
              q = [slots |-> p.slots, pending |-> list, threads |-> p.threads,
                   outcome |-> p.outcome]
         /\ q = [p EXCEPT !.threads = list] =>
              q = [slots |-> p.slots, pending |-> p.pending, threads |-> list,
                   outcome |-> p.outcome]
BY DEF PoolState

(* The invariants imply what the theorems state.                              *)
LEMMA TypeInvSuffices == TypeInv => TypeOK
<1> SUFFICES ASSUME TypeInv PROVE TypeOK
  OBVIOUS
<1>1. /\ slots \in [Slot -> SlotRow] /\ pending \in Seq(Call) /\ threads \in Seq(ThreadRow)
      /\ outcome \in Outcome /\ Len(pending) <= MaxPending
      /\ \A s \in Slot : slots[s].thread \in DOMAIN threads
  BY DEF TypeInv, Typed, Pool, PoolState
<1>2. DOMAIN threads = 1..Len(threads)
  BY <1>1
<1>3. slots \in [Slot -> [thread: 1..Len(threads), busy: BOOLEAN, call: Call \cup {Nobody},
                          respawns: Nat, dead: BOOLEAN]]
  BY <1>1, <1>2 DEF SlotRow
<1> QED BY <1>1, <1>3 DEF TypeInv, TypeOK, ThreadRow, Word, Outcome

(* What a sound pool promises.                                                *)
LEMMA SoundSuffices ==
  ASSUME TypeInv, Sound(Pool, returned) PROVE ResultsBelong /\ NoLeakedThread
<1>1. /\ slots \in [Slot -> SlotRow] /\ threads \in Seq(ThreadRow)
      /\ \A s \in Slot : slots[s].thread \in DOMAIN threads
  BY DEF TypeInv, Typed, Pool, PoolState
<1>2. /\ \A t \in DOMAIN threads :
           /\ threads[t].alive => ~terminated
           /\ threads[t].alive => slots[threads[t].slot].thread = t
      /\ \A s \in Slot : Serves(threads[slots[s].thread], slots[s], returned)
      /\ \A c \in Call : outcome[c] = "ok" => c \in returned
  BY DEF Sound, Pool, Current, Of, Heard
<1>3. NoLeakedThread /\ SuccessMeansRan
  BY <1>2 DEF NoLeakedThread, SuccessMeansRan
<1>4. ASSUME NEW t \in DOMAIN threads, threads[t].alive
      PROVE  Cardinality(threads[t].running) + Len(threads[t].inbox) <= 1
  <2> DEFINE th == threads[t]
             call == slots[th.slot].call
  <2>1. th.slot \in Slot /\ slots[th.slot].thread = t
    BY <1>2, <1>4, Rows DEF TypeInv, Typed, Pool
  <2>2. Serves(th, slots[th.slot], returned)
    BY <1>2, <2>1
  <2>3. Single(th, call)
    BY <2>2 DEF Serves
  <2> HIDE DEF th, call
  <2>4. \/ th.running = {} /\ th.inbox = << >>
        \/ th.running = {} /\ th.inbox = <<call>>
        \/ th.running = {call} /\ th.inbox = << >>
    BY <1>4, <2>3 DEF Single, th
  <2>5. Cardinality({}) = 0 /\ Cardinality({call}) = 1
    BY FS_EmptySet, FS_Singleton
  <2>6. Len(<< >>) = 0 /\ Len(<<call>>) = 1
    OBVIOUS
  <2>7. Cardinality(th.running) + Len(th.inbox) <= 1
    <3>1. CASE th.running = {} /\ th.inbox = << >>
      BY <2>5, <2>6, <3>1
    <3>2. CASE th.running = {} /\ th.inbox = <<call>>
      BY <2>5, <2>6, <3>2
    <3>3. CASE th.running = {call} /\ th.inbox = << >>
      BY <2>5, <2>6, <3>3
    <3> QED BY <2>4, <3>1, <3>2, <3>3
  <2> QED BY <2>7 DEF th
<1> QED BY <1>3, <1>4 DEF ResultsBelong, OneJobPerThread

-----------------------------------------------------------------------------
(* What serves a slot. *)

(* The thread of a free slot is idle.                                         *)
LEMMA FreeIdle ==
  ASSUME NEW th, NEW row, NEW done, Serves(th, row, done), ~row.busy
  PROVE  Idle(th)
BY DEF Serves, Idle

(* An idle thread serves whatever its slot holds.                             *)
LEMMA IdleServes ==
  ASSUME NEW th, NEW row, NEW done, Serves(th, row, done), Idle(th), NEW other
  PROVE  Serves(th, other, done)
BY DEF Serves, Idle, Works, Single

(* A free slot's thread is posted a call.                                     *)
LEMMA GivenServes ==
  ASSUME NEW th \in ThreadRow, NEW row \in SlotRow, NEW done, Serves(th, row, done),
         ~row.busy, NEW c \in Call, NEW new, NEW next,
         new = [th EXCEPT !.inbox = Append(@, c)],
         next.busy = TRUE, next.call = c
  PROVE  Serves(new, next, done)
<1>1. Idle(th)
  BY FreeIdle
<1>2. /\ new.inbox = Append(th.inbox, c) /\ new.alive = th.alive
      /\ new.running = th.running /\ new.outbox = th.outbox
      /\ th.inbox \in Seq(Call) /\ th.outbox \in Seq(Word)
  BY DEF ThreadRow
<1>3. Orderly(new) /\ ~Answers(new)
  BY <1>1, <1>2 DEF Serves, Orderly, Idle, Answers
<1>4. ASSUME new.alive
      PROVE  new.inbox = <<c>> /\ new.running = {} /\ new.outbox = << >>
  <2>1. th.inbox = << >> /\ th.running = {} /\ th.outbox = << >>
    BY <1>1, <1>2, <1>4 DEF Idle, Works, Serves, Orderly
  <2> QED BY <1>2, <2>1
<1> QED BY <1>3, <1>4 DEF Serves, Single

(* What is left of a box after its first event.                               *)
LEMMA TailOf ==
  ASSUME NEW box \in Seq(Word), box # << >>, NEW rest, rest = Tail(box),
         \A i \in 2..Len(box) : box[i] = "lost"
  PROVE  /\ rest \in Seq(Word) /\ OnlyLost(rest)
         /\ Len(box) <= 1 => rest = << >>
<1>1. /\ rest \in Seq(Word) /\ Len(rest) = Len(box) - 1
      /\ \A i \in 1..Len(rest) : rest[i] = box[i + 1]
  BY HeadTailProperties
<1>2. PICK n \in Nat, m \in Nat : n = Len(box) /\ m = Len(rest)
  BY <1>1, LenProperties
<1>3. n # 0 /\ m = n - 1
  BY <1>1, <1>2, EmptySeq
<1>4. ASSUME NEW i \in 1..m PROVE rest[i] = "lost"
  <2>1. i + 1 \in 2..n
    BY <1>3
  <2> QED BY <1>1, <1>2, <2>1
<1>5. n <= 1 => rest = << >>
  <2>1. n <= 1 => m = 0
    BY <1>3
  <2> QED BY <1>1, <1>2, <2>1, EmptySeq
<1> QED BY <1>1, <1>2, <1>4, <1>5 DEF OnlyLost

(* A box that says only that its thread is lost has no answer.                *)
LEMMA NoAnswer ==
  ASSUME NEW th, th.outbox \in Seq(Word), OnlyLost(th.outbox)
  PROVE  ~Answers(th) /\ \A i \in 2..Len(th.outbox) : th.outbox[i] = "lost"
<1>1. PICK n \in Nat : n = Len(th.outbox)
  BY LenProperties
<1>2. ASSUME th.outbox # << >> PROVE th.outbox[1] = "lost"
  <2>1. n # 0
    BY <1>1, <1>2, EmptySeq
  <2>2. 1 \in 1..n
    BY <2>1
  <2> QED BY <1>1, <2>2 DEF OnlyLost
<1>3. \A i \in 2..n : i \in 1..n
  OBVIOUS
<1> QED BY <1>1, <1>2, <1>3 DEF Answers, OnlyLost

(* The parent takes the next event of a thread that serves its slot.          *)
LEMMA TakenServes ==
  ASSUME NEW th \in ThreadRow, NEW row, NEW done, Serves(th, row, done),
         th.outbox # << >>, NEW new,
         new.outbox = Tail(th.outbox), new.alive = th.alive,
         new.running = th.running, new.inbox = th.inbox
  PROVE  /\ Serves(new, row, done) /\ Idle(new)
         /\ th.outbox[1] = "lost" => Heard(new)
<1>1. th.outbox \in Seq(Word) /\ Orderly(th) /\ Single(th, row.call)
  BY DEF ThreadRow, Serves
<1>2. /\ new.outbox \in Seq(Word) /\ OnlyLost(new.outbox)
      /\ Len(th.outbox) <= 1 => new.outbox = << >>
  BY <1>1, TailOf DEF Orderly
<1>3. ~Answers(new) /\ \A i \in 2..Len(new.outbox) : new.outbox[i] = "lost"
  BY <1>2, NoAnswer
<1>4. ~Works(new)
  BY <1>1 DEF Works, Single
<1>5. th.alive => new.outbox = << >> /\ Len(new.outbox) <= 1
  <2>1. Len(<< >>) = 0
    OBVIOUS
  <2>2. th.alive => Len(th.outbox) <= 1
    BY <1>1 DEF Orderly
  <2>3. th.alive => new.outbox = << >>
    BY <1>2, <2>2
  <2>4. th.alive => Len(new.outbox) = 0
    BY <2>1, <2>3
  <2>5. 0 <= 1
    OBVIOUS
  <2> QED BY <2>3, <2>4, <2>5
<1>6. Orderly(new)
  BY <1>3, <1>5 DEF Orderly
<1>7. Single(new, row.call)
  BY <1>4, <1>5 DEF Single, Works
<1>8. th.outbox[1] = "lost" => Heard(new)
  BY <1>1, <1>2 DEF Heard, Orderly, Answers
<1> QED BY <1>3, <1>4, <1>6, <1>7, <1>8 DEF Serves, Idle

(* A thread that was just spawned.                                            *)
LEMMA NewServes ==
  ASSUME NEW s \in Slot, NEW boot \in {"loading", "ready", "broken"}, NEW row, NEW done,
         NEW new, new = NewThread(s, boot)
  PROVE  new \in ThreadRow /\ Serves(new, row, done)
<1>1. new \in ThreadRow
  BY DEF NewThread, ThreadRow
<1>2. new.inbox = << >> /\ new.running = {} /\ new.outbox = << >>
  BY DEF NewThread
<1>3. ~Works(new) /\ ~Answers(new) /\ Orderly(new) /\ Single(new, row.call)
  BY <1>2 DEF Works, Answers, Orderly, Single
<1> QED BY <1>1, <1>3 DEF Serves

-----------------------------------------------------------------------------
(* What the parent's functions return. *)

(* _settle's resolve.                                                         *)
LEMMA ResolveIs ==
  ASSUME NEW p, Typed(p), NEW c \in Call \cup {Nobody}, NEW result \in Result,
         NEW q, q = Resolve(p, c, result)
  PROVE  /\ Typed(q) /\ q.slots = p.slots /\ q.threads = p.threads /\ q.pending = p.pending
         /\ \A d \in Call : q.outcome[d] = p.outcome[d] \/ (d = c /\ q.outcome[d] = result)
<1>1. p \in PoolState
  BY DEF Typed
<1>2. q.slots = p.slots /\ q.threads = p.threads /\ q.pending = p.pending
  BY <1>1 DEF Resolve, PoolState
<1>3. q \in PoolState
  BY <1>1 DEF Resolve, PoolState, Outcome, Result
<1>4. \A d \in Call : q.outcome[d] = p.outcome[d] \/ (d = c /\ q.outcome[d] = result)
  BY <1>1 DEF Resolve, PoolState, Outcome, Result
<1>5. Typed(q)
  BY <1>2, <1>3 DEF Typed
<1> QED BY <1>2, <1>4, <1>5

(* A slot's row is replaced.                                                  *)
Slotted(p, q, s, row) ==
  /\ q \in PoolState /\ q.slots = [p.slots EXCEPT ![s] = row]
  /\ q.threads = p.threads /\ q.pending = p.pending /\ q.outcome = p.outcome

(* The new row is that slot's, and the pool stays well-typed.                 *)
LEMMA SlottedIs ==
  ASSUME NEW p, Typed(p), NEW q, NEW s \in Slot, NEW row, Slotted(p, q, s, row),
         row.thread = p.slots[s].thread
  PROVE  Typed(q) /\ \A z \in Slot : q.slots[z] = IF z = s THEN row ELSE p.slots[z]
<1>1. p.slots \in [Slot -> SlotRow]
  BY DEF Typed, PoolState
<1>2. \A z \in Slot : q.slots[z] = IF z = s THEN row ELSE p.slots[z]
  BY <1>1 DEF Slotted
<1> QED BY <1>2 DEF Slotted, Typed

(* _drainPending gives free slots calls, and posts them to their threads.     *)
Drained(p, q, given, call) ==
  /\ q \in PoolState /\ Len(q.pending) <= Len(p.pending) /\ q.outcome = p.outcome
  /\ \A s \in given : Free(p, s) /\ ~terminated /\ call[s] \in Call
  /\ \A s \in Slot : q.slots[s] =
       IF s \in given THEN [p.slots[s] EXCEPT !.busy = TRUE, !.call = call[s]]
                      ELSE p.slots[s]
  /\ DOMAIN q.threads = DOMAIN p.threads
  /\ \A t \in DOMAIN p.threads : LET s == p.threads[t].slot IN q.threads[t] =
       IF s \in given /\ p.slots[s].thread = t
       THEN [p.threads[t] EXCEPT !.inbox = Append(@, call[s])] ELSE p.threads[t]

(* Free slots in order take waiting calls in order.                           *)
LEMMA HandOutIs ==
  ASSUME NEW p, Typed(p), p.pending # << >>
  PROVE  \E given \in SUBSET Slot : \E call : Drained(p, DrainPending(p), given, call)
<1> DEFINE free == {s \in Slot : ~terminated /\ Free(p, s)}
           below(s) == {t \in free : t <= s}
           rank(s) == Cardinality({t \in free : t <= s})
           given == {s \in free : rank(s) <= Len(p.pending)}
           call == [s \in Slot |-> p.pending[rank(s)]]
           posted(t) == p.threads[t].slot \in given /\ p.slots[p.threads[t].slot].thread = t
           q == DrainPending(p)
<1>1. /\ p.slots \in [Slot -> SlotRow] /\ p.pending \in Seq(Call)
      /\ p.threads \in Seq(ThreadRow) /\ p.outcome \in Outcome /\ p \in PoolState
  BY DEF Typed, PoolState
<1>2. IsFiniteSet(free)
  <2>1. IsFiniteSet(Slot)
    BY FS_Interval, PoolAssumption DEF Slot
  <2> QED BY <2>1, FS_Subset
<1>3. \A s \in free : rank(s) \in Nat \ {0}
  <2> TAKE s \in free
  <2>1. below(s) \in SUBSET free /\ s \in below(s)
    BY DEF Slot
  <2> HIDE DEF free
  <2>2. IsFiniteSet(below(s))
    BY <1>2, <2>1, FS_Subset
  <2>3. Cardinality(below(s)) \in Nat /\ Cardinality(below(s)) # 0
    BY <2>1, <2>2, FS_CardinalityType, FS_EmptySet
  <2> QED BY <2>3
<1>4. given \in SUBSET free /\ IsFiniteSet(given) /\ Cardinality(given) \in Nat
  <2>1. given \in SUBSET free
    OBVIOUS
  <2> HIDE DEF given, free
  <2> QED BY <1>2, <2>1, FS_Subset, FS_CardinalityType
<1>5. \A s \in given : s \in Slot /\ Free(p, s) /\ ~terminated /\ call[s] \in Call
  <2> TAKE s \in given
  <2>1. s \in free /\ rank(s) \in Nat \ {0} /\ rank(s) <= Len(p.pending)
    BY <1>3
  <2>2. rank(s) \in 1..Len(p.pending)
    BY <1>1, <2>1
  <2>3. p.pending[rank(s)] \in Call
    BY <1>1, <2>2, ElementOfSeq
  <2>4. s \in Slot /\ Free(p, s) /\ ~terminated
    BY <2>1
  <2> QED BY <2>3, <2>4
<1>6. /\ q.pending = SubSeq(p.pending, Cardinality(given) + 1, Len(p.pending))
      /\ q.slots = [s \in Slot |->
           IF s \in given THEN [p.slots[s] EXCEPT !.busy = TRUE, !.call = p.pending[rank(s)]]
                          ELSE p.slots[s]]
      /\ q.threads = [t \in DOMAIN p.threads |->
           IF posted(t)
           THEN [p.threads[t] EXCEPT
                   !.inbox = Append(@, p.pending[rank(p.threads[t].slot)])]
           ELSE p.threads[t]]
      /\ q.outcome = p.outcome
      /\ q = [slots |-> q.slots, pending |-> q.pending, threads |-> q.threads,
              outcome |-> q.outcome]
  <2> DEFINE rest == SubSeq(p.pending, Cardinality(given) + 1, Len(p.pending))
             rows == [s \in Slot |->
                        IF s \in given
                        THEN [p.slots[s] EXCEPT !.busy = TRUE, !.call = p.pending[rank(s)]]
                        ELSE p.slots[s]]
             posts == [t \in DOMAIN p.threads |->
                         IF posted(t)
                         THEN [p.threads[t] EXCEPT
                                 !.inbox = Append(@, p.pending[rank(p.threads[t].slot)])]
                         ELSE p.threads[t]]
  <2>1. q = [p EXCEPT !.pending = rest, !.slots = rows, !.threads = posts]
    BY DEF DrainPending
  <2> HIDE DEF rest, rows, posts, q
  <2>2. \E a, b, c : a = rest /\ b = rows /\ c = posts
    OBVIOUS
  <2>3. PICK a, b, c : a = rest /\ b = rows /\ c = posts
    BY <2>2
  <2>4. q = [p EXCEPT !.pending = a, !.slots = b, !.threads = c]
    BY <2>1, <2>3
  <2>5. /\ q.pending = a /\ q.slots = b /\ q.threads = c /\ q.outcome = p.outcome
        /\ q = [slots |-> b, pending |-> a, threads |-> c, outcome |-> p.outcome]
    BY <1>1, <2>4 DEF PoolState
  <2>6. /\ q.pending = rest /\ q.slots = rows /\ q.threads = posts /\ q.outcome = p.outcome
        /\ q = [slots |-> rows, pending |-> rest, threads |-> posts, outcome |-> p.outcome]
    BY <2>3, <2>5
  <2> QED BY <2>6 DEF rest, rows, posts
<1> HIDE DEF given, q, free, rank
<1>7. q.pending \in Seq(Call) /\ Len(q.pending) <= Len(p.pending)
  <2> DEFINE m == Cardinality(given) + 1
             n == Len(p.pending)
  <2>1. m \in Nat \ {0} /\ n \in Nat
    BY <1>1, <1>4
  <2>2. \A i \in m..n : p.pending[i] \in Call
    <3> TAKE i \in m..n
    <3>1. i \in 1..n
      BY <2>1
    <3> QED BY <1>1, <3>1, ElementOfSeq
  <2> HIDE DEF m
  <2>3. /\ SubSeq(p.pending, m, n) \in Seq(Call)
        /\ Len(SubSeq(p.pending, m, n)) = IF m <= n THEN n - m + 1 ELSE 0
    BY <2>1, <2>2, SubSeqProperties
  <2>4. Len(SubSeq(p.pending, m, n)) <= n
    BY <2>1, <2>3
  <2> QED BY <1>6, <2>3, <2>4 DEF m
<1>8. q.slots \in [Slot -> SlotRow]
  <2>1. ASSUME NEW s \in Slot PROVE q.slots[s] \in SlotRow
    <3>1. CASE s \in given
      <4>1. p.pending[rank(s)] \in Call
        BY <1>5, <3>1
      <4>2. q.slots[s] = [p.slots[s] EXCEPT !.busy = TRUE, !.call = p.pending[rank(s)]]
        BY <1>6, <3>1
      <4> QED BY <1>1, <4>1, <4>2 DEF SlotRow
    <3>2. CASE s \notin given
      BY <1>1, <1>6, <3>2
    <3> QED BY <3>1, <3>2
  <2>2. q.slots = [s \in Slot |-> q.slots[s]]
    BY <1>6
  <2> QED BY <2>1, <2>2
<1>9. q.threads \in Seq(ThreadRow) /\ DOMAIN q.threads = DOMAIN p.threads
  <2>1. ASSUME NEW t \in DOMAIN p.threads PROVE q.threads[t] \in ThreadRow
    <3>1. p.threads[t] \in ThreadRow
      BY <1>1, Rows
    <3>2. CASE posted(t)
      <4>1. p.pending[rank(p.threads[t].slot)] \in Call
        BY <1>5, <3>2
      <4>3. Append(p.threads[t].inbox, p.pending[rank(p.threads[t].slot)]) \in Seq(Call)
        BY <3>1, <4>1 DEF ThreadRow
      <4>2. q.threads[t] = [p.threads[t] EXCEPT
                              !.inbox = Append(@, p.pending[rank(p.threads[t].slot)])]
        BY <1>6, <3>2
      <4> QED BY <3>1, <4>2, <4>3 DEF ThreadRow
    <3>3. CASE ~posted(t)
      BY <1>6, <3>1, <3>3
    <3> QED BY <3>2, <3>3
  <2>2. DOMAIN q.threads = DOMAIN p.threads /\ q.threads = [t \in DOMAIN p.threads |-> q.threads[t]]
    BY <1>6
  <2>3. DOMAIN p.threads = 1..Len(p.threads) /\ Len(p.threads) \in Nat
    BY <1>1
  <2>4. q.threads \in [1..Len(p.threads) -> ThreadRow]
    BY <2>1, <2>2, <2>3
  <2>5. q.threads \in Seq(ThreadRow)
    BY <2>3, <2>4, SeqDef
  <2> QED BY <2>2, <2>5
<1>10. q \in PoolState
  BY <1>1, <1>6, <1>7, <1>8, <1>9 DEF PoolState
<1>11. \A s \in Slot : q.slots[s] =
         IF s \in given THEN [p.slots[s] EXCEPT !.busy = TRUE, !.call = call[s]]
                        ELSE p.slots[s]
  BY <1>6
<1>12. \A t \in DOMAIN p.threads : q.threads[t] =
         IF posted(t) THEN [p.threads[t] EXCEPT !.inbox = Append(@, call[p.threads[t].slot])]
                      ELSE p.threads[t]
  <2> TAKE t \in DOMAIN p.threads
  <2>1. p.threads[t].slot \in Slot
    BY <1>1, Rows
  <2> QED BY <1>6, <2>1
<1>13. Drained(p, q, given, call)
  <2> HIDE DEF call
  <2> QED BY <1>5, <1>6, <1>7, <1>9, <1>10, <1>11, <1>12 DEF Drained
<1>14. given \in SUBSET Slot
  BY <1>5
<1> QED BY <1>13, <1>14 DEF q

(* If none waits, nothing is done.                                            *)
LEMMA DrainIs ==
  ASSUME NEW p, Typed(p)
  PROVE  \E given \in SUBSET Slot : \E call : Drained(p, DrainPending(p), given, call)
<1>1. CASE p.pending # << >>
  BY <1>1, HandOutIs
<1>2. CASE p.pending = << >>
  <2>1. DrainPending(p) = p
    BY <1>2 DEF DrainPending
  <2>2. p \in PoolState /\ Len(p.pending) <= Len(p.pending)
    BY LenProperties DEF Typed, PoolState
  <2>3. Drained(p, p, {}, << >>)
    BY <2>2 DEF Drained
  <2> QED BY <2>1, <2>3
<1> QED BY <1>1, <1>2

(* What the functions leave alone: the slots' threads, and whether a thread   *)
(* lives and what it has said.                                                *)
Kept(p, q) ==
  /\ \A s \in Slot : q.slots[s].thread = p.slots[s].thread
  /\ DOMAIN q.threads = DOMAIN p.threads
  /\ \A t \in DOMAIN p.threads :
       /\ q.threads[t].slot = p.threads[t].slot /\ q.threads[t].alive = p.threads[t].alive
       /\ q.threads[t].outbox = p.threads[t].outbox

(* The pool stays sound if a slot's thread serves the slot's new row,         *)
LEMMA SlottedSound ==
  ASSUME NEW p, Typed(p), NEW done, Sound(p, done), NEW q, NEW s \in Slot, NEW row,
         Slotted(p, q, s, row), row.thread = p.slots[s].thread, Serves(Of(p, s), row, done)
  PROVE  Sound(q, done)
<1>1. Typed(q) /\ \A z \in Slot : q.slots[z] = IF z = s THEN row ELSE p.slots[z]
  BY SlottedIs
<1>2. \A z \in Slot : q.slots[z].thread = p.slots[z].thread
  BY <1>1
<1>3. q.threads = p.threads /\ q.outcome = p.outcome
  BY DEF Slotted
<1>4. \A t \in DOMAIN p.threads : p.threads[t].slot \in Slot
  BY Rows DEF Typed
<1>5. \A t \in DOMAIN q.threads :
        /\ q.threads[t].alive => ~terminated
        /\ Heard(q.threads[t]) \/ Current(q, t)
  BY <1>2, <1>3, <1>4 DEF Sound, Current
<1>6. ASSUME NEW z \in Slot PROVE Serves(Of(q, z), q.slots[z], done)
  <2>1. Of(q, z) = Of(p, z)
    BY <1>2, <1>3 DEF Of
  <2>2. CASE z = s
    BY <1>1, <2>1, <2>2
  <2>3. CASE z # s
    <3>1. q.slots[z] = p.slots[z]
      BY <1>1, <2>3
    <3> QED BY <2>1, <3>1 DEF Sound
  <2> QED BY <2>2, <2>3
<1> QED BY <1>3, <1>5, <1>6 DEF Sound

(* if a call is settled as done that is,                                      *)
LEMMA ResolveSound ==
  ASSUME NEW p, Typed(p), NEW done, Sound(p, done), NEW c \in Call \cup {Nobody},
         NEW result \in Result, result = "ok" => c \in done \cup {Nobody},
         NEW q, q = Resolve(p, c, result)
  PROVE  Sound(q, done)
<1>1. /\ Typed(q) /\ q.slots = p.slots /\ q.threads = p.threads /\ q.pending = p.pending
      /\ \A d \in Call : q.outcome[d] = p.outcome[d] \/ (d = c /\ q.outcome[d] = result)
  BY ResolveIs
<1>2. \A d \in Call : q.outcome[d] = "ok" => d \in done
  <2> SUFFICES ASSUME NEW d \in Call, q.outcome[d] = "ok" PROVE d \in done
    OBVIOUS
  <2>1. CASE q.outcome[d] = p.outcome[d]
    BY <2>1 DEF Sound
  <2>2. CASE d = c /\ q.outcome[d] = result
    BY <2>2, PoolAssumption
  <2> QED BY <1>1, <2>1, <2>2
<1> QED BY <1>1, <1>2 DEF Sound, Current, Of

(* and when waiting calls are given to free slots.                            *)
LEMMA DrainSound ==
  ASSUME NEW p, Typed(p), NEW q, q = DrainPending(p)
  PROVE  /\ Typed(q) /\ Kept(p, q)
         /\ \A done : Sound(p, done) => Sound(q, done)
<1>1. PICK given \in SUBSET Slot : \E call : Drained(p, q, given, call)
  BY DrainIs
<1>2. PICK call : Drained(p, q, given, call)
  BY <1>1
<1>3. /\ p \in PoolState /\ q \in PoolState /\ q.outcome = p.outcome
      /\ DOMAIN q.threads = DOMAIN p.threads /\ Len(q.pending) <= Len(p.pending)
      /\ Len(p.pending) <= MaxPending /\ p.slots \in [Slot -> SlotRow]
      /\ \A s \in Slot : p.slots[s].thread \in DOMAIN p.threads
                         /\ p.threads[p.slots[s].thread].slot = s
      /\ \A t \in DOMAIN p.threads : p.threads[t] \in ThreadRow /\ p.threads[t].slot \in Slot
  BY <1>2, Rows DEF Drained, Typed
<1>4. \A s \in Slot : /\ s \in given => ~p.slots[s].busy /\ call[s] \in Call
                      /\ q.slots[s].thread = p.slots[s].thread
                      /\ s \in given => q.slots[s].busy = TRUE /\ q.slots[s].call = call[s]
                      /\ s \notin given => q.slots[s] = p.slots[s]
  <2> TAKE s \in Slot
  <2>1. p.slots[s] \in SlotRow
    BY <1>3
  <2>2. CASE s \in given
    <3>1. q.slots[s] = [p.slots[s] EXCEPT !.busy = TRUE, !.call = call[s]]
      BY <1>2, <2>2 DEF Drained
    <3>2. ~p.slots[s].busy /\ call[s] \in Call
      BY <1>2, <2>2 DEF Drained, Free
    <3> QED BY <2>1, <2>2, <3>1, <3>2 DEF SlotRow
  <2>3. CASE s \notin given
    BY <1>2, <2>3 DEF Drained
  <2> QED BY <2>2, <2>3
<1>5. ASSUME NEW t \in DOMAIN p.threads
      PROVE  /\ q.threads[t].slot = p.threads[t].slot
             /\ q.threads[t].alive = p.threads[t].alive
             /\ q.threads[t].outbox = p.threads[t].outbox
             /\ p.threads[t].slot \notin given => q.threads[t] = p.threads[t]
             /\ p.threads[t].slot \in given /\ Current(p, t) =>
                  q.threads[t] = [p.threads[t] EXCEPT
                                    !.inbox = Append(@, call[p.threads[t].slot])]
  <2>1. p.threads[t] \in ThreadRow
    BY <1>3
  <2>2. CASE p.threads[t].slot \in given /\ Current(p, t)
    <3>1. q.threads[t] = [p.threads[t] EXCEPT !.inbox = Append(@, call[p.threads[t].slot])]
      BY <1>2, <2>2 DEF Drained, Current
    <3> QED BY <2>1, <2>2, <3>1 DEF ThreadRow
  <2>3. CASE ~(p.threads[t].slot \in given /\ Current(p, t))
    BY <1>2, <2>3 DEF Drained, Current
  <2> QED BY <2>2, <2>3
<1>6. Kept(p, q)
  BY <1>3, <1>4, <1>5 DEF Kept
<1>7. Typed(q)
  <2>1. Len(q.pending) <= MaxPending
    <3>1. Len(q.pending) \in Nat /\ Len(p.pending) \in Nat /\ MaxPending \in Nat
      BY <1>3, PoolAssumption, LenProperties DEF PoolState
    <3> QED BY <1>3, <3>1
  <2> QED BY <1>3, <1>6, <2>1 DEF Typed, Kept
<1>8. ASSUME NEW done, Sound(p, done), NEW s \in Slot
      PROVE  Serves(Of(q, s), q.slots[s], done)
  <2> DEFINE t == p.slots[s].thread
  <2>1. t \in DOMAIN p.threads /\ p.threads[t].slot = s /\ Current(p, t)
    BY <1>3 DEF Current
  <2>2. Of(p, s) = p.threads[t] /\ Of(q, s) = q.threads[t]
    BY <1>4 DEF Of
  <2>3. Serves(p.threads[t], p.slots[s], done)
    BY <1>8, <2>2 DEF Sound
  <2>4. CASE s \notin given
    <3>1. q.slots[s] = p.slots[s] /\ q.threads[t] = p.threads[t]
      BY <1>4, <1>5, <2>1, <2>4
    <3> HIDE DEF t
    <3> QED BY <2>2, <2>3, <3>1
  <2>5. CASE s \in given
    <3>1. p.threads[t] \in ThreadRow /\ p.slots[s] \in SlotRow
      BY <1>3, <2>1
    <3>2. /\ ~p.slots[s].busy /\ call[s] \in Call
          /\ q.slots[s].busy = TRUE /\ q.slots[s].call = call[s]
      BY <1>4, <2>5
    <3>3. q.threads[t] = [p.threads[t] EXCEPT !.inbox = Append(@, call[s])]
      BY <1>5, <2>1, <2>5
    <3> HIDE DEF t
    <3>4. Serves(q.threads[t], q.slots[s], done)
      BY <2>3, <3>1, <3>2, <3>3, GivenServes
    <3> QED BY <2>2, <3>4
  <2> QED BY <2>4, <2>5
<1>9. ASSUME NEW done, Sound(p, done) PROVE Sound(q, done)
  <2>1. \A t \in DOMAIN q.threads :
          /\ q.threads[t].alive => ~terminated
          /\ Heard(q.threads[t]) \/ Current(q, t)
    BY <1>3, <1>6, <1>9 DEF Sound, Kept, Current, Heard, OnlyLost
  <2> QED BY <1>3, <1>8, <1>9, <2>1 DEF Sound
<1> QED BY <1>6, <1>7, <1>9

(* A slot's row, with fields replaced.                                        *)
LEMMA RowIs ==
  ASSUME NEW p, Typed(p), NEW s \in Slot, NEW row \in SlotRow,
         NEW q, q = [p EXCEPT !.slots[s] = row]
  PROVE  Slotted(p, q, s, row)
<1>1. p \in PoolState /\ p.slots \in [Slot -> SlotRow]
  BY DEF Typed, PoolState
<1>2. q.slots = [p.slots EXCEPT ![s] = row]
  BY <1>1 DEF PoolState
<1>3. /\ q.threads = p.threads /\ q.pending = p.pending /\ q.outcome = p.outcome
      /\ q = [slots |-> q.slots, pending |-> p.pending, threads |-> p.threads,
              outcome |-> p.outcome]
  BY <1>1 DEF PoolState
<1>4. q.slots \in [Slot -> SlotRow]
  BY <1>1, <1>2
<1>5. q \in PoolState
  BY <1>1, <1>3, <1>4 DEF PoolState
<1> QED BY <1>2, <1>3, <1>5 DEF Slotted

(* _settle: an idle thread's slot is freed, and the waiting calls are given.  *)
LEMMA SettleIs ==
  ASSUME NEW p, Typed(p), NEW s \in Slot, NEW result \in Result,
         NEW q, q = Settle(p, s, result)
  PROVE  /\ Typed(q) /\ Kept(p, q)
         /\ \A done : Sound(p, done) /\ Idle(Of(p, s))
                      /\ (result = "ok" => p.slots[s].call \in done \cup {Nobody})
              => Sound(q, done)
<1> DEFINE freed == [p EXCEPT !.slots[s].busy = FALSE, !.slots[s].call = Nobody]
           row == [p.slots[s] EXCEPT !.busy = FALSE, !.call = Nobody]
           call == p.slots[s].call
<1>1. p \in PoolState /\ p.slots[s] \in SlotRow /\ call \in Call \cup {Nobody}
  BY DEF Typed, PoolState, SlotRow
<1>2. row \in SlotRow /\ row.thread = p.slots[s].thread
  BY <1>1 DEF SlotRow
<1>3. freed = [p EXCEPT !.slots[s] = row]
  BY <1>1 DEF PoolState, SlotRow
<1>4. q = DrainPending(Resolve(freed, call, result))
  BY DEF Settle
<1> HIDE DEF freed, row, call
<1>5. Slotted(p, freed, s, row)
  BY <1>2, <1>3, RowIs
<1>6. Typed(freed) /\ \A z \in Slot : freed.slots[z] = IF z = s THEN row ELSE p.slots[z]
  BY <1>2, <1>5, SlottedIs
<1>7. PICK r : r = Resolve(freed, call, result)
  OBVIOUS
<1>8. Typed(r) /\ r.slots = freed.slots /\ r.threads = freed.threads
  BY <1>1, <1>6, <1>7, ResolveIs
<1>9. q = DrainPending(r)
  BY <1>4, <1>7
<1>10. /\ Typed(q) /\ Kept(r, q)
       /\ \A done : Sound(r, done) => Sound(q, done)
  BY <1>8, <1>9, DrainSound
<1>11. Kept(p, q)
  <2>1. freed.threads = p.threads
    BY <1>5 DEF Slotted
  <2>2. \A z \in Slot : freed.slots[z].thread = p.slots[z].thread
    BY <1>2, <1>6
  <2> QED BY <1>8, <1>10, <2>1, <2>2 DEF Kept
<1>12. ASSUME NEW done, Sound(p, done), Idle(Of(p, s)),
              result = "ok" => call \in done \cup {Nobody}
       PROVE  Sound(q, done)
  <2>1. Serves(Of(p, s), row, done)
    <3>1. Serves(Of(p, s), p.slots[s], done)
      BY <1>12 DEF Sound
    <3> QED BY <1>12, <3>1, IdleServes
  <2>2. Sound(freed, done)
    BY <1>2, <1>5, <1>12, <2>1, SlottedSound
  <2>3. Sound(r, done)
    BY <1>1, <1>6, <1>7, <1>12, <2>2, ResolveSound
  <2> QED BY <1>10, <2>3
<1> QED BY <1>10, <1>11, <1>12 DEF call

(* _spawn: a dead thread that was heard out is replaced.                      *)
LEMMA SpawnIs ==
  ASSUME NEW p, Typed(p), NEW s \in Slot, NEW q, q = Spawn(p, s)
  PROVE  /\ Typed(q)
         /\ \A done : Sound(p, done) /\ ~terminated /\ Heard(Of(p, s)) => Sound(q, done)
<1> DEFINE th == NewThread(s, "loading")
           n == Len(p.threads) + 1
           row == [p.slots[s] EXCEPT !.thread = n, !.busy = FALSE]
<1>1. /\ p \in PoolState /\ p.slots \in [Slot -> SlotRow] /\ p.threads \in Seq(ThreadRow)
      /\ p.slots[s] \in SlotRow /\ Len(p.threads) \in Nat
      /\ DOMAIN p.threads = 1..Len(p.threads)
      /\ \A t \in DOMAIN p.threads : p.threads[t].slot \in Slot
      /\ \A z \in Slot : /\ p.slots[z].thread \in DOMAIN p.threads
                         /\ p.threads[p.slots[z].thread].slot = z
  BY Rows DEF Typed
<1>2. row \in SlotRow /\ row.thread = n
  <2>1. n \in Nat
    BY <1>1
  <2> HIDE DEF n
  <2> QED BY <1>1, <2>1 DEF SlotRow
<1>3. th \in ThreadRow /\ \A done : Serves(th, row, done)
  BY NewServes
<1>4. th.slot = s
  BY DEF NewThread
<1>5. q = [p EXCEPT !.threads = Append(p.threads, th), !.slots[s] = row]
  <2>1. q = [p EXCEPT !.threads = Append(p.threads, th), !.slots[s].thread = n,
                      !.slots[s].busy = FALSE]
    BY DEF Spawn
  <2> HIDE DEF th, n
  <2> QED BY <1>1, <2>1 DEF PoolState, SlotRow
<1> HIDE DEF th, row
<1>6. /\ q.threads = Append(p.threads, th) /\ q.slots = [p.slots EXCEPT ![s] = row]
      /\ q.pending = p.pending /\ q.outcome = p.outcome
      /\ q = [slots |-> q.slots, pending |-> p.pending, threads |-> q.threads,
              outcome |-> p.outcome]
  BY <1>1, <1>5 DEF PoolState
<1>7. /\ q.threads \in Seq(ThreadRow) /\ DOMAIN q.threads = 1..n
      /\ q.threads[n] = th /\ \A t \in DOMAIN p.threads : q.threads[t] = p.threads[t]
  BY <1>1, <1>3, <1>6, AppendProperties
<1>8. /\ q.slots \in [Slot -> SlotRow] /\ q.slots[s] = row
      /\ \A z \in Slot \ {s} : q.slots[z] = p.slots[z]
  BY <1>1, <1>2, <1>6
<1>9. q \in PoolState
  BY <1>1, <1>6, <1>7, <1>8 DEF PoolState
<1>10. \A t \in DOMAIN p.threads : t \in DOMAIN q.threads /\ t # n
  BY <1>1, <1>7
<1>11. n \in DOMAIN q.threads /\ \A t \in DOMAIN q.threads : t = n \/ t \in DOMAIN p.threads
  BY <1>1, <1>7
<1> HIDE DEF n
<1>12. ASSUME NEW z \in Slot
       PROVE  /\ q.slots[z].thread \in DOMAIN q.threads
              /\ q.threads[q.slots[z].thread].slot = z
  <2>1. CASE z = s
    BY <1>2, <1>4, <1>7, <1>8, <1>11, <2>1
  <2>2. CASE z # s
    <3>1. q.slots[z] = p.slots[z] /\ p.slots[z].thread \in DOMAIN p.threads
      BY <1>1, <1>8, <2>2
    <3> QED BY <1>1, <1>7, <1>10, <3>1
  <2> QED BY <2>1, <2>2
<1>13. Typed(q)
  BY <1>6, <1>9, <1>12 DEF Typed
<1>14. ASSUME NEW done, Sound(p, done), ~terminated, Heard(Of(p, s)) PROVE Sound(q, done)
  <2>1. ASSUME NEW t \in DOMAIN q.threads, ~Heard(q.threads[t]) PROVE Current(q, t)
    <3>1. CASE t = n
      BY <1>2, <1>4, <1>7, <1>8, <3>1 DEF Current
    <3>2. CASE t # n
      <4>1. t \in DOMAIN p.threads /\ q.threads[t] = p.threads[t]
        BY <1>7, <1>11, <3>2
      <4>2. Current(p, t)
        BY <1>14, <2>1, <4>1 DEF Sound
      <4>3. p.threads[t].slot # s
        BY <1>14, <2>1, <4>1, <4>2 DEF Of, Current
      <4>4. q.slots[p.threads[t].slot] = p.slots[p.threads[t].slot]
        BY <1>1, <1>8, <4>1, <4>3
      <4> QED BY <4>1, <4>2, <4>4 DEF Current
    <3> QED BY <3>1, <3>2
  <2>2. ASSUME NEW z \in Slot PROVE Serves(Of(q, z), q.slots[z], done)
    <3>1. CASE z = s
      BY <1>2, <1>3, <1>7, <1>8, <3>1 DEF Of
    <3>2. CASE z # s
      <4>1. q.slots[z] = p.slots[z] /\ p.slots[z].thread \in DOMAIN p.threads
        BY <1>1, <1>8, <3>2
      <4>2. Of(q, z) = Of(p, z)
        BY <1>7, <4>1 DEF Of
      <4>3. Serves(Of(p, z), p.slots[z], done)
        BY <1>14 DEF Sound
      <4> QED BY <4>1, <4>2, <4>3
    <3> QED BY <3>1, <3>2
  <2>3. \A c \in Call : q.outcome[c] = "ok" => c \in done
    BY <1>6, <1>14 DEF Sound
  <2> QED BY <1>14, <2>1, <2>2, <2>3 DEF Sound
<1> QED BY <1>13, <1>14

(* _onWorkerLost, for a thread that is over.                                  *)
LEMMA LostIs ==
  ASSUME NEW p, Typed(p), NEW s \in Slot, NEW q, q = WorkerLost(p, s)
  PROVE  /\ Typed(q)
         /\ \A done : Sound(p, done) /\ Heard(Of(p, s)) => Sound(q, done)
<1> DEFINE settled == Settle(p, s, "failed")
           row == [settled.slots[s] EXCEPT !.respawns = @ + 1]
           counted == [settled EXCEPT !.slots[s].respawns = @ + 1]
           last == [row EXCEPT !.dead = TRUE]
           given == [counted EXCEPT !.slots[s].dead = TRUE]
<1>1. CASE terminated \/ p.slots[s].dead
  BY <1>1 DEF WorkerLost
<1>2. CASE ~(terminated \/ p.slots[s].dead)
  <2>1. /\ GivesUp(counted.slots[s].respawns) => q = DrainPending(given)
        /\ ~GivesUp(counted.slots[s].respawns) => q = Spawn(counted, s)
    BY <1>2 DEF WorkerLost
  <2>2. "failed" \in Result /\ "failed" # "ok"
    BY DEF Result
  <2>3. /\ Typed(settled) /\ Kept(p, settled)
        /\ \A done : Sound(p, done) /\ Idle(Of(p, s)) => Sound(settled, done)
    BY <2>2, SettleIs
  <2>4. settled \in PoolState /\ settled.slots \in [Slot -> SlotRow]
        /\ settled.slots[s] \in SlotRow
    BY <2>3 DEF Typed, PoolState
  <2>5. /\ row \in SlotRow /\ row.thread = settled.slots[s].thread
        /\ row.busy = settled.slots[s].busy /\ row.call = settled.slots[s].call
    <3> HIDE DEF settled
    <3> QED BY <2>4 DEF SlotRow
  <2>6. counted = [settled EXCEPT !.slots[s] = row]
    <3> HIDE DEF settled
    <3> QED BY <2>4 DEF PoolState, SlotRow
  <2> HIDE DEF settled, row, counted
  <2>7. Slotted(settled, counted, s, row)
    BY <2>3, <2>5, <2>6, RowIs
  <2>8. Typed(counted) /\ \A z \in Slot : counted.slots[z] = IF z = s THEN row ELSE settled.slots[z]
    BY <2>3, <2>5, <2>7, SlottedIs
  <2>9. counted.threads = settled.threads /\ counted.slots[s] = row
    BY <2>7, <2>8 DEF Slotted
  <2>10. Of(counted, s) = Of(settled, s)
    BY <2>5, <2>9 DEF Of
  <2>11. ASSUME Heard(Of(p, s)) PROVE Heard(Of(counted, s))
    <3>1. p.slots[s].thread \in DOMAIN p.threads
      BY DEF Typed
    <3>2. Of(counted, s).alive = Of(p, s).alive /\ Of(counted, s).outbox = Of(p, s).outbox
      BY <2>3, <2>10, <3>1 DEF Kept, Of
    <3> QED BY <2>11, <3>2 DEF Heard
  <2>12. ASSUME NEW done, Sound(p, done), Heard(Of(p, s)) PROVE Sound(counted, done)
    <3>1. Idle(Of(p, s))
      BY <2>12 DEF Heard, OnlyLost, Idle, Works, Answers
    <3>2. Sound(settled, done)
      BY <2>3, <2>12, <3>1
    <3>3. Serves(Of(settled, s), settled.slots[s], done)
      BY <3>2 DEF Sound
    <3>4. Serves(Of(settled, s), row, done)
      BY <2>5, <3>3 DEF Serves
    <3> QED BY <2>3, <2>5, <2>7, <3>2, <3>4, SlottedSound
  <2>13. CASE GivesUp(counted.slots[s].respawns)
    <3>1. /\ last \in SlotRow /\ last.thread = row.thread
          /\ last.busy = row.busy /\ last.call = row.call
      BY <2>5 DEF SlotRow
    <3>2. counted \in PoolState /\ counted.slots \in [Slot -> SlotRow]
      BY <2>8 DEF Typed, PoolState
    <3>3. given = [counted EXCEPT !.slots[s] = last]
      BY <2>9, <3>2 DEF PoolState, SlotRow
    <3> HIDE DEF last, given
    <3>4. Slotted(counted, given, s, last)
      BY <2>8, <3>1, <3>3, RowIs
    <3>5. Typed(given)
      BY <2>8, <2>9, <3>1, <3>4, SlottedIs
    <3>6. ASSUME NEW done, Sound(counted, done) PROVE Sound(given, done)
      <4>1. Serves(Of(counted, s), counted.slots[s], done)
        BY <3>6 DEF Sound
      <4>2. Serves(Of(counted, s), last, done)
        BY <2>9, <3>1, <4>1 DEF Serves
      <4> QED BY <2>8, <2>9, <3>1, <3>4, <3>6, <4>2, SlottedSound
    <3>7. q = DrainPending(given)
      BY <2>1, <2>13
    <3> QED BY <2>12, <3>5, <3>6, <3>7, DrainSound
  <2>14. CASE ~GivesUp(counted.slots[s].respawns)
    <3>1. q = Spawn(counted, s)
      BY <2>1, <2>14
    <3> QED BY <1>2, <2>8, <2>11, <2>12, <3>1, SpawnIs
  <2> QED BY <2>13, <2>14
<1> QED BY <1>1, <1>2

(* A thread's answer.                                                         *)
LEMMA ReplyIs ==
  ASSUME NEW p, Typed(p), NEW s \in Slot, NEW kind \in Word, NEW q, q = Reply(p, s, kind)
  PROVE  /\ Typed(q)
         /\ \A done : Sound(p, done) /\ Idle(Of(p, s))
                      /\ (kind = "done" => p.slots[s].call \in done \cup {Nobody})
              => Sound(q, done)
<1> DEFINE row == [p.slots[s] EXCEPT !.respawns = 0]
           reset == [p EXCEPT !.slots[s].respawns = 0]
           result == IF kind = "done" THEN "ok" ELSE "failed"
<1>1. p \in PoolState /\ p.slots \in [Slot -> SlotRow] /\ p.slots[s] \in SlotRow
  BY DEF Typed, PoolState
<1>2. /\ row \in SlotRow /\ row.thread = p.slots[s].thread
      /\ row.busy = p.slots[s].busy /\ row.call = p.slots[s].call
  BY <1>1 DEF SlotRow
<1>3. reset = [p EXCEPT !.slots[s] = row]
  BY <1>1 DEF PoolState, SlotRow
<1>4. q = Settle(reset, s, result)
  BY DEF Reply
<1>5. result \in Result /\ (result = "ok" => kind = "done")
  BY DEF Result
<1> HIDE DEF row, reset, result
<1>6. Slotted(p, reset, s, row)
  BY <1>2, <1>3, RowIs
<1>7. Typed(reset) /\ \A z \in Slot : reset.slots[z] = IF z = s THEN row ELSE p.slots[z]
  BY <1>2, <1>6, SlottedIs
<1>8. reset.slots[s] = row /\ reset.threads = p.threads
  BY <1>6, <1>7 DEF Slotted
<1>9. Of(reset, s) = Of(p, s)
  BY <1>2, <1>8 DEF Of
<1>10. /\ Typed(q)
       /\ \A done : Sound(reset, done) /\ Idle(Of(reset, s))
                    /\ (result = "ok" => reset.slots[s].call \in done \cup {Nobody})
            => Sound(q, done)
  BY <1>4, <1>5, <1>7, SettleIs
<1>11. ASSUME NEW done, Sound(p, done), Idle(Of(p, s)),
              kind = "done" => p.slots[s].call \in done \cup {Nobody}
       PROVE  Sound(q, done)
  <2>1. Serves(Of(p, s), p.slots[s], done)
    BY <1>11 DEF Sound
  <2>2. Serves(Of(p, s), row, done)
    BY <1>11, <2>1, IdleServes
  <2>3. Sound(reset, done)
    BY <1>2, <1>6, <1>11, <2>2, SlottedSound
  <2>4. result = "ok" => reset.slots[s].call \in done \cup {Nobody}
    BY <1>2, <1>5, <1>8, <1>11
  <2> QED BY <1>9, <1>10, <1>11, <2>3, <2>4
<1> QED BY <1>10, <1>11

-----------------------------------------------------------------------------
(* The parent's steps. *)

(* The state after a handler is what its functions return.                    *)
LEMMA BecomesIs ==
  ASSUME NEW q, Typed(q), Becomes(q)
  PROVE  /\ Typed(Pool)'
         /\ \A done : Sound(q, done) /\ terminated' = terminated => Sound(Pool, done)'
<1>1. /\ slots' = q.slots /\ pending' = q.pending /\ threads' = q.threads
      /\ outcome' = q.outcome /\ q \in PoolState
  BY DEF Becomes, Typed
<1>2. q = [slots |-> q.slots, pending |-> q.pending, threads |-> q.threads,
           outcome |-> q.outcome]
  BY <1>1 DEF PoolState
<1>3. Pool' = q
  BY <1>1, <1>2 DEF Pool
<1>4. Typed(Pool)'
  BY <1>3 DEF Typed
<1>5. ASSUME NEW done, Sound(q, done), terminated' = terminated PROVE Sound(Pool, done)'
  BY <1>3, <1>5 DEF Sound, Current, Of
<1> QED BY <1>4, <1>5

(* run: the call waits, or it is refused.                                     *)
LEMMA RunStep ==
  ASSUME TypeInv, NEW c \in Call, Run(c)
  PROVE  TypeInv' /\ (Sound(Pool, returned) => Sound(Pool, returned)')
<1> DEFINE waiting == [Pool EXCEPT !.outcome[c] = "waiting"]
           more == [waiting EXCEPT !.pending = Append(@, c)]
<1>1. /\ Full \/ NoLiveSlot => Becomes(Resolve(waiting, c, "failed"))
      /\ ~(Full \/ NoLiveSlot) => Becomes(DrainPending(more))
      /\ UNCHANGED <<terminated, losses, returned, misled>>
  BY DEF Run
<1>2. /\ Pool \in PoolState /\ Typed(Pool) /\ Pool.outcome \in Outcome
      /\ Pool.pending = pending /\ pending \in Seq(Call) /\ Len(pending) <= MaxPending
  BY DEF TypeInv, Typed, PoolState, Pool
<1>3. /\ waiting.slots = Pool.slots /\ waiting.threads = Pool.threads
      /\ waiting.pending = pending /\ waiting.outcome = [Pool.outcome EXCEPT ![c] = "waiting"]
      /\ waiting \in PoolState
  BY <1>2 DEF Pool, PoolState, Outcome
<1>4. Typed(waiting)
  BY <1>2, <1>3 DEF Typed
<1>5. \A d \in Call : waiting.outcome[d] = "ok" => Pool.outcome[d] = "ok"
  BY <1>2, <1>3 DEF Outcome
<1> HIDE DEF waiting
<1>6. Sound(Pool, returned) => Sound(waiting, returned)
  BY <1>3, <1>5 DEF Sound, Current, Of
<1>7. CASE Full \/ NoLiveSlot
  <2>1. "failed" \in Result /\ "failed" # "ok"
    BY DEF Result
  <2>2. PICK q : q = Resolve(waiting, c, "failed")
    OBVIOUS
  <2>3. Typed(q) /\ Becomes(q)
    BY <1>1, <1>4, <1>7, <2>1, <2>2, ResolveIs
  <2>4. Sound(Pool, returned) => Sound(q, returned)
    BY <1>4, <1>6, <2>1, <2>2, ResolveSound
  <2> QED BY <1>1, <2>3, <2>4, BecomesIs DEF TypeInv
<1>8. CASE ~(Full \/ NoLiveSlot)
  <2>1. more = [slots |-> waiting.slots, pending |-> Append(pending, c),
                threads |-> waiting.threads, outcome |-> waiting.outcome]
    <3>1. PICK list : list = Append(pending, c)
      OBVIOUS
    <3>2. more = [waiting EXCEPT !.pending = list]
      BY <1>3, <3>1
    <3> HIDE DEF more
    <3>3. more = [slots |-> waiting.slots, pending |-> list,
                  threads |-> waiting.threads, outcome |-> waiting.outcome]
      BY <1>3, <3>2, Replaced
    <3> QED BY <3>1, <3>3
  <2>2. Append(pending, c) \in Seq(Call) /\ Len(Append(pending, c)) = Len(pending) + 1
    BY <1>2, AppendProperties
  <2>3. Len(pending) + 1 <= MaxPending
    BY <1>2, <1>8, PoolAssumption, LenProperties DEF Full
  <2> HIDE DEF more
  <2>4. more \in PoolState /\ Len(more.pending) <= MaxPending
    BY <1>3, <2>1, <2>2, <2>3 DEF PoolState
  <2>5. Typed(more)
    BY <1>4, <2>1, <2>4 DEF Typed
  <2>6. Sound(Pool, returned) => Sound(more, returned)
    BY <1>6, <2>1 DEF Sound, Current, Of
  <2>7. PICK q : q = DrainPending(more)
    OBVIOUS
  <2>8. /\ Typed(q) /\ \A done : Sound(more, done) => Sound(q, done)
    BY <2>5, <2>7, DrainSound
  <2>9. Becomes(q)
    BY <1>1, <1>8, <2>7
  <2> QED BY <1>1, <2>6, <2>8, <2>9, BecomesIs DEF TypeInv
<1> QED BY <1>7, <1>8

(* The parent handles the next event of a thread.                             *)
LEMMA ReceiveStep ==
  ASSUME TypeInv, NEW t \in DOMAIN threads, Receive(t)
  PROVE  TypeInv' /\ (~misled' /\ Sound(Pool, returned) => Sound(Pool, returned)')
<1> DEFINE th == threads[t]
           s == th.slot
           new == [th EXCEPT !.outbox = Tail(@)]
           taken == [Pool EXCEPT !.threads[t].outbox = Tail(@)]
<1>1. /\ th.outbox # << >> /\ UNCHANGED <<terminated, losses, returned>>
      /\ Becomes(IF Head(th.outbox) = "lost" THEN WorkerLost(taken, s)
                 ELSE Reply(taken, s, Head(th.outbox)))
  BY DEF Receive
<1>2. /\ Pool \in PoolState /\ Typed(Pool) /\ Pool.threads = threads
      /\ threads \in Seq(ThreadRow) /\ DOMAIN threads = 1..Len(threads)
      /\ th \in ThreadRow /\ s \in Slot
  BY Rows DEF TypeInv, Typed, Pool
<1>3. th.outbox \in Seq(Word) /\ Head(th.outbox) \in Word /\ Tail(th.outbox) \in Seq(Word)
      /\ Head(th.outbox) = th.outbox[1]
  BY <1>1, <1>2, HeadTailProperties DEF ThreadRow
<1>4. /\ new \in ThreadRow /\ new.slot = s /\ new.alive = th.alive
      /\ new.outbox = Tail(th.outbox) /\ new.running = th.running /\ new.inbox = th.inbox
  BY <1>2, <1>3 DEF ThreadRow
<1>5. taken = [slots |-> slots, pending |-> pending,
               threads |-> [threads EXCEPT ![t] = new], outcome |-> outcome]
  <2>1. PICK list : list = [threads EXCEPT ![t] = new]
    OBVIOUS
  <2>2. taken = [Pool EXCEPT !.threads = list]
    BY <1>2, <2>1 DEF Pool, PoolState, ThreadRow
  <2> HIDE DEF taken
  <2>3. taken = [slots |-> Pool.slots, pending |-> Pool.pending, threads |-> list,
                 outcome |-> Pool.outcome]
    BY <1>2, <2>2, Replaced
  <2> QED BY <2>1, <2>3 DEF Pool
<1> HIDE DEF new, taken
<1>6. /\ taken.threads \in Seq(ThreadRow) /\ DOMAIN taken.threads = DOMAIN threads
      /\ taken.threads[t] = new
      /\ \A u \in DOMAIN threads : u # t => taken.threads[u] = threads[u]
  BY <1>2, <1>4, <1>5, ExceptSeq
<1>7. \A u \in DOMAIN threads : taken.threads[u].slot = threads[u].slot
  BY <1>4, <1>6
<1>8. Typed(taken)
  <2>1. taken \in PoolState
    BY <1>2, <1>5, <1>6 DEF Pool, PoolState
  <2> QED BY <1>2, <1>5, <1>6, <1>7, <2>1 DEF Typed, Pool
<1>9. ASSUME Sound(Pool, returned), slots[s].thread = t
      PROVE  /\ Sound(taken, returned) /\ Idle(Of(taken, s))
             /\ th.outbox[1] = "lost" => Heard(Of(taken, s))
             /\ th.outbox[1] = "done" => taken.slots[s].call \in returned \cup {Nobody}
  <2>1. slots[s].thread = t
    BY <1>9
  <2>2. Serves(th, slots[s], returned)
    BY <1>2, <1>9, <2>1 DEF Sound, Of, Pool
  <2>3. /\ Serves(new, slots[s], returned) /\ Idle(new)
        /\ th.outbox[1] = "lost" => Heard(new)
    BY <1>1, <1>2, <1>4, <2>2, TakenServes
  <2>4. Of(taken, s) = new
    BY <1>5, <1>6, <2>1 DEF Of
  <2>5. ASSUME NEW u \in DOMAIN taken.threads
        PROVE  /\ taken.threads[u].alive => ~terminated
               /\ Heard(taken.threads[u]) \/ Current(taken, u)
    <3>1. Current(taken, u) <=> Current(Pool, u)
      BY <1>5, <1>6, <1>7 DEF Current, Pool
    <3>2. CASE u = t
      <4>1. Current(taken, u)
        BY <1>2, <2>1, <3>1, <3>2 DEF Current, Pool
      <4>2. new.alive => ~terminated
        BY <1>2, <1>4, <1>9 DEF Sound
      <4> QED BY <1>6, <3>2, <4>1, <4>2
    <3>3. CASE u # t
      BY <1>2, <1>6, <1>9, <3>1, <3>3 DEF Sound
    <3> QED BY <3>2, <3>3
  <2>6. ASSUME NEW z \in Slot PROVE Serves(Of(taken, z), taken.slots[z], returned)
    <3>1. CASE z = s
      BY <1>5, <2>3, <2>4, <3>1
    <3>2. CASE z # s
      <4>1. slots[z].thread \in DOMAIN threads /\ slots[z].thread # t
        BY <1>2, <3>2 DEF Typed, Pool
      <4>2. Of(taken, z) = Of(Pool, z)
        BY <1>5, <1>6, <4>1 DEF Of, Pool
      <4> QED BY <1>5, <1>9, <4>2 DEF Sound, Pool
    <3> QED BY <3>1, <3>2
  <2>7. Sound(taken, returned)
    BY <1>5, <1>9, <2>5, <2>6 DEF Sound, Pool
  <2>8. th.outbox[1] = "done" => taken.slots[s].call \in returned \cup {Nobody}
    BY <1>1, <1>5, <2>2 DEF Serves, Answers
  <2> QED BY <2>3, <2>4, <2>7, <2>8
<1>10. ASSUME Sound(Pool, returned), slots[s].thread # t
       PROVE  Head(th.outbox) = "lost" /\ Sound(taken, returned)
  <2>1. Heard(th)
    BY <1>2, <1>10 DEF Sound, Current, Pool
  <2>2. th.outbox[1] = "lost" /\ \A i \in 2..Len(th.outbox) : th.outbox[i] = "lost"
    <3>1. ~Answers(th) /\ \A i \in 2..Len(th.outbox) : th.outbox[i] = "lost"
      BY <1>3, <2>1, NoAnswer DEF Heard
    <3> QED BY <1>1, <3>1 DEF Answers
  <2>3. Heard(new)
    <3>1. OnlyLost(new.outbox)
      BY <1>1, <1>3, <1>4, <2>2, TailOf
    <3> QED BY <1>4, <2>1, <3>1 DEF Heard
  <2>4. ASSUME NEW u \in DOMAIN taken.threads
        PROVE  /\ taken.threads[u].alive => ~terminated
               /\ Heard(taken.threads[u]) \/ Current(taken, u)
    <3>1. Current(taken, u) <=> Current(Pool, u)
      BY <1>5, <1>6, <1>7 DEF Current, Pool
    <3>2. CASE u = t
      BY <1>6, <2>3, <3>2 DEF Heard
    <3>3. CASE u # t
      BY <1>2, <1>6, <1>10, <3>1, <3>3 DEF Sound
    <3> QED BY <3>2, <3>3
  <2>5. ASSUME NEW z \in Slot PROVE Serves(Of(taken, z), taken.slots[z], returned)
    <3>1. slots[z].thread \in DOMAIN threads /\ slots[z].thread # t
      BY <1>2, <1>10 DEF Typed, Pool
    <3>2. Of(taken, z) = Of(Pool, z)
      BY <1>5, <1>6, <3>1 DEF Of, Pool
    <3> QED BY <1>5, <1>10, <3>2 DEF Sound, Pool
  <2>6. Sound(taken, returned)
    BY <1>5, <1>10, <2>4, <2>5 DEF Sound, Pool
  <2> QED BY <1>3, <2>2, <2>6
<1>11. /\ misled' \in BOOLEAN
       /\ ~misled' => \/ Head(th.outbox) # "lost" \/ slots[s].thread = t
                      \/ terminated \/ taken.slots[s].dead
  BY <1>1, <1>5 DEF Receive, Misleads, TypeInv
<1>12. slots[s].thread = t \/ slots[s].thread # t
  OBVIOUS
<1> HIDE DEF th, s
<1>13. CASE Head(th.outbox) = "lost"
  <2>1. PICK q : q = WorkerLost(taken, s)
    OBVIOUS
  <2>2. /\ Typed(q) /\ Becomes(q)
        /\ \A done : Sound(taken, done) /\ Heard(Of(taken, s)) => Sound(q, done)
    BY <1>1, <1>2, <1>8, <1>13, <2>1, LostIs
  <2>3. ASSUME ~misled', Sound(Pool, returned) PROVE Sound(q, returned)
    <3>1. CASE slots[s].thread = t
      BY <1>3, <1>9, <1>13, <2>2, <2>3, <3>1
    <3>2. CASE slots[s].thread # t
      <4>1. q = taken
        BY <1>11, <1>13, <2>1, <2>3, <3>2 DEF WorkerLost
      <4> QED BY <1>10, <2>3, <3>2, <4>1
    <3> QED BY <1>12, <3>1, <3>2
  <2> QED BY <1>1, <1>11, <2>2, <2>3, BecomesIs DEF TypeInv
<1>14. CASE Head(th.outbox) # "lost"
  <2>1. PICK q : q = Reply(taken, s, Head(th.outbox))
    OBVIOUS
  <2>2. /\ Typed(q) /\ Becomes(q)
        /\ \A done : Sound(taken, done) /\ Idle(Of(taken, s))
                     /\ (Head(th.outbox) = "done" => taken.slots[s].call \in done \cup {Nobody})
             => Sound(q, done)
    BY <1>1, <1>2, <1>3, <1>8, <1>14, <2>1, ReplyIs
  <2>3. Sound(Pool, returned) => Sound(q, returned)
    BY <1>3, <1>9, <1>10, <1>12, <1>14, <2>2
  <2> QED BY <1>1, <1>11, <2>2, <2>3, BecomesIs DEF TypeInv
<1> QED BY <1>13, <1>14

(* A thread that is stopped.                                                  *)
LEMMA StoppedIs ==
  ASSUME NEW th \in ThreadRow, NEW new, new = Stopped(th)
  PROVE  /\ new \in ThreadRow /\ new.slot = th.slot /\ ~new.alive
         /\ ~th.alive => new = th
         /\ th.alive => new.outbox = Append(th.outbox, "lost")
<1>1. th.outbox \in Seq(Word) /\ "lost" \in Word
  BY DEF ThreadRow, Word
<1>2. Append(th.outbox, "lost") \in Seq(Word)
  BY <1>1, AppendProperties
<1> QED BY <1>2 DEF Stopped, ThreadRow

(* A living thread's last events are that it is lost.                         *)
LEMMA LostLast ==
  ASSUME NEW th \in ThreadRow, Orderly(th), th.alive, NEW new, ~new.alive,
         new.outbox \in Seq(Word), Len(new.outbox) >= Len(th.outbox),
         \A i \in Len(th.outbox) + 1..Len(new.outbox) : new.outbox[i] = "lost",
         \A i \in 1..Len(th.outbox) : new.outbox[i] = th.outbox[i]
  PROVE  /\ Orderly(new)
         /\ Answers(new) => Answers(th) /\ new.outbox[1] = th.outbox[1]
<1>1. th.outbox \in Seq(Word)
  BY DEF ThreadRow
<1>2. PICK n \in Nat, m \in Nat : n = Len(th.outbox) /\ m = Len(new.outbox)
  BY <1>1, LenProperties
<1>3. n <= 1 /\ m >= n
  BY <1>2 DEF Orderly
<1>4. \A i \in 2..m : i \in n + 1..m
  BY <1>3
<1>5. Orderly(new)
  BY <1>2, <1>4 DEF Orderly
<1>6. ASSUME Answers(new) PROVE Answers(th) /\ new.outbox[1] = th.outbox[1]
  <2>1. m # 0 /\ new.outbox[1] # "lost"
    BY <1>2, <1>6, EmptySeq DEF Answers
  <2>2. 1 \notin n + 1..m
    BY <1>2, <2>1
  <2>3. n = 1
    BY <1>3, <2>1, <2>2
  <2>4. 1 \in 1..n
    BY <2>3
  <2>5. th.outbox # << >>
    <3>1. Len(<< >>) = 0 /\ n # 0
      BY <2>3
    <3> QED BY <1>2, <3>1
  <2>6. Answers(th)
    <3>1. th.alive => (th.outbox # << >> => Answers(th))
      BY DEF Orderly
    <3> QED BY <2>5, <3>1
  <2> QED BY <1>2, <2>4, <2>6
<1> QED BY <1>5, <1>6

(* terminate: nothing lives on.                                               *)
LEMMA StoppedServes ==
  ASSUME NEW th \in ThreadRow, NEW row, NEW done, Serves(th, row, done),
         NEW new, new = Stopped(th),
         NEW next, next.busy = row.busy, row.busy => next.call = Nobody
  PROVE  Serves(new, next, done)
<1>1. /\ new \in ThreadRow /\ new.slot = th.slot /\ ~new.alive
      /\ ~th.alive => new = th
      /\ th.alive => new.outbox = Append(th.outbox, "lost")
  BY StoppedIs
<1>2. Orderly(new) /\ (Answers(new) => Answers(th))
  <2>1. CASE ~th.alive
    BY <1>1, <2>1 DEF Serves
  <2>2. CASE th.alive
    <3>1. th.outbox \in Seq(Word) /\ "lost" \in Word /\ Orderly(th)
      BY DEF ThreadRow, Word, Serves
    <3>2. /\ new.outbox \in Seq(Word) /\ Len(new.outbox) = Len(th.outbox) + 1
          /\ \A i \in Len(th.outbox) + 1..Len(new.outbox) : new.outbox[i] = "lost"
          /\ \A i \in 1..Len(th.outbox) : new.outbox[i] = th.outbox[i]
      <4>1. PICK box : box = Append(th.outbox, "lost")
        OBVIOUS
      <4>2. new.outbox = box
        BY <1>1, <2>2, <4>1
      <4>3. /\ box \in Seq(Word) /\ Len(box) = Len(th.outbox) + 1
            /\ \A i \in 1..Len(th.outbox) : box[i] = th.outbox[i]
            /\ box[Len(th.outbox) + 1] = "lost"
        BY <3>1, <4>1, AppendProperties
      <4>4. PICK n \in Nat : n = Len(th.outbox)
        BY <3>1, LenProperties
      <4>5. \A i \in n + 1..n + 1 : i = n + 1
        OBVIOUS
      <4> QED BY <4>2, <4>3, <4>4, <4>5
    <3>3. Len(new.outbox) >= Len(th.outbox)
      BY <3>1, <3>2, LenProperties
    <3> QED BY <1>1, <2>2, <3>1, <3>2, <3>3, LostLast
  <2> QED BY <2>1, <2>2
<1>3. ~Works(new) /\ Single(new, next.call)
  BY <1>1 DEF Works, Single
<1>4. Answers(new) => next.busy /\ next.call = Nobody
  BY <1>2 DEF Serves
<1> QED BY <1>2, <1>3, <1>4 DEF Serves

(* No thread is alive after terminate, and no slot holds a call.              *)
LEMMA TerminateStep ==
  ASSUME TypeInv, Terminate
  PROVE  TypeInv' /\ (Sound(Pool, returned) => Sound(Pool, returned)')
<1>1. /\ slots \in [Slot -> SlotRow] /\ pending \in Seq(Call) /\ threads \in Seq(ThreadRow)
      /\ outcome \in Outcome /\ DOMAIN threads = 1..Len(threads) /\ Len(threads) \in Nat
      /\ \A t \in DOMAIN threads : threads[t] \in ThreadRow /\ threads[t].slot \in Slot
      /\ \A s \in Slot : slots[s].thread \in DOMAIN threads /\ threads[slots[s].thread].slot = s
  BY Rows DEF TypeInv, Typed, Pool
<1>2. /\ terminated' = TRUE /\ pending' = << >> /\ UNCHANGED <<losses, returned, misled>>
      /\ outcome' = [c \in Call |-> IF c \in Waiting \cup InFlight /\ outcome[c] = "waiting"
                                    THEN "failed" ELSE outcome[c]]
  BY DEF Terminate
<1>3. ASSUME NEW s \in Slot
      PROVE  /\ slots'[s] \in SlotRow /\ slots'[s].thread = slots[s].thread
             /\ slots'[s].busy = slots[s].busy
             /\ slots[s].busy => slots'[s].call = Nobody
  <2>1. slots'[s] = IF slots[s].busy THEN [slots[s] EXCEPT !.call = Nobody] ELSE slots[s]
    BY <1>3 DEF Terminate
  <2>2. slots[s] \in SlotRow
    BY <1>1
  <2>3. CASE slots[s].busy
    BY <2>1, <2>2, <2>3 DEF SlotRow
  <2>4. CASE ~slots[s].busy
    BY <2>1, <2>2, <2>4
  <2> QED BY <2>3, <2>4
<1>4. slots' \in [Slot -> SlotRow]
  <2>1. slots' = [s \in Slot |-> slots'[s]]
    BY DEF Terminate
  <2> QED BY <1>3, <2>1
<1>5. /\ DOMAIN threads' = DOMAIN threads
      /\ \A t \in DOMAIN threads :
           /\ Current(Pool, t) => threads'[t] = Stopped(threads[t])
           /\ ~Current(Pool, t) => threads'[t] = threads[t]
  BY DEF Terminate, Current, Pool
<1>6. \A t \in DOMAIN threads : threads'[t] \in ThreadRow /\ threads'[t].slot = threads[t].slot
  BY <1>1, <1>5, StoppedIs
<1>7. threads' \in Seq(ThreadRow)
  <2>1. threads' = [t \in DOMAIN threads |-> threads'[t]]
    BY DEF Terminate
  <2>2. threads' \in [1..Len(threads) -> ThreadRow]
    BY <1>1, <1>6, <2>1
  <2> QED BY <1>1, <2>2, SeqDef
<1>8. outcome' \in Outcome /\ \A c \in Call : outcome'[c] = "ok" => outcome[c] = "ok"
  BY <1>1, <1>2 DEF Outcome
<1>9. TypeInv'
  <2>1. << >> \in Seq(Call) /\ Len(<< >>) = 0 /\ MaxPending \in Nat
    BY EmptySeq, PoolAssumption
  <2>2. pending' \in Seq(Call) /\ Len(pending') <= MaxPending
    BY <1>2, <2>1
  <2>3. Pool' \in PoolState
    BY <1>4, <1>7, <1>8, <2>2 DEF Pool, PoolState
  <2>4. Typed(Pool)'
    BY <1>1, <1>3, <1>5, <1>6, <2>2, <2>3 DEF Typed, Pool
  <2> QED BY <1>2, <2>4 DEF TypeInv
<1>10. ASSUME Sound(Pool, returned) PROVE Sound(Pool, returned)'
  <2>1. ASSUME NEW t \in DOMAIN threads
        PROVE  ~threads'[t].alive /\ (Heard(threads'[t]) \/ Current(Pool, t))
    <3>1. CASE Current(Pool, t)
      BY <1>1, <1>5, <3>1, StoppedIs
    <3>2. CASE ~Current(Pool, t)
      BY <1>5, <1>10, <3>2 DEF Sound, Pool, Heard
    <3> QED BY <3>1, <3>2
  <2>2. \A t \in DOMAIN threads : slots'[threads'[t].slot].thread = slots[threads[t].slot].thread
    BY <1>1, <1>3, <1>6
  <2>3. ASSUME NEW s \in Slot
        PROVE  Serves(threads'[slots'[s].thread], slots'[s], returned)
    <3> DEFINE t == slots[s].thread
               new == threads'[t]
               next == slots'[s]
    <3>1. t \in DOMAIN threads /\ Current(Pool, t) /\ threads[t] \in ThreadRow
      BY <1>1 DEF Current, Pool
    <3>2. Serves(threads[t], slots[s], returned)
      BY <1>10 DEF Sound, Of, Pool
    <3>3. new = Stopped(threads[t])
      BY <1>5, <3>1
    <3>4. next.busy = slots[s].busy /\ (slots[s].busy => next.call = Nobody)
      BY <1>3
    <3> HIDE DEF t, new, next
    <3>5. Serves(new, next, returned)
      BY <3>1, <3>2, <3>3, <3>4, StoppedServes
    <3> QED BY <1>3, <3>5 DEF new, next, t
  <2>4. \A c \in Call : outcome'[c] = "ok" => c \in returned
    BY <1>8, <1>10 DEF Sound, Pool
  <2> QED BY <1>2, <1>5, <2>1, <2>2, <2>3, <2>4 DEF Sound, Current, Of, Pool
<1> QED BY <1>9, <1>10

-----------------------------------------------------------------------------
(* The threads' steps. *)

(* A step of a thread that goes on serving its slot.                          *)
LEMMA ThreadKeeps ==
  ASSUME TypeInv, NEW t \in DOMAIN threads, NEW new \in ThreadRow,
         new.slot = threads[t].slot, Thread(t, new),
         losses' \in 0..MaxLost, returned' \subseteq Call
  PROVE  /\ TypeInv'
         /\ Sound(Pool, returned) /\ returned \subseteq returned'
            /\ (Serves(threads[t], slots[threads[t].slot], returned) =>
                  Serves(new, slots[threads[t].slot], returned'))
              => Sound(Pool, returned)'
<1>1. /\ Pool \in PoolState /\ threads \in Seq(ThreadRow) /\ DOMAIN threads = 1..Len(threads)
      /\ \A u \in DOMAIN threads : threads[u].slot \in Slot
      /\ \A s \in Slot : slots[s].thread \in DOMAIN threads /\ threads[slots[s].thread].slot = s
  BY Rows DEF TypeInv, Typed, Pool
<1>2. /\ threads[t].alive /\ threads' = [threads EXCEPT ![t] = new]
      /\ UNCHANGED <<slots, pending, outcome, terminated, misled>>
  BY DEF Thread
<1>3. /\ threads' \in Seq(ThreadRow) /\ DOMAIN threads' = DOMAIN threads
      /\ threads'[t] = new /\ \A u \in DOMAIN threads : u # t => threads'[u] = threads[u]
  BY <1>1, <1>2, ExceptSeq
<1>4. \A u \in DOMAIN threads : threads'[u].slot = threads[u].slot
  BY <1>3
<1>5. TypeInv'
  <2>1. Pool' \in PoolState
    BY <1>1, <1>2, <1>3 DEF Pool, PoolState
  <2> QED BY <1>1, <1>2, <1>3, <1>4, <2>1 DEF TypeInv, Typed, Pool
<1>6. ASSUME Sound(Pool, returned), returned \subseteq returned',
             Serves(threads[t], slots[threads[t].slot], returned) =>
               Serves(new, slots[threads[t].slot], returned')
      PROVE  Sound(Pool, returned)'
  <2>1. slots[threads[t].slot].thread = t
    BY <1>2, <1>6 DEF Sound, Current, Pool, Heard
  <2>2. ASSUME NEW u \in DOMAIN threads
        PROVE  /\ threads'[u].alive => ~terminated
               /\ Heard(threads'[u]) \/ slots[threads'[u].slot].thread = u
    <3>1. CASE u = t
      <4>1. ~terminated
        BY <1>2, <1>6 DEF Sound, Pool
      <4> QED BY <1>4, <2>1, <3>1, <4>1
    <3>2. CASE u # t
      BY <1>3, <1>6, <3>2 DEF Sound, Current, Pool
    <3> QED BY <3>1, <3>2
  <2>3. ASSUME NEW s \in Slot PROVE Serves(threads'[slots[s].thread], slots[s], returned')
    <3>1. Serves(threads[slots[s].thread], slots[s], returned)
      BY <1>6 DEF Sound, Of, Pool
    <3>2. CASE slots[s].thread = t
      BY <1>1, <1>3, <1>6, <3>1, <3>2
    <3>3. CASE slots[s].thread # t
      <4>1. threads'[slots[s].thread] = threads[slots[s].thread]
        BY <1>1, <1>3, <3>3
      <4>2. Serves(threads[slots[s].thread], slots[s], returned')
        BY <1>6, <3>1 DEF Serves
      <4> QED BY <4>1, <4>2
    <3> QED BY <3>2, <3>3
  <2>4. \A c \in Call : outcome[c] = "ok" => c \in returned'
    BY <1>6 DEF Sound, Pool
  <2> QED BY <1>2, <1>3, <2>2, <2>3, <2>4 DEF Sound, Current, Of, Pool
<1> QED BY <1>5, <1>6

(* A thread that had said nothing answers.                                    *)
LEMMA AnswerIs ==
  ASSUME NEW th \in ThreadRow, NEW kind \in Word, NEW box, box = Append(th.outbox, kind)
  PROVE  /\ box \in Seq(Word)
         /\ th.outbox = << >> => box # << >> /\ Len(box) = 1 /\ box[1] = kind
<1>1. th.outbox \in Seq(Word)
  BY DEF ThreadRow
<1>2. box \in Seq(Word) /\ box # << >> /\ Len(box) = Len(th.outbox) + 1
      /\ box[Len(th.outbox) + 1] = kind
  BY <1>1, AppendProperties
<1>3. ASSUME th.outbox = << >> PROVE Len(box) = 1 /\ box[1] = kind
  <2>1. Len(th.outbox) = 0
    BY <1>3
  <2> QED BY <1>2, <2>1
<1> QED BY <1>2, <1>3

(* The answer is its slot's, if the slot is busy with the call.               *)
LEMMA AnswerServes ==
  ASSUME NEW new, NEW row, NEW done, row.busy, NEW kind \in Word, kind # "lost",
         new.outbox # << >>, Len(new.outbox) = 1, new.outbox[1] = kind,
         new.inbox = << >>, new.running = {},
         kind = "done" => row.call \in done
  PROVE  Serves(new, row, done)
<1>1. Answers(new) /\ ~Works(new)
  BY DEF Answers, Works
<1>2. Len(new.outbox) <= 2 /\ Len(new.outbox) <= 1 /\ Len(new.outbox) # 2
  OBVIOUS
<1>3. Orderly(new)
  BY <1>1, <1>2 DEF Orderly
<1>4. Single(new, row.call)
  BY DEF Single
<1> QED BY <1>1, <1>3, <1>4 DEF Serves

(* The bootstrap message changes nothing of this.                             *)
LEMMA BootstrapStep ==
  ASSUME TypeInv, NEW t \in DOMAIN threads, Bootstrap(t)
  PROVE  TypeInv' /\ (Sound(Pool, returned) => Sound(Pool, returned)')
<1>1. PICK boot \in {"ready", "broken"} : Thread(t, [threads[t] EXCEPT !.boot = boot])
  BY DEF Bootstrap
<1>2. threads[t] \in ThreadRow
  BY Rows DEF TypeInv, Typed, Pool
<1>3. PICK new : new = [threads[t] EXCEPT !.boot = boot]
  OBVIOUS
<1>4. /\ new \in ThreadRow /\ new.slot = threads[t].slot /\ new.alive = threads[t].alive
      /\ new.inbox = threads[t].inbox /\ new.running = threads[t].running
      /\ new.outbox = threads[t].outbox
  BY <1>2, <1>3 DEF ThreadRow
<1>5. Thread(t, new) /\ UNCHANGED <<losses, returned>>
  BY <1>1, <1>3 DEF Bootstrap
<1>6. Serves(threads[t], slots[threads[t].slot], returned) =>
        Serves(new, slots[threads[t].slot], returned')
  BY <1>4, <1>5 DEF Serves, Orderly, Single, Works, Answers
<1>7. losses' \in 0..MaxLost /\ returned' \subseteq Call /\ returned \subseteq returned'
  BY <1>5 DEF TypeInv
<1> QED BY <1>4, <1>5, <1>6, <1>7, ThreadKeeps

(* A thread takes its job up, or refuses it.                                  *)
LEMMA AcceptStep ==
  ASSUME TypeInv, NEW t \in DOMAIN threads, Accept(t)
  PROVE  TypeInv' /\ (Sound(Pool, returned) => Sound(Pool, returned)')
<1> DEFINE th == threads[t]
           row == slots[th.slot]
           rest == [th EXCEPT !.inbox = Tail(@)]
           started == [rest EXCEPT !.running = @ \cup {Head(th.inbox)}]
           refused == [rest EXCEPT !.outbox = Append(@, "error")]
<1>1. /\ th \in ThreadRow /\ th.inbox # << >> /\ th.inbox \in Seq(Call)
      /\ Head(th.inbox) \in Call /\ Tail(th.inbox) \in Seq(Call)
      /\ Len(Tail(th.inbox)) = Len(th.inbox) - 1 /\ Head(th.inbox) = th.inbox[1]
  <2>1. th \in ThreadRow /\ th.inbox # << >>
    BY Rows DEF TypeInv, Typed, Pool, Accept
  <2>2. th.inbox \in Seq(Call)
    BY <2>1 DEF ThreadRow
  <2> QED BY <2>1, <2>2, HeadTailProperties
<1>2. /\ Thread(t, started) \/ Thread(t, refused)
      /\ UNCHANGED <<losses, returned>> /\ th.alive
  BY DEF Accept, Thread
<1>3. losses' \in 0..MaxLost /\ returned' = returned /\ returned' \subseteq Call
  BY <1>2 DEF TypeInv
<1>4. ASSUME Serves(th, row, returned)
      PROVE  /\ Tail(th.inbox) = << >> /\ Head(th.inbox) = row.call /\ row.busy
             /\ th.running = {} /\ th.outbox = << >>
  <2>1. th.inbox = <<row.call>> /\ th.running = {} /\ th.outbox = << >> /\ row.busy
    BY <1>1, <1>2, <1>4 DEF Serves, Single, Works
  <2>2. Len(th.inbox) = 1 /\ th.inbox[1] = row.call
    BY <2>1
  <2>3. Len(Tail(th.inbox)) = 0
    BY <1>1, <2>2
  <2> QED BY <1>1, <2>1, <2>2, <2>3, EmptySeq
<1>5. CASE Thread(t, started)
  <2>1. /\ started \in ThreadRow /\ started.slot = th.slot /\ started.alive = th.alive
        /\ started.inbox = Tail(th.inbox) /\ started.outbox = th.outbox
        /\ started.running = th.running \cup {Head(th.inbox)}
    BY <1>1 DEF ThreadRow
  <2> HIDE DEF started
  <2>2. ASSUME Serves(th, row, returned) PROVE Serves(started, row, returned)
    <3>1. started.inbox = << >> /\ started.outbox = << >> /\ started.running = {row.call}
      BY <1>4, <2>1, <2>2
    <3>2. ~Answers(started) /\ Single(started, row.call)
      BY <3>1 DEF Answers, Single
    <3>3. Orderly(started)
      BY <2>1, <2>2, <1>4 DEF Serves, Orderly, Answers
    <3> QED BY <1>4, <2>2, <3>2, <3>3 DEF Serves
  <2> QED BY <1>3, <1>5, <2>1, <2>2, ThreadKeeps
<1>6. CASE Thread(t, refused)
  <2>1. PICK box : box = Append(th.outbox, "error")
    OBVIOUS
  <2>2. "error" \in Word
    BY DEF Word
  <2>3. /\ box \in Seq(Word)
        /\ th.outbox = << >> => box # << >> /\ Len(box) = 1 /\ box[1] = "error"
    <3>1. th \in ThreadRow
      BY <1>1
    <3> HIDE DEF th
    <3> QED BY <2>1, <2>2, <3>1, AnswerIs
  <2>4. /\ refused \in ThreadRow /\ refused.slot = th.slot /\ refused.alive = th.alive
        /\ refused.inbox = Tail(th.inbox) /\ refused.outbox = box
        /\ refused.running = th.running
    BY <1>1, <2>1, <2>3 DEF ThreadRow
  <2> HIDE DEF refused
  <2>5. ASSUME Serves(th, row, returned) PROVE Serves(refused, row, returned)
    BY <1>4, <2>2, <2>3, <2>4, <2>5, AnswerServes
  <2> QED BY <1>3, <1>6, <2>4, <2>5, ThreadKeeps
<1> QED BY <1>2, <1>5, <1>6

(* A handler returns or throws.                                               *)
LEMMA FinishStep ==
  ASSUME TypeInv, NEW t \in DOMAIN threads, NEW c \in Call, Finish(t, c)
  PROVE  TypeInv' /\ (Sound(Pool, returned) => Sound(Pool, returned)')
<1> DEFINE th == threads[t]
           row == slots[th.slot]
<1>1. th \in ThreadRow /\ th.running \subseteq Call
  <2>1. th \in ThreadRow
    BY Rows DEF TypeInv, Typed, Pool
  <2> QED BY <2>1 DEF ThreadRow
<1>2. PICK kind \in {"done", "error"} :
        /\ Thread(t, [Post(t, kind) EXCEPT !.running = @ \ {c}])
        /\ kind = "done" => returned' = returned \cup {c}
        /\ kind # "done" => UNCHANGED returned
  BY DEF Finish
<1>3. c \in th.running /\ th.alive /\ UNCHANGED losses
  BY <1>2 DEF Finish, Thread
<1>4. /\ losses' \in 0..MaxLost /\ returned' \subseteq Call /\ returned \subseteq returned'
      /\ kind = "done" => c \in returned'
  BY <1>2, <1>3 DEF TypeInv
<1>5. kind \in Word /\ kind # "lost"
  BY DEF Word
<1>6. PICK box : box = Append(th.outbox, kind)
  OBVIOUS
<1>7. /\ box \in Seq(Word)
      /\ th.outbox = << >> => box # << >> /\ Len(box) = 1 /\ box[1] = kind
  BY <1>1, <1>5, <1>6, AnswerIs
<1>8. PICK new : new = [Post(t, kind) EXCEPT !.running = @ \ {c}]
  OBVIOUS
<1>9. /\ new \in ThreadRow /\ new.slot = th.slot /\ new.inbox = th.inbox
      /\ new.outbox = box /\ new.running = th.running \ {c}
  BY <1>1, <1>6, <1>7, <1>8 DEF ThreadRow, Post
<1>10. ASSUME Serves(th, row, returned) PROVE Serves(new, row, returned')
  <2>1. th.inbox = << >> /\ th.running = {row.call} /\ th.outbox = << >> /\ row.busy
    BY <1>3, <1>10 DEF Serves, Single, Works
  <2>2. c = row.call /\ new.running = {} /\ new.inbox = << >>
    BY <1>3, <1>9, <2>1
  <2>3. new.outbox # << >> /\ Len(new.outbox) = 1 /\ new.outbox[1] = kind
    BY <1>7, <1>9, <2>1
  <2>4. kind = "done" => row.call \in returned'
    BY <1>4, <2>2
  <2> QED BY <1>5, <2>1, <2>2, <2>3, <2>4, AnswerServes
<1>11. Thread(t, new)
  BY <1>2, <1>8
<1> QED BY <1>4, <1>9, <1>10, <1>11, ThreadKeeps

(* A death is the last that is heard of a thread, however often it is heard.  *)
LEMMA DieStep ==
  ASSUME TypeInv, NEW t \in DOMAIN threads, Die(t)
  PROVE  TypeInv' /\ (Sound(Pool, returned) => Sound(Pool, returned)')
<1> DEFINE th == threads[t]
           row == slots[th.slot]
<1>1. th \in ThreadRow /\ th.outbox \in Seq(Word)
  <2>1. th \in ThreadRow
    BY Rows DEF TypeInv, Typed, Pool
  <2> QED BY <2>1 DEF ThreadRow
<1>2. PICK n \in Notices :
        /\ n <= losses /\ losses' = losses - n
        /\ Thread(t, [th EXCEPT !.alive = FALSE, !.running = {},
                             !.outbox = @ \o [i \in 1..n |-> "lost"]])
  BY DEF Die
<1>3. /\ n <= losses /\ losses' = losses - n /\ UNCHANGED returned
      /\ th.alive /\ n \in Nat
  BY <1>2, PoolAssumption DEF Die, Thread
<1>4. losses' \in 0..MaxLost /\ returned' \subseteq Call /\ returned \subseteq returned'
  BY <1>3, PoolAssumption DEF TypeInv
<1>5. PICK lost : lost = [i \in 1..n |-> "lost"]
  OBVIOUS
<1>6. lost \in Seq(Word) /\ Len(lost) = n
  <2>1. lost \in [1..n -> Word]
    BY <1>5 DEF Word
  <2>2. lost \in Seq(Word)
    BY <1>3, <2>1, SeqDef
  <2>3. Len(lost) = n
    BY <1>3, <1>5, <2>2
  <2> QED BY <2>2, <2>3
<1>7. PICK box : box = th.outbox \o lost
  OBVIOUS
<1>8. /\ box \in Seq(Word) /\ Len(box) = Len(th.outbox) + n
      /\ \A i \in 1..Len(th.outbox) + n :
           box[i] = IF i <= Len(th.outbox) THEN th.outbox[i] ELSE lost[i - Len(th.outbox)]
  BY <1>1, <1>6, <1>7, ConcatProperties
<1>9. PICK new : new = [th EXCEPT !.alive = FALSE, !.running = {}, !.outbox = box]
  OBVIOUS
<1>10. /\ new \in ThreadRow /\ new.slot = th.slot /\ new.alive = FALSE /\ new.running = {}
       /\ new.outbox = box
  BY <1>1, <1>8, <1>9 DEF ThreadRow
<1>11. Thread(t, new)
  BY <1>2, <1>5, <1>7, <1>9
<1>12. ASSUME Serves(th, row, returned) PROVE Serves(new, row, returned')
  <2>1. Orderly(th)
    BY <1>12 DEF Serves
  <2>2. Orderly(new) /\ (Answers(new) => Answers(th) /\ new.outbox[1] = th.outbox[1])
    <3>1. PICK k \in Nat : k = Len(th.outbox)
      BY <1>1, LenProperties
    <3>2. Len(box) = k + n /\ Len(box) >= Len(th.outbox)
      BY <1>3, <1>8, <3>1
    <3>3. \A i \in 1..k : box[i] = th.outbox[i]
      BY <1>3, <1>8, <3>1
    <3>4. ASSUME NEW i \in k + 1..k + n PROVE box[i] = "lost"
      <4>1. i \in 1..k + n /\ ~(i <= k) /\ i - k \in 1..n
        BY <1>3, <3>1
      <4>2. box[i] = lost[i - k]
        BY <1>8, <3>1, <4>1
      <4> QED BY <1>5, <4>1, <4>2
    <3>5. /\ ~new.alive /\ new.outbox \in Seq(Word) /\ Len(new.outbox) >= Len(th.outbox)
          /\ \A i \in Len(th.outbox) + 1..Len(new.outbox) : new.outbox[i] = "lost"
          /\ \A i \in 1..Len(th.outbox) : new.outbox[i] = th.outbox[i]
      BY <1>8, <1>10, <3>1, <3>2, <3>3, <3>4
    <3> QED BY <1>1, <1>3, <2>1, <3>5, LostLast
  <2>3. ~Works(new) /\ Single(new, row.call)
    BY <1>10 DEF Works, Single
  <2> QED BY <1>3, <1>12, <2>2, <2>3 DEF Serves
<1> QED BY <1>4, <1>10, <1>11, <1>12, ThreadKeeps

-----------------------------------------------------------------------------
(* Theorems. *)

(* The pool starts sound.                                                     *)
LEMMA InitInv == Init => TypeInv /\ Sound(Pool, returned)
<1> SUFFICES ASSUME Init PROVE TypeInv /\ Sound(Pool, returned)
  OBVIOUS
<1>1. /\ threads = [s \in Slot |-> NewThread(s, "ready")] /\ Size \in Nat \ {0}
      /\ slots = [s \in Slot |-> [thread |-> s, busy |-> FALSE, call |-> Nobody,
                                  respawns |-> 0, dead |-> FALSE]]
      /\ pending = << >> /\ outcome = [c \in Call |-> "none"] /\ terminated = FALSE
      /\ losses = MaxLost /\ returned = {} /\ misled = FALSE
  BY PoolAssumption DEF Init
<1>2. \A s \in Slot : threads[s] \in ThreadRow /\ threads[s].slot = s
                      /\ \A row, done : Serves(threads[s], row, done)
  <2> TAKE s \in Slot
  <2>1. threads[s] = NewThread(s, "ready")
    BY <1>1
  <2> QED BY <2>1, NewServes DEF NewThread
<1>3. DOMAIN threads = Slot /\ threads \in Seq(ThreadRow)
  <2>1. threads \in [1..Size -> ThreadRow]
    BY <1>1, <1>2 DEF Slot
  <2> QED BY <1>1, <2>1, SeqDef DEF Slot
<1>4. \A s \in Slot : slots[s] \in SlotRow /\ slots[s].thread = s
  BY <1>1 DEF SlotRow, Slot
<1>5. slots \in [Slot -> SlotRow]
  BY <1>1, <1>4
<1>6. << >> \in Seq(Call) /\ Len(<< >>) = 0 /\ MaxPending \in Nat /\ MaxLost \in Nat
  BY EmptySeq, PoolAssumption
<1>7. Pool \in PoolState
  BY <1>1, <1>3, <1>5, <1>6 DEF Pool, PoolState, Outcome
<1>8. Typed(Pool)
  BY <1>1, <1>2, <1>3, <1>4, <1>6, <1>7 DEF Typed, Pool
<1>9. TypeInv
  <2>1. losses \in 0..MaxLost /\ terminated \in BOOLEAN /\ returned \subseteq Call
    <3>1. MaxLost \in 0..MaxLost
      BY <1>6
    <3> QED BY <1>1, <3>1
  <2> QED BY <1>1, <1>8, <2>1 DEF TypeInv
<1>10. Sound(Pool, returned)
  BY <1>1, <1>2, <1>3, <1>4 DEF Sound, Current, Of, Pool
<1> QED BY <1>9, <1>10

(* Every step keeps the types, and soundness until the parent is misled.      *)
LEMMA NextInv ==
  ASSUME TypeInv, [Next]_vars
  PROVE  /\ TypeInv' /\ (misled => misled')
         /\ ~misled' /\ Sound(Pool, returned) => Sound(Pool, returned)'
<1>1. CASE UNCHANGED vars
  BY <1>1 DEF vars, TypeInv, Typed, Sound, Current, Of, Pool
<1>2. ASSUME NEW c \in Call, Run(c) PROVE TypeInv' /\ (Sound(Pool, returned) => Sound(Pool, returned)')
  BY <1>2, RunStep
<1>3. ASSUME NEW t \in DOMAIN threads, Receive(t) \/ ThreadStep(t) \/ Die(t)
      PROVE  TypeInv' /\ (~misled' /\ Sound(Pool, returned) => Sound(Pool, returned)')
  <2>1. CASE Receive(t)
    BY <2>1, ReceiveStep
  <2>2. CASE Bootstrap(t)
    BY <2>2, BootstrapStep
  <2>3. CASE Accept(t)
    BY <2>3, AcceptStep
  <2>4. ASSUME NEW c \in Call, Finish(t, c)
        PROVE  TypeInv' /\ (Sound(Pool, returned) => Sound(Pool, returned)')
    BY <2>4, FinishStep
  <2>5. CASE Die(t)
    BY <2>5, DieStep
  <2> QED BY <1>3, <2>1, <2>2, <2>3, <2>4, <2>5 DEF ThreadStep
<1>4. ASSUME Terminate PROVE TypeInv' /\ (Sound(Pool, returned) => Sound(Pool, returned)')
  BY <1>4, TerminateStep
<1>5. misled => misled'
  <2>1. ASSUME NEW t \in DOMAIN threads, Receive(t) \/ ThreadStep(t) \/ Die(t), misled
        PROVE  misled'
    <3>1. CASE Receive(t)
      BY <2>1, <3>1 DEF Receive
    <3>2. CASE ThreadStep(t)
      BY <2>1, <3>2 DEF ThreadStep, Bootstrap, Accept, Finish, Thread
    <3>3. CASE Die(t)
      BY <2>1, <3>3 DEF Die, Thread
    <3> QED BY <2>1, <3>1, <3>2, <3>3
  <2> QED BY <2>1 DEF Next, vars, Run, Terminate
<1> QED BY <1>1, <1>2, <1>3, <1>4, <1>5 DEF Next

(* The state is well-typed, and every slot has a thread that was spawned for  *)
(* it, however many notices deaths give (WorkerPool._spawn).                  *)
THEOREM TypeCorrect == Spec => []TypeOK
<1>1. Init => TypeInv
  BY InitInv
<1>2. TypeInv /\ [Next]_vars => TypeInv'
  BY NextInv
<1> QED BY <1>1, <1>2, TypeInvSuffices, PTL DEF Spec

(* Until a second notice of a replaced thread is acted on, a call is reported *)
(* done only after its own handler returned, though replies name no call; a   *)
(* thread runs one job at a time; and every living thread is its slot's       *)
(* (_onWorkerLost).                                                           *)
THEOREM ResultsTrue == Spec => [](ResultsBelong /\ NoLeakedThread)
<1> DEFINE Inv == TypeInv /\ (~misled => Sound(Pool, returned))
<1>1. Init => Inv
  BY InitInv
<1>2. Inv /\ [Next]_vars => Inv'
  BY NextInv
<1>3. Inv => ResultsBelong /\ NoLeakedThread
  BY SoundSuffices DEF ResultsBelong, NoLeakedThread
<1> HIDE DEF Inv
<1> QED BY <1>1, <1>2, <1>3, PTL DEF Spec
=============================================================================
