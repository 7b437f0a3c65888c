--------------------------- MODULE OnceOnly_proofs ---------------------------
(* Theorems about OnceOnly, for any number of calls and processes, any times  *)
(* and any budget of crashes, lapses, changes and errors.                     *)
EXTENDS OnceOnly, FiniteSetTheorems, TLAPS

PC == {"new", "looked", "joined", "waiting", "granted", "checking", "working",
       "storing", "leaving", "answered", "dead"}
Locked == {"granted", "checking", "working", "storing", "leaving"}
Inside == Locked \cup {"waiting"}

(* A cached value has time left. *)
Types == TypeOK /\ (entry.value # None => entry.left > 0)

(* A call that works, or is about to, is the one its process's others join.   *)
Leads == \A c \in Call : call[c].pc \in Inside => inflight[Home[c]] = c

(* While the lock is there, only its holder is past it.                       *)
Guarded ==
  mode # "bare" /\ Undisturbed => \A c \in Call : call[c].pc \in Locked => holder = c

(* What has been worked under an idempotency key: at most one effect, kept or *)
(* about to be, for which no crash accounts; and only the kept one is seen.   *)
Pending == entry.value # None \/ \E c \in Call : call[c].pc = "storing"
Effects ==
  mode = "idempotent" /\ Undisturbed =>
    /\ stray = {}
    /\ entry.value # None => \A c \in Call : call[c].pc \notin {"working", "storing"}
    /\ \A c \in Call : call[c].seen # None => call[c].seen = entry.value
    /\ \A c \in Call :
         call[c].answer \notin {None, Error, Conflict} => call[c].answer = entry.value
    /\ IsFiniteSet(ran) /\ Cardinality(ran) <= Unstored + (IF Pending THEN 1 ELSE 0)

IInv == Types /\ Leads /\ Guarded /\ Effects

(* The invariant implies what the theorem states.                             *)
LEMMA IInvSuffices == IInv => TypeOK /\ OneAtATime /\ OneEffect
<1> SUFFICES ASSUME IInv PROVE TypeOK /\ OneAtATime /\ OneEffect
  OBVIOUS
<1>1. TypeOK
  BY DEF IInv, Types
<1>2. \A c, d \in Working : Home[c] = Home[d] => c = d
  BY DEF IInv, Leads, Working, Inside, Locked
<1>3. ASSUME mode # "bare", Undisturbed PROVE Cardinality(Working) <= 1
  <2>1. Working = {} \/ Working = {holder}
    BY <1>3 DEF IInv, Guarded, Working, Locked
  <2>2. Cardinality({holder}) = 1
    BY FS_Singleton
  <2>3. CASE Working = {}
    BY <2>3, FS_EmptySet
  <2>4. CASE Working = {holder}
    BY <2>2, <2>4
  <2> QED BY <2>1, <2>3, <2>4
<1>4. ASSUME mode = "idempotent", Undisturbed
      PROVE  /\ Cardinality(ran) <= 1 + Unstored /\ Cardinality(Answers) <= 1
             /\ entry.value # None => Answers \subseteq {entry.value}
  <2>1. Answers \subseteq {entry.value}
    BY <1>4 DEF IInv, Effects, Answers
  <2>2. Cardinality({entry.value}) = 1
    BY FS_Singleton
  <2>5. Cardinality(Answers) <= 1
    <3>1. CASE Answers = {}
      BY <3>1, FS_EmptySet
    <3>2. CASE Answers = {entry.value}
      BY <2>2, <3>2
    <3> QED BY <2>1, <3>1, <3>2
  <2>6. IsFiniteSet(ran) /\ Cardinality(ran) <= Unstored + (IF Pending THEN 1 ELSE 0)
    BY <1>4 DEF IInv, Effects
  <2>7. Cardinality(ran) <= 1 + Unstored
    <3>1. Cardinality(ran) \in Nat /\ Unstored \in Nat
      BY <1>1, <2>6, FS_CardinalityType DEF TypeOK, EventCount, Unstored
    <3> QED BY <2>6, <3>1
  <2> QED BY <2>1, <2>5, <2>7
<1> QED BY <1>1, <1>2, <1>3, <1>4 DEF OneAtATime, OneEffect

(* No call has begun.                                                         *)
LEMMA InitIInv == Init => IInv
<1> SUFFICES ASSUME Init PROVE IInv
  OBVIOUS
<1> USE OnceAssumption DEF Init, Key!Init, Absent, Fresh
<1>1. call \in [Call -> CallState]
  BY DEF CallState
<1>2. Types
  BY <1>1 DEF Types, TypeOK, EventCount
<1>3. Leads /\ Guarded
  BY DEF Leads, Guarded, Inside, Locked
<1>4. IsFiniteSet(ran) /\ Cardinality(ran) = 0
  BY FS_EmptySet
<1>5. Effects
  BY <1>4 DEF Effects, Unstored, Pending
<1> QED BY <1>2, <1>3, <1>5 DEF IInv

-----------------------------------------------------------------------------
(* What is spent remains a count, and one event spends one kind.              *)
LEMMA Spends ==
  ASSUME spent \in EventCount, NEW what \in {"crash", "lapse", "change", "error"}, Spend(what)
  PROVE  /\ spent' \in EventCount
         /\ spent' = [spent EXCEPT ![what] = @ + 1]
         /\ what = "lapse" => spent'.lapse > 0
         /\ what # "lapse" => spent'.lapse = spent.lapse
BY DEF Spend, EventCount

(* A step that changes one call. *)
LEMMA GoesType ==
  ASSUME call \in [Call -> CallState], NEW c \in Call, NEW to \in CallState, Goes(c, to)
  PROVE  /\ call' \in [Call -> CallState]
         /\ \A d \in Call : call'[d] = IF d = c THEN to ELSE call[d]
BY DEF Goes

(* No lock and no cached value is involved. *)
LEMMA LookIInv == ASSUME IInv, NEW c \in Call, Look(c) PROVE IInv'
<1> DEFINE to == [At(c, "looked") EXCEPT !.seen = entry.value]
<1>1. call \in [Call -> CallState] /\ entry.value \in Made \cup {None}
  BY DEF IInv, Types, TypeOK
<1>2. to \in CallState /\ to = [call[c] EXCEPT !.pc = "looked", !.seen = entry.value]
  BY <1>1 DEF At, CallState
<1>3. /\ call[c].pc = "new" /\ Goes(c, to)
      /\ UNCHANGED <<mode, entry, inflight, stray, spent, history, lockVars>>
  BY DEF Look
<1>4. /\ call' \in [Call -> CallState]
      /\ \A d \in Call : call'[d] = IF d = c THEN to ELSE call[d]
  BY <1>1, <1>2, <1>3, GoesType
<1>5. to.pc = "looked" /\ to.seen = entry.value /\ to.answer = call[c].answer
  BY <1>1, <1>2 DEF CallState
<1>6. Types'
  BY <1>3, <1>4, <1>5 DEF IInv, Types, TypeOK, lockVars, history
<1>7. Leads' /\ Guarded'
  BY <1>3, <1>4, <1>5
  DEF IInv, Leads, Guarded, Undisturbed, Inside, Locked, lockVars, history
<1>8. Effects'
  BY <1>3, <1>4, <1>5 DEF IInv, Effects, Unstored, Pending, Undisturbed, lockVars, history
<1> QED BY <1>6, <1>7, <1>8 DEF IInv

(* A hit, a call joined, or a call that the others will join.                 *)
LEMMA ResumeIInv == ASSUME IInv, NEW c \in Call, Resume(c) PROVE IInv'
<1>1. call \in [Call -> CallState] /\ mode \in Mode /\ version \in Nat
  BY DEF IInv, Types, TypeOK, EventCount, version
<1>2. /\ call[c].pc = "looked"
      /\ UNCHANGED <<mode, entry, stray, spent, history, lockVars>>
  BY DEF Resume, Hit, Coalesce
<1>3. PICK to \in CallState :
        /\ Goes(c, to) /\ to.seen \in {call[c].seen, None}
        /\ to.answer \in {call[c].answer, Conflict, call[c].seen, None}
        /\ to.answer = call[c].seen => to.answer = None \/ call[c].seen # None
        /\ \/ to.pc \in {"answered", "joined"} /\ UNCHANGED inflight
           \/ /\ to.pc = IF mode = "bare" THEN "working" ELSE "waiting"
              /\ inflight[Home[c]] = None /\ inflight' = [inflight EXCEPT ![Home[c]] = c]
  <2>1. CASE Hit(c)
    <3> DEFINE to == Over("answered", Replay(c, call[c].seen))
    <3>1. call[c].seen \in Made
      BY <1>1, <2>1 DEF Hit, CallState
    <3>2. Replay(c, call[c].seen) \in {Conflict, call[c].seen}
      BY DEF Replay
    <3>3. to \in CallState /\ to.pc = "answered" /\ to.seen = None
          /\ to.answer = Replay(c, call[c].seen)
      BY <3>1, <3>2 DEF Over, Fresh, CallState
    <3> QED BY <2>1, <3>2, <3>3 DEF Hit
  <2>2. CASE Coalesce(c) /\ inflight[Home[c]] # None
    <3> DEFINE to == [At(c, "joined") EXCEPT !.host = inflight[Home[c]]]
    <3>1. inflight[Home[c]] \in Call
      BY <2>2, OnceAssumption DEF IInv, Types, TypeOK
    <3>2. to \in CallState /\ to.pc = "joined" /\ to.seen = call[c].seen
          /\ to.answer = call[c].answer
      BY <1>1, <3>1 DEF At, CallState
    <3> QED BY <2>2, <3>2 DEF Coalesce
  <2>3. CASE Coalesce(c) /\ inflight[Home[c]] = None
    <3> DEFINE to == IF mode = "bare" THEN [At(c, "working") EXCEPT !.from = version]
                     ELSE [At(c, "waiting") EXCEPT !.patience = Wait[mode]]
    <3>1. Wait[mode] \in Nat
      BY <1>1, OnceAssumption
    <3>2. to \in CallState /\ to.seen = call[c].seen /\ to.answer = call[c].answer
          /\ to.pc = IF mode = "bare" THEN "working" ELSE "waiting"
      BY <1>1, <3>1 DEF At, CallState
    <3> QED BY <2>3, <3>2 DEF Coalesce
  <2> QED BY <2>1, <2>2, <2>3 DEF Resume
<1>4. /\ call' \in [Call -> CallState]
      /\ \A d \in Call : call'[d] = IF d = c THEN to ELSE call[d]
  BY <1>1, <1>3, GoesType
<1>5. inflight' \in [Process -> Call \cup {None}]
  BY <1>3 DEF IInv, Types, TypeOK
<1>6. Types'
  BY <1>2, <1>3, <1>4, <1>5 DEF IInv, Types, TypeOK, lockVars, history
<1>7. Leads'
  <2> SUFFICES ASSUME NEW d \in Call, call'[d].pc \in Inside PROVE inflight'[Home[d]] = d
    BY DEF Leads
  <2>1. Home[d] \in Process /\ Home[c] \in Process
    BY OnceAssumption
  <2>2. CASE d = c
    BY <1>3, <1>4, <2>1, <2>2 DEF IInv, Types, TypeOK, Inside, Locked
  <2>3. CASE d # c
    <3>1. inflight[Home[d]] = d
      BY <1>4, <2>3 DEF IInv, Leads
    <3> QED BY <1>3, <2>1, <3>1, OnceAssumption DEF IInv, Types, TypeOK
  <2> QED BY <2>2, <2>3
<1>8. Guarded'
  BY <1>2, <1>3, <1>4 DEF IInv, Guarded, Undisturbed, Locked, lockVars, history
<1>9. Effects'
  BY <1>2, <1>3, <1>4 DEF IInv, Effects, Unstored, Pending, Undisturbed, lockVars, history
<1> QED BY <1>6, <1>7, <1>8, <1>9 DEF IInv

-----------------------------------------------------------------------------
(* The lock. *)

(* A grant finds the key free, so nobody is past the lock while it is there.  *)
LEMMA AcquireIInv == ASSUME IInv, NEW c \in Call, Acquire(c) PROVE IInv'
<1> DEFINE to == [At(c, "granted") EXCEPT !.patience = 0]
<1>1. call \in [Call -> CallState]
  BY DEF IInv, Types, TypeOK
<1>2. to \in CallState /\ to.pc = "granted" /\ to.seen = call[c].seen
      /\ to.answer = call[c].answer
  BY <1>1 DEF At, CallState
<1>3. /\ call[c].pc = "waiting" /\ Goes(c, to)
      /\ UNCHANGED <<mode, entry, inflight, stray, spent, history, believes, forces>>
      /\ granted' = granted \cup {c} /\ left' = Ttl
      /\ holder \in {Nobody, c} /\ holder' = c
  BY OnceAssumption DEF Acquire, Key!Grant
<1>4. /\ call' \in [Call -> CallState]
      /\ \A d \in Call : call'[d] = IF d = c THEN to ELSE call[d]
  BY <1>1, <1>2, <1>3, GoesType
<1>5. Types'
  <2>1. granted' = {d \in Call : call'[d].pc = "granted"}
    BY <1>2, <1>3, <1>4 DEF IInv, Types, TypeOK
  <2>2. believes' \subseteq
          {d \in Call : call'[d].pc \in {"checking", "working", "storing", "leaving"}}
    BY <1>2, <1>3, <1>4 DEF IInv, Types, TypeOK
  <2>3. holder' \in Call \cup {Nobody} /\ left' \in 0..Ttl
    BY <1>3, OnceAssumption
  <2> QED BY <1>3, <1>4, <2>1, <2>2, <2>3 DEF IInv, Types, TypeOK, history
<1>6. Leads'
  BY <1>2, <1>3, <1>4 DEF IInv, Leads, Inside, Locked
<1>7. Guarded'
  BY <1>2, <1>3, <1>4, OnceAssumption DEF IInv, Guarded, Undisturbed, Locked, history
<1>8. Effects'
  BY <1>2, <1>3, <1>4 DEF IInv, Effects, Unstored, Pending, Undisturbed, history
<1> QED BY <1>5, <1>6, <1>7, <1>8 DEF IInv

(* A grant is learnt of.                                                      *)
LEMMA EnterIInv == ASSUME IInv, NEW c \in Call, Enter(c) PROVE IInv'
<1> DEFINE to == At(c, "checking")
<1>1. call \in [Call -> CallState]
  BY DEF IInv, Types, TypeOK
<1>2. to \in CallState /\ to.pc = "checking" /\ to.seen = call[c].seen
      /\ to.answer = call[c].answer
  BY <1>1 DEF At, CallState
<1>3. /\ call[c].pc = "granted" /\ Goes(c, to)
      /\ UNCHANGED <<mode, entry, inflight, stray, spent, history, holder, left, forces>>
      /\ granted' = granted \ {c} /\ believes' = believes \cup {c}
  BY DEF Enter, Key!Learn
<1>4. /\ call' \in [Call -> CallState]
      /\ \A d \in Call : call'[d] = IF d = c THEN to ELSE call[d]
  BY <1>1, <1>2, <1>3, GoesType
<1>5. Types'
  BY <1>2, <1>3, <1>4 DEF IInv, Types, TypeOK, history
<1>6. Leads' /\ Guarded'
  BY <1>2, <1>3, <1>4 DEF IInv, Leads, Guarded, Undisturbed, Inside, Locked, history
<1>7. Effects'
  BY <1>2, <1>3, <1>4 DEF IInv, Effects, Unstored, Pending, Undisturbed, history
<1> QED BY <1>5, <1>6, <1>7 DEF IInv

(* Whoever goes on without the lock is remembered as unguarded.               *)
LEMMA GiveUpIInv == ASSUME IInv, NEW c \in Call, GiveUp(c) PROVE IInv'
<1> DEFINE to == At(c, "checking")
<1>1. call \in [Call -> CallState]
  BY DEF IInv, Types, TypeOK
<1>2. to \in CallState /\ to.pc = "checking"
  BY <1>1 DEF At, CallState
<1>3. /\ call[c].pc = "waiting" /\ Goes(c, to) /\ unguarded' = unguarded \cup {c}
      /\ UNCHANGED <<mode, entry, inflight, stray, spent, ran, lockVars>>
  BY DEF GiveUp
<1>4. /\ call' \in [Call -> CallState]
      /\ \A d \in Call : call'[d] = IF d = c THEN to ELSE call[d]
  BY <1>1, <1>2, <1>3, GoesType
<1>5. Types'
  BY <1>2, <1>3, <1>4 DEF IInv, Types, TypeOK, lockVars
<1>6. Leads'
  BY <1>2, <1>3, <1>4 DEF IInv, Leads, Inside, Locked
<1>7. ~Undisturbed'
  BY <1>3 DEF Undisturbed
<1> QED BY <1>5, <1>6, <1>7 DEF IInv, Guarded, Effects

(* A refresh moves the deadline only.                                         *)
LEMMA BeatIInv == ASSUME IInv, NEW c \in Call, Beat(c) PROVE IInv'
<1>1. /\ UNCHANGED <<mode, entry, inflight, call, stray, spent, history>>
      /\ UNCHANGED <<holder, granted, believes, forces>> /\ left' = Ttl
  BY DEF Beat, Key!Extend
<1>2. Types'
  BY <1>1, OnceAssumption DEF IInv, Types, TypeOK, history
<1>3. Leads' /\ Guarded'
  BY <1>1 DEF IInv, Leads, Guarded, Undisturbed, history
<1>4. Effects'
  BY <1>1 DEF IInv, Effects, Unstored, Pending, Undisturbed, history
<1> QED BY <1>2, <1>3, <1>4 DEF IInv

(* So is one whose lock was lost.                                             *)
LEMMA LoseIInv == ASSUME IInv, NEW c \in Call, Lose(c) PROVE IInv'
<1> DEFINE to == At(c, "checking")
           made == [by |-> c, from |-> call[c].from]
<1>1. call \in [Call -> CallState]
  BY DEF IInv, Types, TypeOK
<1>2. to \in CallState /\ to.pc = "checking" /\ made \in Made
  BY <1>1 DEF At, CallState, Made
<1>3. /\ call[c].pc \in {"working", "storing"} /\ Goes(c, to)
      /\ stray' = stray \cup {made} /\ unguarded' = unguarded \cup {c}
      /\ believes' = believes \ {c} /\ granted' = granted
      /\ UNCHANGED <<mode, entry, inflight, spent, ran, holder, left, forces>>
  BY DEF Lose, Key!Forget
<1>4. /\ call' \in [Call -> CallState]
      /\ \A d \in Call : call'[d] = IF d = c THEN to ELSE call[d]
  BY <1>1, <1>2, <1>3, GoesType
<1>5. Types'
  BY <1>2, <1>3, <1>4 DEF IInv, Types, TypeOK
<1>6. Leads'
  BY <1>2, <1>3, <1>4 DEF IInv, Leads, Inside, Locked
<1>7. ~Undisturbed'
  BY <1>3 DEF Undisturbed
<1> QED BY <1>5, <1>6, <1>7 DEF IInv, Guarded, Effects

-----------------------------------------------------------------------------
(* The work. *)

(* A step of a call past the lock that stays there, in the data it changes.   *)
LEMMA WithinTypes ==
  ASSUME IInv, NEW c \in Call, NEW to \in CallState, Goes(c, to),
         call[c].pc \in {"checking", "working", "storing"},
         to.pc \in {"working", "storing", "leaving"},
         UNCHANGED <<mode, inflight, stray, unguarded, lockVars>>, ran' \subseteq Call,
         spent' \in EventCount, spent'.lapse = spent.lapse,
         entry' \in [value: Made \cup {None}, left: 0..Keep],
         entry'.value # None => entry'.left > 0
  PROVE  /\ Types' /\ Leads' /\ Guarded'
         /\ \A d \in Call : call'[d] = IF d = c THEN to ELSE call[d]
<1>1. /\ call' \in [Call -> CallState]
      /\ \A d \in Call : call'[d] = IF d = c THEN to ELSE call[d]
  BY GoesType DEF IInv, Types, TypeOK
<1>2. Types'
  <2>1. granted' = {d \in Call : call'[d].pc = "granted"}
    BY <1>1 DEF IInv, Types, TypeOK, lockVars
  <2>2. believes' \subseteq
          {d \in Call : call'[d].pc \in {"checking", "working", "storing", "leaving"}}
    BY <1>1 DEF IInv, Types, TypeOK, lockVars
  <2> QED BY <1>1, <2>1, <2>2 DEF IInv, Types, TypeOK, lockVars
<1>3. Leads'
  BY <1>1 DEF IInv, Leads, Inside, Locked
<1>4. Guarded'
  BY <1>1 DEF IInv, Guarded, Undisturbed, Locked, lockVars
<1> QED BY <1>1, <1>2, <1>3, <1>4

(* The second look: nobody works on what is cached.                           *)
LEMMA CheckIInv == ASSUME IInv, NEW c \in Call, Check(c) PROVE IInv'
<1>1. /\ call \in [Call -> CallState] /\ version \in Nat
      /\ entry \in [value: Made \cup {None}, left: 0..Keep]
  BY DEF IInv, Types, TypeOK, EventCount, version
<1>2. call[c].pc = "checking"
      /\ UNCHANGED <<mode, entry, inflight, stray, spent, history, lockVars>>
  BY DEF Check
<1>3. PICK to \in CallState :
        /\ Goes(c, to) /\ to.seen = call[c].seen
        /\ \/ entry.value = None /\ to.pc = "working" /\ to.answer = call[c].answer
           \/ /\ entry.value # None /\ to.pc = "leaving"
              /\ to.answer \in {Conflict, entry.value}
  <2>1. CASE entry.value = None
    <3> DEFINE to == [At(c, "working") EXCEPT !.from = version]
    <3>1. to \in CallState /\ to.pc = "working" /\ to.seen = call[c].seen
          /\ to.answer = call[c].answer
      BY <1>1 DEF At, CallState
    <3> QED BY <2>1, <3>1 DEF Check
  <2>2. CASE entry.value # None
    <3> DEFINE to == [At(c, "leaving") EXCEPT !.answer = Replay(c, entry.value)]
    <3>1. Replay(c, entry.value) \in {Conflict, entry.value} /\ entry.value \in Made
      BY <1>1, <2>2 DEF Replay
    <3>2. to \in CallState /\ to.pc = "leaving" /\ to.seen = call[c].seen
          /\ to.answer = Replay(c, entry.value)
      BY <1>1, <3>1 DEF At, CallState
    <3> QED BY <2>2, <3>1, <3>2 DEF Check
  <2> QED BY <2>1, <2>2
<1>4. Types' /\ Leads' /\ Guarded' /\ \A d \in Call : call'[d] = IF d = c THEN to ELSE call[d]
  BY <1>1, <1>2, <1>3, WithinTypes DEF IInv, Types, TypeOK, history
<1>5. Effects'
  <2>1. Pending' <=> Pending
    BY <1>2, <1>3, <1>4 DEF Pending
  <2> QED BY <1>2, <1>3, <1>4, <2>1 DEF IInv, Effects, Unstored, Undisturbed, lockVars, history
<1> QED BY <1>4, <1>5 DEF IInv

(* The first effect for which no crash accounts is about to be kept: nothing  *)
(* is cached while a call works, and the only other one past the lock is it.  *)
LEMMA WorkIInv == ASSUME IInv, NEW c \in Call, Work(c) PROVE IInv'
<1>1. call \in [Call -> CallState]
  BY DEF IInv, Types, TypeOK
<1>2. call[c].pc = "working" /\ UNCHANGED <<mode, entry, inflight, stray, spent, unguarded, lockVars>>
  BY DEF Work
<1>3. PICK to \in CallState :
        /\ Goes(c, to) /\ to.seen = call[c].seen
        /\ \/ to.pc = "storing" /\ ran' = ran \cup {c} /\ to.answer = call[c].answer
           \/ to.pc = "leaving" /\ ran' = ran /\ to.answer = Error
  <2> DEFINE storing == At(c, "storing")
             leaving == [At(c, "leaving") EXCEPT !.answer = Error]
  <2>1. /\ storing \in CallState /\ storing.pc = "storing" /\ storing.seen = call[c].seen
        /\ storing.answer = call[c].answer
    BY <1>1 DEF At, CallState
  <2>2. /\ leaving \in CallState /\ leaving.pc = "leaving" /\ leaving.seen = call[c].seen
        /\ leaving.answer = Error
    BY <1>1 DEF At, CallState
  <2> QED BY <2>1, <2>2 DEF Work
<1>4. Types' /\ Leads' /\ Guarded' /\ \A d \in Call : call'[d] = IF d = c THEN to ELSE call[d]
  BY <1>1, <1>2, <1>3, WithinTypes DEF IInv, Types, TypeOK
<1>5. Effects'
  <2> SUFFICES ASSUME mode = "idempotent", Undisturbed PROVE Effects'
    BY <1>2 DEF Effects, Undisturbed, lockVars
  <2>1. entry.value = None /\ \A d \in Call : call[d].pc # "storing"
    <3>1. \A d \in Call : d # c => call[d].pc \notin Locked
      BY <1>2 DEF IInv, Guarded, Locked
    <3> QED BY <1>2, <3>1 DEF IInv, Effects, Locked
  <2>2. ~Pending
    BY <2>1 DEF Pending
  <2>3. IsFiniteSet(ran) /\ Cardinality(ran) <= Unstored /\ Cardinality(ran) \in Nat
        /\ Unstored \in Nat /\ Unstored' = Unstored
    BY <1>2, <2>2, FS_CardinalityType DEF IInv, Effects, Types, TypeOK, EventCount, Unstored
  <2>4. IsFiniteSet(ran') /\ Cardinality(ran') <= Unstored + (IF Pending' THEN 1 ELSE 0)
    <3>1. CASE ran' = ran
      BY <2>3, <3>1
    <3>2. CASE ran' = ran \cup {c} /\ to.pc = "storing"
      <4>1. Pending'
        BY <1>4, <3>2 DEF Pending
      <4>2. IsFiniteSet(ran') /\ Cardinality(ran') \in {Cardinality(ran), Cardinality(ran) + 1}
        BY <2>3, <3>2, FS_AddElement
      <4> QED BY <2>3, <4>1, <4>2
    <3> QED BY <1>3, <3>1, <3>2
  <2> QED BY <1>2, <1>3, <1>4, <2>1, <2>4 DEF IInv, Effects, Unstored
<1> QED BY <1>4, <1>5 DEF IInv

(* What was pending is kept.                                                  *)
LEMMA StoreIInv == ASSUME IInv, NEW c \in Call, Store(c) PROVE IInv'
<1> DEFINE made == [by |-> c, from |-> call[c].from]
           to == [At(c, "leaving") EXCEPT !.answer = made]
<1>1. call \in [Call -> CallState]
  BY DEF IInv, Types, TypeOK
<1>2. made \in Made /\ made # None
  BY <1>1, OnceAssumption DEF Made, CallState
<1>3. to \in CallState /\ to.pc = "leaving" /\ to.seen = call[c].seen /\ to.answer = made
  BY <1>1, <1>2 DEF At, CallState
<1>4. /\ call[c].pc = "storing" /\ Goes(c, to) /\ entry' = [value |-> made, left |-> Keep]
      /\ UNCHANGED <<mode, inflight, stray, spent, history, lockVars>>
  BY DEF Store, Stored
<1>5. entry' \in [value: Made \cup {None}, left: 0..Keep] /\ entry'.value = made
      /\ entry'.left > 0
  BY <1>2, <1>4, OnceAssumption
<1>6. Types' /\ Leads' /\ Guarded' /\ \A d \in Call : call'[d] = IF d = c THEN to ELSE call[d]
  BY <1>1, <1>3, <1>4, <1>5, WithinTypes DEF IInv, Types, TypeOK, history
<1>7. Effects'
  <2> SUFFICES ASSUME mode = "idempotent", Undisturbed PROVE Effects'
    BY <1>4 DEF Effects, Undisturbed, lockVars, history
  <2>1. entry.value = None /\ \A d \in Call : d # c => call[d].pc \notin Locked
    BY <1>4 DEF IInv, Effects, Guarded, Locked
  <2>2. Pending /\ Pending'
    BY <1>2, <1>4, <1>5 DEF Pending
  <2>3. \A d \in Call : call'[d].pc \notin {"working", "storing"}
    BY <1>3, <1>6, <2>1 DEF Locked
  <2>4. \A d \in Call : call'[d].seen = None
    BY <1>3, <1>6, <2>1 DEF IInv, Effects
  <2>5. \A d \in Call : call'[d].answer \notin {None, Error, Conflict} => call'[d].answer = made
    BY <1>3, <1>6, <2>1 DEF IInv, Effects
  <2> QED BY <1>4, <1>5, <2>2, <2>3, <2>4, <2>5 DEF IInv, Effects, Unstored, history
<1> QED BY <1>6, <1>7 DEF IInv

(* What was pending is kept, or an error accounts for it.                     *)
LEMMA StoreFailsIInv == ASSUME IInv, NEW c \in Call, StoreFails(c) PROVE IInv'
<1> DEFINE made == [by |-> c, from |-> call[c].from]
           to == [At(c, "leaving") EXCEPT !.answer = Error]
<1>1. call \in [Call -> CallState] /\ spent \in EventCount
  BY DEF IInv, Types, TypeOK
<1>2. made \in Made /\ made # None
  BY <1>1, OnceAssumption DEF Made, CallState
<1>3. to \in CallState /\ to.pc = "leaving" /\ to.seen = call[c].seen /\ to.answer = Error
  BY <1>1 DEF At, CallState
<1>4. /\ call[c].pc = "storing" /\ Goes(c, to)
      /\ entry' = [value |-> made, left |-> Keep] \/ UNCHANGED entry
      /\ UNCHANGED <<mode, inflight, stray, history, lockVars>>
  BY DEF StoreFails, Stored
<1>5. /\ entry' \in [value: Made \cup {None}, left: 0..Keep]
      /\ entry'.value # None => entry'.left > 0
  BY <1>2, <1>4, OnceAssumption DEF IInv, Types, TypeOK
<1>6. /\ spent' \in EventCount /\ spent'.lapse = spent.lapse
      /\ spent'.crash = spent.crash /\ spent'.error = spent.error + 1
  BY <1>1, Spends DEF StoreFails, EventCount
<1>7. Types' /\ Leads' /\ Guarded' /\ \A d \in Call : call'[d] = IF d = c THEN to ELSE call[d]
  BY <1>1, <1>3, <1>4, <1>5, <1>6, WithinTypes DEF IInv, Types, TypeOK, history
<1>8. Effects'
  <2> SUFFICES ASSUME mode = "idempotent", Undisturbed PROVE Effects'
    BY <1>4, <1>6 DEF Effects, Undisturbed, lockVars, history
  <2>1. entry.value = None /\ \A d \in Call : d # c => call[d].pc \notin Locked
    BY <1>4 DEF IInv, Effects, Guarded, Locked
  <2>2. \A d \in Call : call'[d].pc \notin {"working", "storing"}
    BY <1>3, <1>7, <2>1 DEF Locked
  <2>3. \A d \in Call : call'[d].seen = None
    BY <1>3, <1>7, <2>1 DEF IInv, Effects
  <2>4. \A d \in Call : call'[d].answer \in {None, Error, Conflict}
    <3>1. \A d \in Call : d # c /\ call[d].answer \notin {None, Error, Conflict} => FALSE
      BY <1>1, <2>1 DEF IInv, Effects
    <3> QED BY <1>3, <1>7, <3>1
  <2>5. IsFiniteSet(ran') /\ Cardinality(ran') <= Unstored' + (IF Pending' THEN 1 ELSE 0)
    <3>1. IsFiniteSet(ran) /\ Cardinality(ran) \in Nat /\ Unstored \in Nat
          /\ Cardinality(ran) <= Unstored + 1 /\ Unstored' = Unstored + 1
      BY <1>1, <1>6, FS_CardinalityType DEF IInv, Effects, EventCount, Unstored
    <3> QED BY <1>4, <3>1 DEF history
  <2> QED BY <1>4, <2>2, <2>3, <2>4, <2>5 DEF IInv, Effects, history
<1> QED BY <1>7, <1>8 DEF IInv

-----------------------------------------------------------------------------
(* Work on a lost lock stores late; no idempotent work does.                  *)
LEMMA StrayIInv == ASSUME IInv, StrayStores PROVE IInv'
<1>1. PICK made \in stray : stray' = stray \ {made} /\ (Stored(made) \/ UNCHANGED entry)
  BY DEF StrayStores
<1>2. UNCHANGED <<mode, inflight, call, spent, history, lockVars>>
  BY DEF StrayStores
<1>3. made \in Made
  BY DEF IInv, Types, TypeOK
<1>4. entry' \in [value: Made \cup {None}, left: 0..Keep] /\ (entry'.value # None => entry'.left > 0)
  BY <1>1, <1>3, OnceAssumption DEF IInv, Types, TypeOK, Stored
<1>5. Types'
  BY <1>1, <1>2, <1>4 DEF IInv, Types, TypeOK, lockVars, history
<1>6. Leads' /\ Guarded'
  BY <1>2 DEF IInv, Leads, Guarded, Undisturbed, lockVars, history
<1>7. Effects'
  BY <1>1, <1>2 DEF IInv, Effects, Undisturbed, history
<1> QED BY <1>5, <1>6, <1>7 DEF IInv

(* A call that leaves clears its own entry of inflight, and frees no lock but *)
(* its own.                                                                   *)
LEMMA LeaveIInv == ASSUME IInv, NEW c \in Call, Leave(c) PROVE IInv'
<1> DEFINE to == Over("answered", call[c].answer)
<1>1. /\ call \in [Call -> CallState] /\ inflight \in [Process -> Call \cup {None}]
      /\ Home[c] \in Process
  BY OnceAssumption DEF IInv, Types, TypeOK
<1>2. /\ call[c].pc = "leaving" /\ Unlock(c)
      /\ call' = [d \in Call |-> IF d \in {c} \cup Joined(c) THEN to ELSE call[d]]
      /\ inflight' = [inflight EXCEPT ![Home[c]] = None]
      /\ UNCHANGED <<mode, entry, stray, spent, history>>
  BY DEF Leave
<1>3. to \in CallState /\ to.pc = "answered" /\ to.seen = None /\ to.answer = call[c].answer
  BY <1>1 DEF Over, Fresh, CallState
<1>4. /\ \A d \in Call : \/ call'[d] = to /\ call[d].pc \in {"leaving", "joined"}
                         \/ call'[d] = call[d] /\ d # c
      /\ call' \in [Call -> CallState]
  <2>1. \A d \in Joined(c) : call[d].pc = "joined"
    BY DEF Joined
  <2> QED BY <1>1, <1>2, <1>3, <2>1
<1>5. /\ granted' = granted /\ forces' = forces /\ believes' \in {believes, believes \ {c}}
      /\ c \notin believes'
      /\ \/ holder' = holder /\ left' = left
         \/ holder = c /\ holder' = Nobody /\ left' = 0
  BY <1>2 DEF Unlock, Key!Release, Key!Forget, lockVars
<1>6. Types'
  <2>1. granted' = {d \in Call : call'[d].pc = "granted"}
    BY <1>3, <1>4, <1>5 DEF IInv, Types, TypeOK
  <2>2. believes' \subseteq
          {d \in Call : call'[d].pc \in {"checking", "working", "storing", "leaving"}}
    <3> SUFFICES ASSUME NEW d \in believes'
                 PROVE  d \in Call /\ call'[d].pc \in {"checking", "working", "storing", "leaving"}
      OBVIOUS
    <3>1. d \in believes /\ d # c /\ d \in Call
          /\ call[d].pc \in {"checking", "working", "storing", "leaving"}
      BY <1>5 DEF IInv, Types, TypeOK
    <3>2. d \notin Joined(c)
      BY <3>1 DEF Joined
    <3> QED BY <1>2, <3>1, <3>2
  <2>3. inflight' \in [Process -> Call \cup {None}]
    BY <1>1, <1>2
  <2>4. holder' \in Call \cup {Nobody} /\ left' \in 0..Ttl
    BY <1>5, OnceAssumption DEF IInv, Types, TypeOK
  <2> QED BY <1>2, <1>4, <1>5, <2>1, <2>2, <2>3, <2>4 DEF IInv, Types, TypeOK, history
<1>7. Leads'
  <2> SUFFICES ASSUME NEW d \in Call, call'[d].pc \in Inside PROVE inflight'[Home[d]] = d
    BY DEF Leads
  <2>1. d # c /\ inflight[Home[d]] = d /\ inflight[Home[c]] = c /\ Home[d] \in Process
    BY <1>2, <1>3, <1>4, OnceAssumption DEF IInv, Leads, Inside, Locked
  <2> QED BY <1>1, <1>2, <2>1
<1>8. Guarded'
  BY <1>2, <1>3, <1>4, <1>5 DEF IInv, Guarded, Undisturbed, Locked, history
<1>9. Effects'
  <2> SUFFICES ASSUME mode = "idempotent", Undisturbed PROVE Effects'
    BY <1>2 DEF Effects, Undisturbed, history
  <2>1. Pending' <=> Pending
    <3>1. ASSUME NEW d \in Call, call[d].pc = "storing" PROVE call'[d].pc = "storing"
      BY <1>4, <3>1
    <3>2. ASSUME NEW d \in Call, call'[d].pc = "storing" PROVE call[d].pc = "storing"
      BY <1>3, <1>4, <3>2
    <3> QED BY <1>2, <3>1, <3>2 DEF Pending
  <2>2. \A d \in Call : call'[d].pc \in {"working", "storing"} => call[d].pc \in {"working", "storing"}
    BY <1>3, <1>4
  <2>3. \A d \in Call : call'[d].seen # None => call'[d].seen = entry.value
    BY <1>3, <1>4 DEF IInv, Effects
  <2>4. \A d \in Call : call'[d].answer \notin {None, Error, Conflict} => call'[d].answer = entry.value
    BY <1>3, <1>4 DEF IInv, Effects
  <2> QED BY <1>2, <2>1, <2>2, <2>3, <2>4 DEF IInv, Effects, Unstored, history
<1> QED BY <1>6, <1>7, <1>8, <1>9 DEF IInv

(* The data changes, for remember only.                                       *)
LEMMA InvalidateIInv == ASSUME IInv, Invalidate PROVE IInv'
<1>1. /\ mode # "idempotent" /\ Spend("change") /\ entry' = Absent
      /\ UNCHANGED <<mode, inflight, call, stray, history, lockVars>>
  BY DEF Invalidate
<1>2. spent' \in EventCount /\ spent'.lapse = spent.lapse
  BY <1>1, Spends DEF IInv, Types, TypeOK
<1>3. Types'
  BY <1>1, <1>2, OnceAssumption DEF IInv, Types, TypeOK, Absent, lockVars, history
<1>4. Leads' /\ Guarded' /\ Effects'
  BY <1>1, <1>2 DEF IInv, Leads, Guarded, Effects, Undisturbed, lockVars, history
<1> QED BY <1>3, <1>4 DEF IInv

(* A crash accounts for one effect: at most one was pending.                  *)
LEMMA CrashIInv == ASSUME IInv, NEW p \in Process, Crash(p) PROVE IInv'
<1> DEFINE lost == {c \in Call : Home[c] = p /\ Alive(c)}
           to == Over("dead", None)
<1>1. /\ call \in [Call -> CallState] /\ inflight \in [Process -> Call \cup {None}]
      /\ spent \in EventCount
  BY DEF IInv, Types, TypeOK
<1>2. /\ Spend("crash") /\ call' = [c \in Call |-> IF c \in lost THEN to ELSE call[c]]
      /\ inflight' = [inflight EXCEPT ![p] = None]
      /\ stray' = {made \in stray : Home[made.by] # p}
      /\ granted' = granted \ lost /\ believes' = believes \ lost
      /\ UNCHANGED <<mode, entry, history, holder, left, forces>>
  BY DEF Crash
<1>3. to \in CallState /\ to.pc = "dead" /\ to.seen = None /\ to.answer = None
  BY <1>1 DEF Over, Fresh, CallState
<1>4. /\ spent' \in EventCount /\ spent'.lapse = spent.lapse
      /\ spent'.crash = spent.crash + 1 /\ spent'.error = spent.error
  BY <1>1, <1>2, Spends DEF EventCount
<1>5. /\ call' \in [Call -> CallState]
      /\ \A c \in Call : call'[c] \in {to, call[c]}
  BY <1>1, <1>2, <1>3
<1>6. \A c \in Call : call'[c].pc \in Inside => Home[c] # p /\ call'[c] = call[c]
  BY <1>2, <1>3 DEF Alive, Inside, Locked
<1>7. Types'
  <2>1. granted' = {c \in Call : call'[c].pc = "granted"}
    BY <1>1, <1>2, <1>3 DEF IInv, Types, TypeOK
  <2>2. believes' \subseteq
          {c \in Call : call'[c].pc \in {"checking", "working", "storing", "leaving"}}
    BY <1>1, <1>2 DEF IInv, Types, TypeOK
  <2>3. inflight' \in [Process -> Call \cup {None}]
    BY <1>1, <1>2
  <2>4. stray' \subseteq Made
    BY <1>2 DEF IInv, Types, TypeOK
  <2> QED BY <1>2, <1>4, <1>5, <2>1, <2>2, <2>3, <2>4 DEF IInv, Types, TypeOK, history
<1>8. Leads'
  <2> SUFFICES ASSUME NEW c \in Call, call'[c].pc \in Inside PROVE inflight'[Home[c]] = c
    BY DEF Leads
  <2>1. inflight[Home[c]] = c /\ Home[c] # p /\ Home[c] \in Process
    BY <1>6, OnceAssumption DEF IInv, Leads
  <2> QED BY <1>1, <1>2, <2>1
<1>9. Guarded'
  BY <1>2, <1>4, <1>6 DEF IInv, Guarded, Undisturbed, Inside, history
<1>10. Effects'
  <2> SUFFICES ASSUME mode = "idempotent", Undisturbed PROVE Effects'
    BY <1>2, <1>4 DEF Effects, Undisturbed, history
  <2>1. IsFiniteSet(ran') /\ Cardinality(ran') <= Unstored' + (IF Pending' THEN 1 ELSE 0)
    <3>1. IsFiniteSet(ran) /\ Cardinality(ran) \in Nat /\ Unstored \in Nat
          /\ Cardinality(ran) <= Unstored + 1 /\ Unstored' = Unstored + 1
      BY <1>1, <1>4, FS_CardinalityType DEF IInv, Effects, EventCount, Unstored
    <3> QED BY <1>2, <1>4, <3>1 DEF history
  <2>2. \A c \in Call : call'[c].pc \in {"working", "storing"} => call[c].pc \in {"working", "storing"}
    BY <1>3, <1>5
  <2>3. \A c \in Call : call'[c].seen # None => call'[c].seen = entry.value
    BY <1>3, <1>5 DEF IInv, Effects
  <2>4. \A c \in Call : call'[c].answer \notin {None, Error, Conflict} => call'[c].answer = entry.value
    BY <1>3, <1>5 DEF IInv, Effects
  <2> QED BY <1>2, <2>1, <2>2, <2>3, <2>4 DEF IInv, Effects
<1> QED BY <1>7, <1>8, <1>9, <1>10 DEF IInv

(* A lock lapses under a living call only at the cost of a lapse.             *)
LEMMA TickIInv == ASSUME IInv, Tick PROVE IInv'
<1>1. /\ call \in [Call -> CallState] /\ spent \in EventCount
      /\ entry \in [value: Made \cup {None}, left: 0..Keep]
      /\ (entry.value # None => entry.left > 0)
  BY DEF IInv, Types, TypeOK
<1>2. /\ IF left = 1 /\ Alive(holder) THEN Spend("lapse") ELSE UNCHANGED spent
      /\ Key!Tick \/ (left = 0 /\ UNCHANGED lockVars)
      /\ entry' = Older /\ call' = [c \in Call |-> [call[c] EXCEPT !.patience = Less(@)]]
      /\ UNCHANGED <<mode, inflight, stray, history>>
  BY DEF Tick
<1>3. /\ call' \in [Call -> CallState]
      /\ \A c \in Call : /\ call'[c].pc = call[c].pc /\ call'[c].seen = call[c].seen
                         /\ call'[c].answer = call[c].answer
  <2>1. \A c \in Call : Less(call[c].patience) \in Nat
    BY <1>1 DEF CallState, Less
  <2> QED BY <1>1, <1>2, <2>1 DEF CallState
<1>4. /\ spent' \in EventCount /\ spent'.crash = spent.crash /\ spent'.error = spent.error
      /\ spent'.lapse = 0 => spent.lapse = 0
  BY <1>1, <1>2, Spends DEF EventCount
<1>5. /\ entry' \in [value: Made \cup {None}, left: 0..Keep]
      /\ (entry'.value # None => entry'.left > 0)
      /\ (mode = "idempotent" => entry' = entry)
  BY <1>1, <1>2, OnceAssumption DEF Older, Absent
<1>6. /\ granted' = granted /\ believes' = believes /\ forces' = forces
      /\ left' \in 0..Ttl /\ holder' \in {holder, Nobody}
      /\ holder' # holder => left = 1
  BY <1>2, OnceAssumption DEF Key!Tick, lockVars, IInv, Types, TypeOK
<1>7. Types'
  BY <1>2, <1>3, <1>4, <1>5, <1>6, OnceAssumption DEF IInv, Types, TypeOK, history
<1>8. Leads'
  BY <1>2, <1>3 DEF IInv, Leads
<1>9. Guarded'
  <2> SUFFICES ASSUME mode # "bare", Undisturbed', NEW c \in Call, call[c].pc \in Locked
               PROVE  holder' = c
    BY <1>2, <1>3 DEF Guarded
  <2>1. Undisturbed
    BY <1>2, <1>4 DEF Undisturbed, history
  <2>2. holder = c /\ Alive(holder)
    BY <2>1 DEF IInv, Guarded, Locked, Alive
  <2>3. CASE left = 1
    BY <1>1, <1>2, <2>2, <2>3, Spends DEF Undisturbed
  <2>4. CASE left # 1
    BY <1>6, <2>2, <2>4
  <2> QED BY <2>3, <2>4
<1>10. Effects'
  <2> SUFFICES ASSUME mode = "idempotent", Undisturbed PROVE Effects'
    BY <1>2, <1>4 DEF Effects, Undisturbed, history
  <2>1. Pending' <=> Pending
    BY <1>3, <1>5 DEF Pending
  <2> QED BY <1>2, <1>3, <1>4, <1>5, <2>1 DEF IInv, Effects, Unstored, history
<1> QED BY <1>7, <1>8, <1>9, <1>10 DEF IInv

(* Every step keeps the invariant.                                            *)
LEMMA NextIInv == IInv /\ [Next]_vars => IInv'
<1> SUFFICES ASSUME IInv, [Next]_vars PROVE IInv'
  OBVIOUS
<1>1. CASE UNCHANGED vars
  BY <1>1 DEF vars, history, lockVars, IInv, Types, TypeOK, Leads, Guarded, Effects, Unstored,
              Pending, Undisturbed
<1> QED BY <1>1, LookIInv, ResumeIInv, AcquireIInv, EnterIInv, GiveUpIInv, BeatIInv, LoseIInv,
           CheckIInv, WorkIInv, StoreIInv, StoreFailsIInv, StrayIInv, LeaveIInv, InvalidateIInv,
           CrashIInv, TickIInv
    DEF Next, Step

(* One call works at a time, and an idempotency key has one effect and one    *)
(* answer, as long as the lock is there (recheckThenCompute of CacheManager,  *)
(* executeOnce of IdempotencyMiddleware).                                     *)
THEOREM WorkedOnce == Spec => [](TypeOK /\ OneAtATime /\ OneEffect)
BY InitIInv, NextIInv, IInvSuffices, PTL DEF Spec
=============================================================================
