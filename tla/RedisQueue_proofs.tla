-------------------------- MODULE RedisQueue_proofs --------------------------
(***************************************************************************)
(* Theorems about RedisQueue.                                              *)
(*                                                                         *)
(* The first part proves the types.  The second proves that every job is   *)
(* in one place as long as no reservation lapses under a worker, crashes   *)
(* with a job in hand included; its invariant, PlaceInv, adds to that what *)
(* a worker at work has reserved and what a stale search may still hold.   *)
(* The third proves that the driver implements TaskQueue in a behaviour    *)
(* without such crashes and lapses: it says for each step which jobs move  *)
(* and names the step of TaskQueue that moves them so.                     *)
(***************************************************************************)
EXTENDS RedisQueue, FiniteSetTheorems, SequenceTheorems, TLAPS

-----------------------------------------------------------------------------
(* The operators the queue is built from. *)

(* A sorted set's type: its members, and their scores.                        *)
ZSet(s, S) == /\ DOMAIN s \subseteq Member /\ s \in [DOMAIN s -> S]

(* Adding and removing keep it.                                               *)
LEMMA ZSetTypes ==
  ASSUME NEW S, NEW zset, ZSet(zset, S), NEW m
  PROVE  /\ ZSet(ZRem(zset, m), S)
         /\ m \in Member => \A score \in S : ZSet(ZAdd(zset, m, score), S)
BY DEF ZSet, ZAdd, ZRem

(* What LPUSH puts at the head of the list.                                   *)
LEMMA PushFront ==
  ASSUME NEW S, NEW list \in Seq(S), NEW m \in S
  PROVE  /\ <<m>> \o list \in Seq(S)
         /\ Len(<<m>> \o list) = Len(list) + 1
         /\ (<<m>> \o list)[1] = m
         /\ \A i \in 1..Len(list) : (<<m>> \o list)[i + 1] = list[i]
OBVIOUS

(* What RPOP leaves.                                                          *)
LEMMA PopBack ==
  ASSUME NEW S, NEW list \in Seq(S), list # << >>
  PROVE  /\ SubSeq(list, 1, Len(list) - 1) \in Seq(S)
         /\ Len(SubSeq(list, 1, Len(list) - 1)) = Len(list) - 1
         /\ \A i \in 1..Len(list) - 1 : SubSeq(list, 1, Len(list) - 1)[i] = list[i]
         /\ Len(list) \in DOMAIN list /\ list[Len(list)] \in S
         /\ Len(list) \in Nat \ {0}
<1>1. Len(list) \in Nat \ {0} /\ DOMAIN list = 1..Len(list)
  BY EmptySeq, LenProperties
<1>2. PICK n \in Nat : n = Len(list) - 1
  <2>1. Len(list) - 1 \in Nat
    BY <1>1
  <2> QED BY <2>1
<1>3. \A i \in 1..n : list[i] \in S
  BY <1>1, <1>2
<1>4. /\ SubSeq(list, 1, n) \in Seq(S) /\ Len(SubSeq(list, 1, n)) = n
      /\ \A i \in 1..n : SubSeq(list, 1, n)[i] = list[i]
  <2>1. /\ Len(SubSeq(list, 1, n)) = IF 1 <= n THEN n - 1 + 1 ELSE 0
        /\ \A i \in 1..n - 1 + 1 : SubSeq(list, 1, n)[i] = list[1 + i - 1]
        /\ SubSeq(list, 1, n) \in Seq(S)
    BY <1>2, <1>3, SubSeqProperties
  <2> QED BY <1>2, <2>1
<1> QED BY <1>1, <1>2, <1>4

(* What a worker is doing tells what it knows.                                *)
LEMMA PcTells ==
  ASSUME NEW s \in WorkerState
  PROVE  /\ s.pc \in {"scan", "claim", "promote", "push", "unhold", "handle", "find",
                      "settle", "release"}
         /\ s.pc = "scan" => s.set \in {"delayed", "reserved"}
         /\ s.pc \in {"promote", "push", "unhold"}
              => s.set \in {"delayed", "reserved"} /\ s.due \in SUBSET Member
         /\ s.pc \in {"push", "unhold", "handle", "find", "settle", "release"}
              => s.member \in Member
         /\ s.pc \in {"find", "settle", "release"} => s.outcome \in {"done", "failed", "retry"}
         /\ s.pc = "release" => s.found \in Member
BY DEF WorkerState

(* Where pop goes on.                                                         *)
LEMMA OnwardStates ==
  ASSUME NEW set \in {"delayed", "reserved"}, NEW due \in SUBSET Member
  PROVE  Onward(set, due) \in WorkerState
BY DEF Onward, WorkerState

(* The states a worker is moved to.                                           *)
LEMMA WorkerStates ==
  ASSUME NEW set \in {"delayed", "reserved"}, NEW due \in SUBSET Member, NEW m \in Member,
         NEW n \in Member, NEW outcome \in {"done", "failed", "retry"}
  PROVE  /\ Idle \in WorkerState
         /\ [pc |-> "push", set |-> set, due |-> due, member |-> m] \in WorkerState
         /\ [pc |-> "unhold", set |-> set, due |-> due, member |-> m] \in WorkerState
         /\ [pc |-> "handle", member |-> m] \in WorkerState
         /\ [pc |-> "find", member |-> m, outcome |-> outcome] \in WorkerState
         /\ [pc |-> "release", member |-> m, found |-> n, outcome |-> outcome] \in WorkerState
         /\ After(m, outcome) \in WorkerState
<1>1. Idle \in WorkerState
  BY DEF Idle, WorkerState
<1>2. [pc |-> "settle", member |-> m, outcome |-> outcome] \in WorkerState
  BY DEF WorkerState
<1>4. /\ [pc |-> "push", set |-> set, due |-> due, member |-> m] \in WorkerState
      /\ [pc |-> "unhold", set |-> set, due |-> due, member |-> m] \in WorkerState
  BY DEF WorkerState
<1>5. /\ [pc |-> "handle", member |-> m] \in WorkerState
      /\ [pc |-> "find", member |-> m, outcome |-> outcome] \in WorkerState
      /\ [pc |-> "release", member |-> m, found |-> n, outcome |-> outcome] \in WorkerState
  BY DEF WorkerState
<1>6. After(m, outcome) \in WorkerState
  BY <1>1, <1>2 DEF After
<1> QED BY <1>1, <1>4, <1>5, <1>6

(* A worker's push record with its pc moved on.                               *)
LEMMA PushRecord ==
  ASSUME NEW s \in WorkerState, s.pc = "push"
  PROVE  [s EXCEPT !.pc = "unhold"]
           = [pc |-> "unhold", set |-> s.set, due |-> s.due, member |-> s.member]
<1>1. s \in [pc: {"push", "unhold"}, set: {"delayed", "reserved"}, due: SUBSET Member,
             member: Member]
  BY DEF WorkerState
<1> QED BY <1>1

(* A worker that moves, and the others.                                       *)
LEMMA BecomeTypes ==
  ASSUME NEW w \in Worker, NEW next \in WorkerState, worker \in [Worker -> WorkerState],
         Become(w, next)
  PROVE  /\ worker' \in [Worker -> WorkerState]
         /\ worker'[w] = next /\ \A v \in Worker \ {w} : worker'[v] = worker[v]
BY DEF Become

-----------------------------------------------------------------------------
(* Types. *)

(* Every job's definition, and what the encodings of a job are.               *)
LEMMA Definitions ==
  ASSUME NEW j \in Job
  PROVE  /\ Def[j].key \in Key \cup {NoKey} /\ Def[j].wait \in Nat /\ Def[j].delay \in Nat
         /\ Def[j].max \in Nat \ {0}
         /\ Fresh(j) \in Member /\ Fresh(j).job = j /\ Fresh(j).attempts = 0
BY RedisAssumption DEF JobDef, Fresh, Member

(* What Enqueue does to the list and to the delayed set.                      *)
LEMMA EnqueueTypes ==
  ASSUME TypeOK, NEW m \in Member, NEW wait \in Nat, Enqueue(m, wait)
  PROVE  ready' \in Seq(Member) /\ ZSet(delayed', Nat)
<1>1. ready \in Seq(Member) /\ ZSet(delayed, Nat)
  BY DEF TypeOK, ZSet
<1>2. CASE wait > 0
  BY <1>1, <1>2, ZSetTypes DEF Enqueue
<1>3. CASE ~(wait > 0)
  BY <1>1, <1>3, PushFront DEF Enqueue
<1> QED BY <1>2, <1>3

(* Types: dispatch.                                                           *)
LEMMA DispatchTypes ==
  ASSUME TypeOK, NEW j \in Job, Dispatch(j)
  PROVE  TypeOK'
<1>1. /\ ready \in Seq(Member) /\ ZSet(delayed, Nat) /\ holds \in [Key -> Member \cup {None}]
      /\ accepted \subseteq Job /\ replaced \subseteq Job
  BY DEF TypeOK, ZSet
<1>2. accepted' \subseteq Job
  BY <1>1 DEF Dispatch
<1>3. CASE Push(j)
  <2>1. ready' \in Seq(Member) /\ ZSet(delayed', Nat)
    BY <1>3, EnqueueTypes, Definitions DEF Push
  <2> QED BY <1>2, <1>3, <2>1 DEF Push, Dispatch, TypeOK, ZSet
<1>4. CASE PushDebounced(j)
  <2>1. PICK previous : previous = holds[Def[j].key]
    OBVIOUS
  <2>2. Def[j].key \in Key /\ Fresh(j) \in Member /\ Def[j].wait \in Nat
    BY <1>4, Definitions DEF PushDebounced
  <2>3. ZSet(delayed', Nat)
    <3>1. delayed' = ZAdd(ZRem(delayed, previous), Fresh(j), Def[j].wait)
      BY <1>4, <2>1 DEF PushDebounced
    <3>2. ZSet(ZRem(delayed, previous), Nat)
      BY <1>1, ZSetTypes
    <3> QED BY <2>2, <3>1, <3>2, ZSetTypes
  <2>4. holds' \in [Key -> Member \cup {None}]
    BY <1>1, <1>4, <2>2 DEF PushDebounced
  <2>5. replaced' \subseteq Job
    <3>1. \A m \in DOMAIN delayed : m.job \in Job
      BY <1>1 DEF ZSet, Member
    <3>2. replaced' = replaced \cup {m.job : m \in {previous} \cap DOMAIN delayed}
      BY <1>4, <2>1 DEF PushDebounced
    <3> QED BY <1>1, <3>1, <3>2
  <2> QED BY <1>2, <1>4, <2>3, <2>4, <2>5 DEF PushDebounced, Dispatch, TypeOK, ZSet
<1> QED BY <1>3, <1>4 DEF Dispatch

(* What is spent is counted.                                                  *)
LEMMA SpendTypes ==
  ASSUME TypeOK, NEW what \in {"crash", "torn", "lapse"}, Spend(what)
  PROVE  spent' \in Bounds /\ (spent'.lapse = 0 => spent.lapse = 0 /\ what # "lapse")
<1>1. spent \in Bounds
  BY DEF TypeOK
<1> QED BY <1>1 DEF Spend, Bounds

(* A worker spends a lapse at most: what it has popped too late to hold.      *)
LEMMA WorkerSpends ==
  ASSUME NEW w \in Worker, WorkerStep(w)
  PROVE  UNCHANGED spent \/ Spend("lapse")
<1>1. CASE Claim(w)
  <2>1. CASE ready = << >>
    BY <1>1, <2>1 DEF Claim
  <2>2. CASE ready # << >>
    BY <1>1, <2>2 DEF Claim, Reserve
  <2> QED BY <2>1, <2>2
<1>2. CASE ~Claim(w)
  BY <1>2 DEF WorkerStep, Scan, Promote, PushReady, Unhold, Handle, Find, Release, Settle
<1> QED BY <1>1, <1>2

(* Types: a worker's step.                                                    *)
LEMMA WorkerTypes ==
  ASSUME TypeOK, NEW w \in Worker, WorkerStep(w)
  PROVE  TypeOK'
<1>1. /\ ready \in Seq(Member) /\ ZSet(delayed, Nat) /\ ZSet(reserved, 0..Visibility)
      /\ failed \subseteq Job /\ holds \in [Key -> Member \cup {None}]
      /\ worker \in [Worker -> WorkerState] /\ worker[w] \in WorkerState
      /\ succeeded \subseteq Job /\ Visibility \in 0..Visibility
  BY RedisAssumption DEF TypeOK, ZSet
<1>2. PICK s \in WorkerState : s = worker[w]
  BY <1>1
<1>3. ASSUME NEW next \in WorkerState, Become(w, next), ready' \in Seq(Member),
             ZSet(delayed', Nat), ZSet(reserved', 0..Visibility), failed' \subseteq Job,
             holds' \in [Key -> Member \cup {None}], succeeded' \subseteq Job,
             UNCHANGED <<accepted, replaced>>
      PROVE  TypeOK'
  <2>1. worker' \in [Worker -> WorkerState]
    BY <1>1, <1>3, BecomeTypes
  <2>2. spent' \in Bounds
    <3>1. spent \in Bounds
      BY DEF TypeOK
    <3>2. UNCHANGED spent \/ Spend("lapse")
      BY WorkerSpends
    <3> QED BY <3>1, <3>2, SpendTypes
  <2> QED BY <1>3, <2>1, <2>2 DEF TypeOK, ZSet
<1>4. \A zset : DOMAIN zset \subseteq Member => Due(zset) \in SUBSET Member
  BY DEF Due
<1>5. CASE Scan(w)
  <2>1. s.pc = "scan" /\ s.set \in {"delayed", "reserved"}
    BY <1>2, <1>5, PcTells DEF Scan
  <2>2. PICK due \in SUBSET Member : Become(w, Onward(s.set, due))
    BY <1>1, <1>2, <1>4, <1>5, <2>1 DEF Scan, ZSet
  <2>3. Onward(s.set, due) \in WorkerState
    BY <2>1, OnwardStates
  <2> QED BY <1>1, <1>3, <1>5, <2>2, <2>3 DEF Scan, redisVars, history
<1>6. CASE Promote(w)
  <2>1. s.set \in {"delayed", "reserved"} /\ s.due \in SUBSET Member
    BY <1>2, <1>6, PcTells DEF Promote
  <2>2. PICK m \in s.due :
          /\ delayed' = IF s.set = "delayed" THEN ZRem(delayed, m) ELSE delayed
          /\ reserved' = IF s.set = "reserved" THEN ZRem(reserved, m) ELSE reserved
          /\ \/ Become(w, [pc |-> "push", set |-> s.set, due |-> s.due \ {m}, member |-> m])
             \/ Become(w, Onward(s.set, s.due \ {m}))
    BY <1>2, <1>6 DEF Promote
  <2>3. /\ Onward(s.set, s.due \ {m}) \in WorkerState
        /\ [pc |-> "push", set |-> s.set, due |-> s.due \ {m}, member |-> m] \in WorkerState
    BY <2>1, OnwardStates, WorkerStates
  <2>4. ZSet(delayed', Nat) /\ ZSet(reserved', 0..Visibility)
    BY <1>1, <2>2, ZSetTypes
  <2> QED BY <1>1, <1>3, <1>6, <2>2, <2>3, <2>4 DEF Promote, history
<1>7. CASE PushReady(w)
  <2>1. /\ s.pc = "push" /\ s.member \in Member /\ s.set \in {"delayed", "reserved"}
        /\ s.due \in SUBSET Member
    BY <1>2, <1>7, PcTells DEF PushReady
  <2>2. PICK next : next = IF KeyOf(s.member) # NoKey THEN [s EXCEPT !.pc = "unhold"]
                           ELSE Onward(s.set, s.due)
    OBVIOUS
  <2>3. next \in WorkerState
    <3>1. CASE KeyOf(s.member) # NoKey
      <4>1. [pc |-> "unhold", set |-> s.set, due |-> s.due, member |-> s.member]
              \in WorkerState
        BY <2>1 DEF WorkerState
      <4> QED BY <2>1, <2>2, <3>1, <4>1, PushRecord
    <3>2. CASE KeyOf(s.member) = NoKey
      BY <2>1, <2>2, <3>2, OnwardStates
    <3> QED BY <3>1, <3>2
  <2>4. Become(w, next) /\ ready' = <<s.member>> \o ready
    BY <1>2, <1>7, <2>2 DEF PushReady
  <2>5. ready' \in Seq(Member)
    BY <1>1, <2>1, <2>4, PushFront
  <2> QED BY <1>1, <1>3, <1>7, <2>3, <2>4, <2>5 DEF PushReady, history
<1>8. CASE Unhold(w)
  <2>1. s.set \in {"delayed", "reserved"} /\ s.due \in SUBSET Member
    BY <1>2, <1>8, PcTells DEF Unhold
  <2>2. Onward(s.set, s.due) \in WorkerState
    BY <2>1, OnwardStates
  <2>3. holds' \in [Key -> Member \cup {None}]
    BY <1>1, <1>8 DEF Unhold
  <2> QED BY <1>1, <1>2, <1>3, <1>8, <2>2, <2>3 DEF Unhold, history
<1>9. CASE Claim(w)
  <2>1. CASE ready = << >>
    BY <1>1, <1>3, <1>9, <2>1, WorkerStates DEF Claim, history, Idle, WorkerState
  <2>2. CASE ready # << >>
    <3>1. PICK last \in Member : last = ready[Len(ready)]
      BY <1>1, <2>2, PopBack
    <3>2. PICK m \in Member : m = [last EXCEPT !.attempts = @ + 1]
      <4>1. [last EXCEPT !.attempts = @ + 1] \in Member
        BY <3>1 DEF Member
      <4> QED BY <4>1
    <3>3. PICK left \in 0..Visibility :
          /\ ready' = SubSeq(ready, 1, Len(ready) - 1)
          /\ reserved' = ZAdd(reserved, m, left)
          /\ Become(w, [pc |-> "handle", member |-> m])
      BY <1>9, <2>2, <3>1, <3>2 DEF Claim, Reserve
    <3>4. [pc |-> "handle", member |-> m] \in WorkerState
      BY DEF WorkerState
    <3>5. ready' \in Seq(Member)
      BY <1>1, <2>2, <3>3, PopBack
    <3>6. ZSet(reserved', 0..Visibility)
      BY <1>1, <3>3, ZSetTypes
    <3> QED BY <1>1, <1>3, <1>9, <3>3, <3>4, <3>5, <3>6 DEF Claim, history
  <2> QED BY <2>1, <2>2
<1>10. CASE Handle(w)
  <2>1. s.member \in Member
    BY <1>2, <1>10, PcTells DEF Handle
  <2>2. PICK outcome \in {"done", "failed", "retry"} :
          /\ Become(w, [pc |-> "find", member |-> s.member, outcome |-> outcome])
          /\ succeeded' = IF outcome = "done" THEN succeeded \cup {s.member.job}
                                              ELSE succeeded
    BY <1>2, <1>10 DEF Handle, Outcomes
  <2>3. [pc |-> "find", member |-> s.member, outcome |-> outcome] \in WorkerState
    BY <2>1 DEF WorkerState
  <2>4. succeeded' \subseteq Job
    BY <1>1, <2>1, <2>2 DEF Member
  <2> QED BY <1>1, <1>3, <1>10, <2>2, <2>3, <2>4 DEF Handle, redisVars
<1>11. CASE Find(w)
  <2>1. s.member \in Member /\ s.outcome \in {"done", "failed", "retry"}
    BY <1>2, <1>11, PcTells DEF Find
  <2>2. After(s.member, s.outcome) \in WorkerState
    BY <2>1, WorkerStates
  <2>3. \A x \in DOMAIN reserved : [pc |-> "release", member |-> s.member, found |-> x,
                                    outcome |-> s.outcome] \in WorkerState
    BY <1>1, <2>1, WorkerStates DEF ZSet
  <2>4. \/ Become(w, After(s.member, s.outcome))
        \/ \E x \in DOMAIN reserved : Become(w, [pc |-> "release", member |-> s.member,
                                                 found |-> x, outcome |-> s.outcome])
    BY <1>2, <1>11 DEF Find
  <2>5. PICK next \in WorkerState : Become(w, next)
    BY <2>2, <2>3, <2>4
  <2> QED BY <1>1, <1>3, <1>11, <2>5 DEF Find, redisVars, history
<1>12. CASE Release(w)
  <2>1. s.member \in Member /\ s.outcome \in {"done", "failed", "retry"}
    BY <1>2, <1>12, PcTells DEF Release
  <2>2. After(s.member, s.outcome) \in WorkerState
    BY <2>1, WorkerStates
  <2>3. ZSet(reserved', 0..Visibility)
    BY <1>1, <1>12, ZSetTypes DEF Release
  <2> QED BY <1>1, <1>2, <1>3, <1>12, <2>2, <2>3 DEF Release, history
<1>13. CASE Settle(w)
  <2>1. s.member \in Member /\ s.member.job \in Job
    BY <1>2, <1>13, PcTells DEF Settle, Member
  <2>2. Idle \in WorkerState /\ Become(w, Idle)
    BY <1>13 DEF Settle, Idle, WorkerState
  <2>3. CASE s.outcome = "failed"
    <3>1. failed' \subseteq Job
      BY <1>1, <1>2, <1>13, <2>1, <2>3 DEF Settle
    <3> QED BY <1>1, <1>2, <1>3, <1>13, <2>2, <2>3, <3>1 DEF Settle, history
  <2>4. CASE s.outcome # "failed"
    <3>1. Enqueue(s.member, Def[s.member.job].delay)
      BY <1>2, <1>13, <2>4 DEF Settle
    <3>2. ready' \in Seq(Member) /\ ZSet(delayed', Nat)
      BY <2>1, <3>1, EnqueueTypes, Definitions
    <3> QED BY <1>1, <1>2, <1>3, <1>13, <2>2, <2>4, <3>2 DEF Settle, history
  <2> QED BY <2>3, <2>4
<1> QED BY <1>5, <1>6, <1>7, <1>8, <1>9, <1>10, <1>11, <1>12, <1>13 DEF WorkerStep

(* Types: crashes and the clock.                                              *)
LEMMA OtherTypes ==
  ASSUME TypeOK, Elapse \/ (\E w \in Worker : Crash(w)) \/ UNCHANGED vars
  PROVE  TypeOK'
<1>1. CASE UNCHANGED vars
  BY <1>1 DEF TypeOK, vars, redisVars, history
<1>2. ASSUME NEW w \in Worker, Crash(w)
      PROVE  TypeOK'
  <2>1. worker' \in [Worker -> WorkerState]
    <3>1. worker \in [Worker -> WorkerState] /\ Idle \in WorkerState
      BY DEF TypeOK, Idle, WorkerState
    <3> QED BY <1>2, <3>1, BecomeTypes DEF Crash
  <2>2. spent' \in Bounds
    BY <1>2, SpendTypes DEF Crash
  <2> QED BY <1>2, <2>1, <2>2 DEF Crash, TypeOK, redisVars, history
<1>3. CASE Elapse
  <2>1. ASSUME NEW zset, NEW S \in {Nat, 0..Visibility}, ZSet(zset, S)
        PROVE  ZSet(Sooner(zset), S)
    <3>1. \A n \in S : n = 0 \/ n - 1 \in S
      BY <2>1, RedisAssumption
    <3> QED BY <2>1, <3>1 DEF ZSet, Sooner
  <2>2. ZSet(delayed, Nat) /\ ZSet(reserved, 0..Visibility)
    BY DEF TypeOK, ZSet
  <2>3. ZSet(delayed', Nat) /\ ZSet(reserved', 0..Visibility)
    BY <1>3, <2>1, <2>2 DEF Elapse
  <2>4. spent' \in Bounds
    BY <1>3, SpendTypes DEF Elapse, TypeOK
  <2> QED BY <1>3, <2>3, <2>4 DEF Elapse, TypeOK, ZSet, history
<1> QED BY <1>1, <1>2, <1>3

(* The queue's structures, the workers and the histories keep their types:     *)
(* attempts, delays and reservations stay numbers, a reservation within the     *)
(* visibility timeout, a worker in a position of the code.                      *)
THEOREM TypeCorrect == Spec => []TypeOK
<1>1. Init => TypeOK
  BY DEF Init, TypeOK, Idle, WorkerState, Bounds
<1>2. TypeOK /\ [Next]_vars => TypeOK'
  BY DispatchTypes, WorkerTypes, OtherTypes DEF Next
<1> QED BY <1>1, <1>2, PTL DEF Spec

-----------------------------------------------------------------------------
(* One place.  As long as no reservation lapses under a worker, every job is  *)
(* in one structure or in one worker's hand.  Three more facts carry this     *)
(* from step to step: what is placed was accepted; what a worker works on is   *)
(* reserved for it, and not due; and what a search of the reserved set found   *)
(* to be due is not reserved again, since a claim counts an attempt.           *)

Distinct == \A i, k \in DOMAIN ready : ready[i].job = ready[k].job => i = k
Apart(zset) == \A m, n \in DOMAIN zset : m.job = n.job => m = n

Hands(w, j) == InHand(w) /\ worker[w].member.job = j
Carried(j) == \E w \in Worker : Hands(w, j)
OneHand == \A j \in Job : \A v, w \in Worker : Hands(v, j) /\ Hands(w, j) => v = w

Exclusive(j) ==
  /\ Listed(j) => ~In(delayed, j) /\ ~In(reserved, j) /\ ~Carried(j) /\ j \notin failed
  /\ In(delayed, j) => ~In(reserved, j) /\ ~Carried(j) /\ j \notin failed
  /\ In(reserved, j) => ~Carried(j) /\ j \notin failed
  /\ Carried(j) => j \notin failed

Placed(x) ==
  \/ \E i \in DOMAIN ready : ready[i] = x
  \/ x \in DOMAIN delayed \/ x \in DOMAIN reserved
  \/ \E w \in Worker : InHand(w) /\ worker[w].member = x
Known == /\ \A x \in Member : Placed(x) => x.job \in accepted
         /\ failed \subseteq accepted

Attended ==
  /\ \A w \in Worker : Working(w) =>
       /\ worker[w].member \in DOMAIN reserved /\ reserved[worker[w].member] > 0
       /\ worker[w].pc = "release" => worker[w].found = worker[w].member
  /\ \A v, w \in Worker :
       Working(v) /\ Working(w) /\ worker[v].member.job = worker[w].member.job => v = w

Past(m) ==
  /\ m.job \in accepted
  /\ m \in DOMAIN reserved => reserved[m] = 0
  /\ \A x \in Member : Placed(x) /\ x.job = m.job => x.attempts >= m.attempts
Searched(s) == s.pc \in {"promote", "push", "unhold"} /\ s.set = "reserved"
Stale == \A w \in Worker : Searched(worker[w]) => \A m \in worker[w].due : Past(m)

PlaceInv ==
  /\ Distinct /\ Apart(delayed) /\ Apart(reserved) /\ OneHand
  /\ \A j \in Job : Exclusive(j)
  /\ Known /\ Attended /\ Stale

(* What a step places was placed before, with no more attempts, or is new.    *)
Ages ==
  \A x \in Member : Placed(x)' =>
    \/ x.job \notin accepted
    \/ \E y \in Member : Placed(y) /\ y.job = x.job /\ y.attempts <= x.attempts
(* What it reserves was reserved, and stays due, or is a claim's.             *)
Rests ==
  \A x \in DOMAIN reserved' :
    \/ x \in DOMAIN reserved /\ (reserved[x] = 0 => reserved'[x] = 0)
    \/ \E y \in Member : Placed(y) /\ y.job = x.job /\ y.attempts < x.attempts

(* Then what was found to be due stays so, or is gone for good.               *)
LEMMA PastKept ==
  ASSUME TypeOK', NEW m \in Member, Past(m), accepted \subseteq accepted', Ages, Rests
  PROVE  Past(m)'
<1>1. m.attempts \in Nat /\ \A x \in Member : x.attempts \in Nat
  BY DEF Member
<1>2. DOMAIN reserved' \subseteq Member
  BY DEF TypeOK
<1>3. ASSUME NEW x \in Member, Placed(x)', x.job = m.job
      PROVE  x.attempts >= m.attempts
  <2>1. m.job \in accepted
    BY DEF Past
  <2>2. PICK y \in Member : Placed(y) /\ y.job = x.job /\ y.attempts <= x.attempts
    BY <1>3, <2>1 DEF Ages
  <2>3. y.attempts >= m.attempts
    BY <1>3, <2>2 DEF Past
  <2> QED BY <1>1, <2>2, <2>3
<1>4. m \in DOMAIN reserved' => reserved'[m] = 0
  <2>1. ~\E y \in Member : Placed(y) /\ y.job = m.job /\ y.attempts < m.attempts
    BY <1>1 DEF Past
  <2> QED BY <2>1 DEF Rests, Past
<1> QED BY <1>3, <1>4 DEF Past

(* What is placed and what is accepted.                                       *)
LEMMA KnownKept ==
  ASSUME Known, accepted \subseteq accepted', failed' \subseteq accepted', Ages,
         \A x \in Member : Placed(x)' /\ x.job \notin accepted => x.job \in accepted'
  PROVE  Known'
<1>1. ASSUME NEW x \in Member, Placed(x)'
      PROVE  x.job \in accepted'
  BY <1>1 DEF Known, Ages
<1> QED BY <1>1 DEF Known

(* What workers search: a worker that moves, and the others.                  *)
LEMMA StaleKept ==
  ASSUME TypeOK, TypeOK', PlaceInv, accepted \subseteq accepted', Ages, Rests,
         NEW w \in Worker, \A v \in Worker \ {w} : worker'[v] = worker[v],
         Searched(worker'[w]) => \A m \in worker'[w].due : m \in Member /\ Past(m)
  PROVE  Stale'
<1>1. \A v \in Worker : worker[v] \in WorkerState
  BY DEF TypeOK
<1>2. \A v \in Worker : Searched(worker[v]) => worker[v].due \in SUBSET Member
  BY <1>1, PcTells DEF Searched
<1>3. ASSUME NEW v \in Worker, Searched(worker'[v]), NEW m \in worker'[v].due
      PROVE  Past(m)'
  <2>1. m \in Member /\ Past(m)
    BY <1>2, <1>3 DEF PlaceInv, Stale
  <2> QED BY <2>1, PastKept
<1> QED BY <1>3 DEF Stale, Searched

(* A worker's hand.                                                           *)
LEMMA HandMoves ==
  ASSUME TypeOK, NEW w \in Worker, NEW next, Become(w, next)
  PROVE  /\ worker'[w] = next /\ \A v \in Worker \ {w} : worker'[v] = worker[v]
         /\ \A v \in Worker \ {w}, k \in Job : Hands(v, k)' <=> Hands(v, k)
         /\ \A k \in Job : Hands(w, k)' <=> next.pc \in {"push", "settle"} /\ next.member.job = k
<1>1. worker'[w] = next /\ \A v \in Worker \ {w} : worker'[v] = worker[v]
  BY DEF TypeOK, Become
<1> QED BY <1>1 DEF Hands, InHand

(* A worker that picks up nothing, or what nobody carries.                    *)
LEMMA HandKept ==
  ASSUME TypeOK, NEW w \in Worker, NEW next, Become(w, next), OneHand,
         next.pc \in {"push", "settle"} /\ next.member.job \in Job
           => ~Carried(next.member.job) \/ Hands(w, next.member.job)
  PROVE  /\ OneHand'
         /\ \A k \in Job : Carried(k)' => \/ Carried(k)
                                          \/ next.pc \in {"push", "settle"} /\ next.member.job = k
         /\ next.pc \notin {"push", "settle"}
              => \A k \in Job : Hands(w, k) => ~Carried(k)'
<1>1. \A v \in Worker \ {w}, k \in Job : Hands(v, k)' <=> Hands(v, k)
  BY HandMoves
<1>2. \A k \in Job : Hands(w, k)' <=> next.pc \in {"push", "settle"} /\ next.member.job = k
  BY HandMoves
<1>3. \A k \in Job : Carried(k)' <=> \E v \in Worker : Hands(v, k)'
  BY DEF Carried
<1>4. OneHand'
  <2>1. ASSUME NEW k \in Job, NEW v \in Worker, NEW u \in Worker, Hands(v, k)', Hands(u, k)'
        PROVE  v = u
    <3>1. CASE v = w \/ u = w
      BY <1>1, <1>2, <2>1, <3>1 DEF Carried, OneHand
    <3>2. CASE v # w /\ u # w
      BY <1>1, <2>1, <3>2 DEF OneHand
    <3> QED BY <3>1, <3>2
  <2> QED BY <2>1 DEF OneHand
<1>5. \A k \in Job : Carried(k)' => \/ Carried(k)
                                    \/ next.pc \in {"push", "settle"} /\ next.member.job = k
  BY <1>1, <1>2, <1>3 DEF Carried
<1>6. next.pc \notin {"push", "settle"} => \A k \in Job : Hands(w, k) => ~Carried(k)'
  BY <1>1, <1>2, <1>3 DEF OneHand
<1> QED BY <1>4, <1>5, <1>6

(* At most one place each: the jobs that enter no structure stay so.          *)
LEMMA ExclusiveKept ==
  ASSUME NEW k \in Job, Exclusive(k),
         Listed(k)' => Listed(k), In(delayed, k)' => In(delayed, k),
         In(reserved, k)' => In(reserved, k), Carried(k)' => Carried(k),
         k \in failed' => k \in failed
  PROVE  Exclusive(k)'
BY DEF Exclusive

(* LPUSH, for places.                                                         *)
LEMMA PushPlaces ==
  ASSUME TypeOK, NEW m \in Member, ready' = <<m>> \o ready
  PROVE  /\ \A k \in Job : Listed(k)' <=> Listed(k) \/ k = m.job
         /\ \A i \in DOMAIN ready' : \/ ready'[i] = m
                                     \/ \E h \in DOMAIN ready : ready'[i] = ready[h]
         /\ Distinct /\ ~Listed(m.job) => Distinct'
<1>1. ready \in Seq(Member) /\ Len(ready) \in Nat /\ DOMAIN ready = 1..Len(ready)
  BY LenProperties DEF TypeOK
<1>2. /\ ready' \in Seq(Member) /\ Len(ready') = Len(ready) + 1
      /\ ready'[1] = m /\ \A i \in 1..Len(ready) : ready'[i + 1] = ready[i]
  BY <1>1, PushFront
<1>3. PICK n \in Nat : n = Len(ready) /\ DOMAIN ready = 1..n
  BY <1>1
<1>4. DOMAIN ready' = 1..n+1
  BY <1>2, <1>3, LenProperties
<1>5. \A i \in 1..n+1 : i = 1 \/ (i - 1 \in 1..n /\ ready'[i] = ready[i - 1])
  <2>1. ASSUME NEW i \in 1..n+1, i # 1
        PROVE  i - 1 \in 1..n /\ ready'[i] = ready[i - 1]
    <3>1. i - 1 \in 1..n /\ (i - 1) + 1 = i
      BY <2>1
    <3> QED BY <1>2, <1>3, <3>1
  <2> QED BY <2>1
<1>6. \A k \in Job : Listed(k)' <=> Listed(k) \/ k = m.job
  <2>1. ASSUME NEW k \in Job, NEW i \in DOMAIN ready', ready'[i].job = k
        PROVE  Listed(k) \/ k = m.job
    BY <1>2, <1>3, <1>4, <1>5, <2>1 DEF Listed
  <2>2. ASSUME NEW k \in Job, NEW i \in DOMAIN ready, ready[i].job = k
        PROVE  Listed(k)'
    <3>1. i \in 1..n /\ i + 1 \in 1..n+1 /\ ready'[i + 1] = ready[i]
      BY <1>2, <1>3, <2>2
    <3> QED BY <1>4, <2>2, <3>1 DEF Listed
  <2>3. m.job \in Job => Listed(m.job)'
    <3>1. 1 \in DOMAIN ready'
      BY <1>4
    <3> QED BY <1>2, <3>1 DEF Listed
  <2> QED BY <2>1, <2>2, <2>3 DEF Listed
<1>7. \A i \in DOMAIN ready' : \/ ready'[i] = m
                               \/ \E h \in DOMAIN ready : ready'[i] = ready[h]
  BY <1>2, <1>3, <1>4, <1>5
<1>8. Distinct /\ ~Listed(m.job) => Distinct'
  <2> SUFFICES ASSUME Distinct, ~Listed(m.job), NEW i \in DOMAIN ready', NEW k \in DOMAIN ready',
                      ready'[i].job = ready'[k].job
               PROVE  i = k
    BY DEF Distinct
  <2>1. CASE i = 1 \/ k = 1
    <3>1. \A h \in 1..n : ready[h].job # m.job
      BY <1>3 DEF Listed
    <3> QED BY <1>2, <1>4, <1>5, <2>1, <3>1
  <2>2. CASE i # 1 /\ k # 1
    <3>1. i - 1 = k - 1
      BY <1>3, <1>4, <1>5, <2>2 DEF Distinct
    <3> QED BY <1>4, <3>1
  <2> QED BY <2>1, <2>2
<1> QED BY <1>6, <1>7, <1>8

(* RPOP, for places.                                                          *)
LEMMA PopPlaces ==
  ASSUME TypeOK, Distinct, ready # << >>, ready' = SubSeq(ready, 1, Len(ready) - 1),
         NEW last, last = ready[Len(ready)]
  PROVE  /\ last \in Member /\ Listed(last.job) /\ Placed(last)
         /\ \A k \in Job : Listed(k)' => Listed(k)
         /\ ~Listed(last.job)'
         /\ \A i \in DOMAIN ready' : i \in DOMAIN ready /\ ready'[i] = ready[i]
         /\ Distinct'
<1>1. ready \in Seq(Member)
  BY DEF TypeOK
<1>2. PICK n \in Nat \ {0} : n = Len(ready) /\ DOMAIN ready = 1..n
  BY <1>1, PopBack, LenProperties
<1>3. DOMAIN ready' = 1..n-1 /\ \A i \in 1..n-1 : ready'[i] = ready[i]
  BY <1>1, <1>2, PopBack, LenProperties
<1>4. last \in Member /\ n \in DOMAIN ready /\ last = ready[n]
  BY <1>1, <1>2, PopBack
<1>5. \A i \in DOMAIN ready' : i \in DOMAIN ready /\ ready'[i] = ready[i] /\ i # n
  BY <1>2, <1>3
<1> QED BY <1>4, <1>5 DEF Listed, Distinct, Placed

(* What a retry or a dispatch enqueues.                                       *)
LEMMA EnqueuePlaces ==
  ASSUME TypeOK, NEW m \in Member, NEW wait \in Nat, Enqueue(m, wait),
         Distinct, Apart(delayed), ~Listed(m.job), ~In(delayed, m.job)
  PROVE  /\ Distinct' /\ Apart(delayed)'
         /\ \A k \in Job \ {m.job} : /\ Listed(k)' => Listed(k)
                                     /\ In(delayed, k)' => In(delayed, k)
         /\ ~(Listed(m.job)' /\ In(delayed, m.job)')
         /\ \A i \in DOMAIN ready' : \/ ready'[i] = m
                                     \/ \E h \in DOMAIN ready : ready'[i] = ready[h]
         /\ \A x \in DOMAIN delayed' : x = m \/ x \in DOMAIN delayed
<1>1. m.job \in Job
  BY DEF Member
<1>2. CASE wait > 0
  <2>1. DOMAIN delayed' = DOMAIN delayed \cup {m} /\ UNCHANGED ready
    BY <1>2 DEF Enqueue, ZAdd
  <2>2. Apart(delayed)'
    BY <2>1 DEF Apart, In
  <2>3. \A k \in Job \ {m.job} : In(delayed, k)' => In(delayed, k)
    BY <2>1 DEF In
  <2>4. Distinct' /\ \A k \in Job : Listed(k)' <=> Listed(k)
    BY <2>1 DEF Distinct, Listed
  <2> QED BY <1>1, <2>1, <2>2, <2>3, <2>4
<1>3. CASE ~(wait > 0)
  <2>1. ready' = <<m>> \o ready /\ UNCHANGED delayed
    BY <1>3 DEF Enqueue
  <2>2. Apart(delayed)' /\ \A k \in Job : In(delayed, k)' <=> In(delayed, k)
    BY <2>1 DEF Apart, In
  <2> QED BY <1>1, <2>1, <2>2, PushPlaces
<1> QED BY <1>2, <1>3

(* A worker that takes nothing into its hand, while nothing enters a          *)
(* structure.                                                                 *)
LEMMA Gainless ==
  ASSUME TypeOK, PlaceInv, NEW w \in Worker, NEW next, Become(w, next),
         UNCHANGED <<ready, failed, accepted>>,
         DOMAIN delayed' \subseteq DOMAIN delayed, DOMAIN reserved' \subseteq DOMAIN reserved,
         \A x \in DOMAIN reserved' : reserved'[x] = reserved[x],
         next.pc \notin {"push", "settle"}
  PROVE  /\ Distinct' /\ Apart(delayed)' /\ Apart(reserved)' /\ OneHand'
         /\ (\A j \in Job : Exclusive(j))' /\ Known' /\ Ages /\ Rests
<1>1. OneHand' /\ \A k \in Job : Carried(k)' => Carried(k)
  BY HandKept DEF PlaceInv
<1>2. Distinct' /\ Apart(delayed)' /\ Apart(reserved)'
  BY DEF PlaceInv, Distinct, Apart
<1>3. \A k \in Job : Exclusive(k)'
  <2>1. \A k \in Job : /\ Listed(k)' => Listed(k)
                       /\ In(delayed, k)' => In(delayed, k)
                       /\ In(reserved, k)' => In(reserved, k)
                       /\ Carried(k)' => Carried(k)
                       /\ k \in failed' => k \in failed
    BY <1>1 DEF Listed, In
  <2> QED BY <2>1, ExclusiveKept DEF PlaceInv
<1>4. \A x \in Member : Placed(x)' => Placed(x)
  <2>1. \A v \in Worker : InHand(v)' => v # w /\ worker'[v] = worker[v] /\ InHand(v)
    BY HandMoves DEF InHand
  <2> QED BY <2>1 DEF Placed
<1>5. Ages
  BY <1>4 DEF Ages, Member
<1>6. Rests
  BY DEF Rests
<1>7. Known'
  BY <1>4, <1>5, KnownKept DEF PlaceInv, Known
<1> QED BY <1>1, <1>2, <1>3, <1>5, <1>6, <1>7

(* What workers attend to.                                                    *)
LEMMA AttendedKept ==
  ASSUME TypeOK, PlaceInv, NEW w \in Worker, NEW next, Become(w, next),
         \A v \in Worker \ {w} : Working(v) =>
            /\ worker[v].member \in DOMAIN reserved'
            /\ reserved'[worker[v].member] > 0,
         next.pc \in {"handle", "find", "release"} =>
            /\ next.member \in DOMAIN reserved' /\ reserved'[next.member] > 0
            /\ next.pc = "release" => next.found = next.member
            /\ \A v \in Worker \ {w} : Working(v) => worker[v].member.job # next.member.job
  PROVE  Attended'
<1>1. worker'[w] = next /\ \A v \in Worker \ {w} : worker'[v] = worker[v]
  BY HandMoves
<1>2. \A v \in Worker \ {w} : Working(v)' <=> Working(v)
  BY <1>1 DEF Working
<1>3. Working(w)' <=> next.pc \in {"handle", "find", "release"}
  BY <1>1 DEF Working
<1>4. \A v \in Worker : Working(v)' =>
         /\ worker'[v].member \in DOMAIN reserved' /\ reserved'[worker'[v].member] > 0
         /\ worker'[v].pc = "release" => worker'[v].found = worker'[v].member
  BY <1>1, <1>2, <1>3 DEF PlaceInv, Attended
<1>5. \A u, v \in Worker :
         Working(u)' /\ Working(v)' /\ worker'[u].member.job = worker'[v].member.job => u = v
  BY <1>1, <1>2, <1>3 DEF PlaceInv, Attended
<1> QED BY <1>4, <1>5 DEF Attended

(* Where pop goes on, it searches what it has searched.                       *)
LEMMA OnwardSearch ==
  ASSUME NEW set, NEW due
  PROVE  /\ Onward(set, due).pc \in {"promote", "scan", "claim"}
         /\ Searched(Onward(set, due)) => set = "reserved" /\ Onward(set, due).due = due
BY DEF Onward, Searched

(* A worker's steps that move no job: searching, losing a member to another   *)
(* worker, finding the list empty, handling and finding.                      *)
LEMMA QuietPlaces ==
  ASSUME TypeOK, TypeOK', PlaceInv, NEW w \in Worker,
         Scan(w) \/ Unhold(w) \/ Handle(w) \/ Find(w) \/ (Claim(w) /\ ready = << >>)
  PROVE  PlaceInv'
<1>1. /\ worker[w] \in WorkerState /\ DOMAIN reserved \subseteq Member
      /\ \A v \in Worker : Working(v) =>
           /\ worker[v].member \in DOMAIN reserved /\ reserved[worker[v].member] > 0
      /\ Apart(reserved)
  BY DEF TypeOK, PlaceInv, Attended
<1>2. PICK s \in WorkerState : s = worker[w]
  BY <1>1
<1>3. ASSUME NEW next, Become(w, next), UNCHANGED <<ready, delayed, reserved, failed, accepted>>,
             next.pc \notin {"push", "settle"},
             Searched(next) => \A m \in next.due : m \in Member /\ Past(m),
             next.pc \in {"handle", "find", "release"} =>
                 /\ Working(w) /\ next.member = s.member
                 /\ next.pc = "release" => next.found = next.member
      PROVE  PlaceInv'
  <2>1. /\ Distinct' /\ Apart(delayed)' /\ Apart(reserved)' /\ OneHand'
        /\ (\A j \in Job : Exclusive(j))' /\ Known' /\ Ages /\ Rests
    BY <1>3, Gainless
  <2>2. Stale'
    BY <1>3, <2>1, HandMoves, StaleKept
  <2>3. \A v \in Worker \ {w} : Working(w) /\ Working(v) => worker[v].member.job # s.member.job
    BY <1>2 DEF PlaceInv, Attended
  <2>4. Attended'
    BY <1>1, <1>2, <1>3, <2>3, AttendedKept
  <2> QED BY <2>1, <2>2, <2>4 DEF PlaceInv
<1>4. CASE Scan(w)
  <2>1. PICK due : /\ due = Due(IF s.set = "delayed" THEN delayed ELSE reserved)
                   /\ Become(w, Onward(s.set, due))
    BY <1>2, <1>4 DEF Scan
  <2>2. UNCHANGED <<ready, delayed, reserved, failed, accepted>>
    BY <1>4 DEF Scan, redisVars, history
  <2>3. ASSUME s.set = "reserved", NEW m \in due
        PROVE  m \in Member /\ Past(m)
    <3>1. m \in DOMAIN reserved /\ reserved[m] = 0 /\ m \in Member /\ m.job \in Job
      BY <1>1, <2>1, <2>3 DEF Due, Member
    <3>2. ~Listed(m.job) /\ ~In(delayed, m.job) /\ ~Carried(m.job)
      BY <3>1 DEF PlaceInv, Exclusive, In
    <3>3. \A x \in Member : Placed(x) /\ x.job = m.job => x = m
      BY <1>1, <3>1, <3>2 DEF Placed, Listed, In, Carried, Hands, Apart
    <3>4. m.job \in accepted
      BY <3>1 DEF PlaceInv, Known, Placed
    <3> QED BY <3>1, <3>3, <3>4 DEF Past, Member
  <2> QED BY <1>3, <2>1, <2>2, <2>3, OnwardSearch
<1>5. CASE Unhold(w)
  <2>1. /\ Become(w, Onward(s.set, s.due)) /\ s.pc = "unhold"
        /\ UNCHANGED <<ready, delayed, reserved, failed, accepted>>
    BY <1>2, <1>5 DEF Unhold, history
  <2>2. ASSUME s.set = "reserved", NEW m \in s.due
        PROVE  m \in Member /\ Past(m)
    BY <1>2, <2>1, <2>2, PcTells DEF PlaceInv, Stale, Searched
  <2> QED BY <1>3, <2>1, <2>2, OnwardSearch
<1>6. CASE Handle(w)
  <2>1. PICK outcome : Become(w, [pc |-> "find", member |-> s.member, outcome |-> outcome])
    BY <1>2, <1>6 DEF Handle
  <2>2. Working(w) /\ UNCHANGED <<ready, delayed, reserved, failed, accepted>>
    BY <1>6 DEF Handle, redisVars, Working
  <2> QED BY <1>3, <2>1, <2>2 DEF Searched
<1>7. CASE Find(w)
  <2>1. Working(w) /\ UNCHANGED <<ready, delayed, reserved, failed, accepted>>
    BY <1>7 DEF Find, redisVars, history, Working
  <2>2. s.member \in DOMAIN reserved
    BY <1>1, <1>2, <2>1
  <2>3. {x \in DOMAIN reserved : x.job = s.member.job} = {s.member}
    BY <1>1, <2>2 DEF Apart
  <2>4. Become(w, [pc |-> "release", member |-> s.member, found |-> s.member,
                   outcome |-> s.outcome])
    BY <1>2, <1>7, <2>3 DEF Find
  <2> QED BY <1>3, <2>1, <2>4 DEF Searched
<1>8. CASE Claim(w) /\ ready = << >>
  <2>1. Become(w, Idle) /\ UNCHANGED <<ready, delayed, reserved, failed, accepted>>
    BY <1>8 DEF Claim, history
  <2> QED BY <1>3, <2>1 DEF Idle, Searched
<1> QED BY <1>4, <1>5, <1>6, <1>7, <1>8

(* The step that takes a due member out of a sorted set, or finds it gone.    *)
LEMMA PromotePlaces ==
  ASSUME TypeOK, TypeOK', PlaceInv, NEW w \in Worker, Promote(w)
  PROVE  PlaceInv'
<1>1. /\ worker[w] \in WorkerState /\ DOMAIN reserved \subseteq Member
      /\ DOMAIN delayed \subseteq Member
  BY DEF TypeOK
<1>2. PICK s \in WorkerState : s = worker[w]
  BY <1>1
<1>3. /\ s.pc = "promote" /\ s.due \in SUBSET Member /\ s.set \in {"delayed", "reserved"}
      /\ UNCHANGED <<ready, failed, accepted>>
  BY <1>2, PcTells DEF Promote, history
<1>4. PICK m \in s.due :
        /\ delayed' = IF s.set = "delayed" THEN ZRem(delayed, m) ELSE delayed
        /\ reserved' = IF s.set = "reserved" THEN ZRem(reserved, m) ELSE reserved
        /\ Become(w, IF m \in DOMAIN (IF s.set = "delayed" THEN delayed ELSE reserved)
                     THEN [pc |-> "push", set |-> s.set, due |-> s.due \ {m}, member |-> m]
                     ELSE Onward(s.set, s.due \ {m}))
  BY <1>2 DEF Promote
<1>5. m \in Member /\ m.job \in Job
  BY <1>3 DEF Member
<1>6. /\ DOMAIN delayed' = IF s.set = "delayed" THEN DOMAIN delayed \ {m} ELSE DOMAIN delayed
      /\ DOMAIN reserved' = IF s.set = "reserved" THEN DOMAIN reserved \ {m}
                                                  ELSE DOMAIN reserved
      /\ \A x \in DOMAIN reserved' : reserved'[x] = reserved[x]
  BY <1>3, <1>4 DEF ZRem
<1>7. s.set = "reserved" => \A x \in s.due : x \in Member /\ Past(x)
  BY <1>2, <1>3 DEF PlaceInv, Stale, Searched
<1>8. \A v \in Worker : Working(v) => /\ worker[v].member \in DOMAIN reserved'
                                      /\ reserved'[worker[v].member] > 0
  <2>1. ASSUME NEW v \in Worker, Working(v)
        PROVE  /\ worker[v].member \in DOMAIN reserved'
               /\ reserved'[worker[v].member] > 0
    <3>1. worker[v].member \in DOMAIN reserved /\ reserved[worker[v].member] > 0
      BY <2>1 DEF PlaceInv, Attended
    <3>2. s.set = "reserved" => worker[v].member # m
      <4>1. s.set = "reserved" /\ m \in DOMAIN reserved => reserved[m] = 0
        BY <1>7 DEF Past
      <4> QED BY <3>1, <4>1
    <3> QED BY <1>6, <3>1, <3>2
  <2> QED BY <2>1
<1>9. CASE m \notin DOMAIN (IF s.set = "delayed" THEN delayed ELSE reserved)
  <2>1. PICK next : next = Onward(s.set, s.due \ {m})
    OBVIOUS
  <2>2. Become(w, next) /\ next.pc \in {"promote", "scan", "claim"}
    BY <1>4, <1>9, <2>1, OnwardSearch
  <2>3. /\ Distinct' /\ Apart(delayed)' /\ Apart(reserved)' /\ OneHand'
        /\ (\A j \in Job : Exclusive(j))' /\ Known' /\ Ages /\ Rests
    BY <1>3, <1>6, <2>2, Gainless
  <2>4. Searched(next) => \A x \in next.due : x \in Member /\ Past(x)
    BY <1>7, <2>1, OnwardSearch
  <2>5. Stale'
    BY <1>3, <2>2, <2>3, <2>4, HandMoves, StaleKept
  <2>6. Attended'
    BY <1>8, <2>2, AttendedKept
  <2> QED BY <2>3, <2>5, <2>6 DEF PlaceInv
<1>10. CASE m \in DOMAIN (IF s.set = "delayed" THEN delayed ELSE reserved)
  <2>1. PICK next : next = [pc |-> "push", set |-> s.set, due |-> s.due \ {m}, member |-> m]
    OBVIOUS
  <2>2. Become(w, next) /\ next.pc = "push" /\ next.member = m
    BY <1>4, <1>10, <2>1
  <2>3. /\ In(delayed, m.job) \/ In(reserved, m.job)
        /\ Placed(m)
        /\ s.set = "delayed" => In(delayed, m.job) /\ ~In(delayed, m.job)'
        /\ s.set = "reserved" => In(reserved, m.job) /\ ~In(reserved, m.job)'
    BY <1>3, <1>6, <1>10 DEF In, PlaceInv, Apart, Placed
  <2>4. /\ ~Listed(m.job) /\ ~Carried(m.job) /\ m.job \notin failed
        /\ ~In(delayed, m.job)' /\ ~In(reserved, m.job)'
    <3>1. In(delayed, m.job)' => In(delayed, m.job)
      BY <1>6 DEF In
    <3>2. In(reserved, m.job)' => In(reserved, m.job)
      BY <1>6 DEF In
    <3> QED BY <1>3, <1>5, <2>3, <3>1, <3>2 DEF PlaceInv, Exclusive
  <2>5. OneHand' /\ \A k \in Job : Carried(k)' => Carried(k) \/ m.job = k
    BY <2>2, <2>4, HandKept DEF PlaceInv
  <2>6. Distinct' /\ Apart(delayed)' /\ Apart(reserved)'
    BY <1>3, <1>6 DEF PlaceInv, Distinct, Apart
  <2>7. ASSUME NEW k \in Job
        PROVE  Exclusive(k)'
    <3>1. /\ Listed(k)' => Listed(k)
          /\ In(delayed, k)' => In(delayed, k)
          /\ In(reserved, k)' => In(reserved, k)
          /\ k \in failed' => k \in failed
      BY <1>3, <1>6 DEF Listed, In
    <3>2. CASE k = m.job
      BY <1>3, <2>4, <3>1, <3>2 DEF Exclusive
    <3>3. CASE k # m.job
      BY <2>5, <3>1, <3>3, ExclusiveKept DEF PlaceInv
    <3> QED BY <3>2, <3>3
  <2>8. \A x \in Member : Placed(x)' => Placed(x)
    <3>1. \A v \in Worker : InHand(v)' => \/ v = w /\ worker'[v].member = m
                                          \/ worker'[v] = worker[v] /\ InHand(v)
      BY <2>2, HandMoves DEF InHand
    <3> QED BY <1>3, <1>6, <2>3, <3>1 DEF Placed
  <2>9. Ages /\ Rests
    BY <1>6, <2>8 DEF Ages, Rests, Member
  <2>10. Known'
    BY <1>3, <2>8, <2>9, KnownKept DEF PlaceInv, Known
  <2>11. Searched(next) => \A x \in next.due : x \in Member /\ Past(x)
    BY <1>7, <2>1 DEF Searched
  <2>12. Stale'
    BY <1>3, <2>2, <2>9, <2>11, HandMoves, StaleKept
  <2>13. Attended'
    BY <1>8, <2>2, AttendedKept
  <2> QED BY <2>5, <2>6, <2>7, <2>10, <2>12, <2>13 DEF PlaceInv
<1> QED BY <1>9, <1>10

(* A promoted member enters the list.                                         *)
LEMMA PushReadyPlaces ==
  ASSUME TypeOK, TypeOK', PlaceInv, NEW w \in Worker, PushReady(w)
  PROVE  PlaceInv'
<1>1. worker[w] \in WorkerState
  BY DEF TypeOK
<1>2. PICK s \in WorkerState : s = worker[w]
  BY <1>1
<1>3. /\ s.pc = "push" /\ s.member \in Member /\ s.due \in SUBSET Member
      /\ s.member.job \in Job
      /\ UNCHANGED <<delayed, reserved, failed, accepted>>
  BY <1>2, PcTells DEF PushReady, history, Member
<1>4. PICK m \in Member : m = s.member
  BY <1>3
<1>5. m.job \in Job /\ ready' = <<m>> \o ready
  BY <1>2, <1>3, <1>4 DEF PushReady
<1>6. PICK next : /\ Become(w, next)
                  /\ next = IF KeyOf(m) # NoKey THEN [s EXCEPT !.pc = "unhold"]
                            ELSE Onward(s.set, s.due)
  BY <1>2, <1>4 DEF PushReady
<1>8. /\ next.pc \notin {"push", "settle", "handle", "find", "release"}
      /\ Searched(next) => s.set = "reserved" /\ next.due = s.due
  <2>1. CASE KeyOf(m) # NoKey
    <3>1. next = [pc |-> "unhold", set |-> s.set, due |-> s.due, member |-> s.member]
      BY <1>3, <1>6, <2>1, PushRecord
    <3> QED BY <3>1 DEF Searched
  <2>2. CASE KeyOf(m) = NoKey
    BY <1>6, <2>2, OnwardSearch
  <2> QED BY <2>1, <2>2
<1>7. Become(w, next)
  BY <1>6
<1>9. Hands(w, m.job) /\ Carried(m.job) /\ Placed(m)
  BY <1>2, <1>3, <1>4 DEF Hands, InHand, Carried, Placed
<1>10. /\ ~Listed(m.job) /\ ~In(delayed, m.job) /\ ~In(reserved, m.job) /\ m.job \notin failed
  BY <1>5, <1>9 DEF PlaceInv, Exclusive
<1>11. /\ OneHand' /\ ~Carried(m.job)'
       /\ \A k \in Job : Carried(k)' => Carried(k)
  BY <1>5, <1>7, <1>8, <1>9, HandKept DEF PlaceInv
<1>12. /\ \A k \in Job : Listed(k)' <=> Listed(k) \/ k = m.job
       /\ \A i \in DOMAIN ready' : \/ ready'[i] = m
                                   \/ \E h \in DOMAIN ready : ready'[i] = ready[h]
       /\ Distinct'
  BY <1>5, <1>10, PushPlaces DEF PlaceInv
<1>13. Apart(delayed)' /\ Apart(reserved)'
  BY <1>3 DEF PlaceInv, Apart
<1>14. ASSUME NEW k \in Job
       PROVE  Exclusive(k)'
  <2>1. (In(delayed, k)' <=> In(delayed, k)) /\ (In(reserved, k)' <=> In(reserved, k))
    BY <1>3 DEF In
  <2>2. CASE k = m.job
    BY <1>3, <1>10, <1>11, <2>1, <2>2 DEF Exclusive
  <2>3. CASE k # m.job
    BY <1>3, <1>11, <1>12, <2>1, <2>3, ExclusiveKept DEF PlaceInv
  <2> QED BY <2>2, <2>3
<1>15. \A x \in Member : Placed(x)' => Placed(x)
  <2>1. \A v \in Worker : InHand(v)' => worker'[v] = worker[v] /\ InHand(v)
    BY <1>7, <1>8, HandMoves DEF InHand
  <2> QED BY <1>3, <1>9, <1>12, <2>1 DEF Placed
<1>16. Ages /\ Rests
  BY <1>3, <1>15 DEF Ages, Rests, Member
<1>17. Known'
  BY <1>3, <1>15, <1>16, KnownKept DEF PlaceInv, Known
<1>18. Stale'
  <2>1. Searched(next) => \A x \in next.due : x \in Member /\ Past(x)
    BY <1>2, <1>3, <1>7, <1>8 DEF PlaceInv, Stale, Searched
  <2> QED BY <1>3, <1>7, <1>8, <1>16, <2>1, HandMoves, StaleKept
<1>19. Attended'
  <2>1. \A v \in Worker : Working(v) => /\ worker[v].member \in DOMAIN reserved'
                                        /\ reserved'[worker[v].member] > 0
    BY <1>3 DEF PlaceInv, Attended
  <2> QED BY <1>7, <1>8, <2>1, AttendedKept
<1> QED BY <1>11, <1>12, <1>13, <1>14, <1>17, <1>18, <1>19 DEF PlaceInv

(* A claim moves the list's last member to the reserved set, an attempt older. *)
LEMMA ClaimPlaces ==
  ASSUME TypeOK, TypeOK', PlaceInv, NEW w \in Worker, Claim(w), ready # << >>,
         ~Spend("lapse")
  PROVE  PlaceInv'
<1>1. worker[w] \in WorkerState /\ DOMAIN reserved \subseteq Member
  BY DEF TypeOK
<1>2. PICK last : last = ready[Len(ready)]
  OBVIOUS
<1>3. PICK m : m = [last EXCEPT !.attempts = @ + 1]
  OBVIOUS
<1>4. PICK left \in 0..Visibility :
      /\ left # 0
      /\ ready' = SubSeq(ready, 1, Len(ready) - 1)
      /\ reserved' = ZAdd(reserved, m, left)
      /\ Become(w, [pc |-> "handle", member |-> m])
      /\ UNCHANGED <<delayed, failed, accepted>>
  BY <1>2, <1>3 DEF Claim, Reserve, history
<1>5. /\ last \in Member /\ Listed(last.job) /\ Placed(last)
      /\ \A k \in Job : Listed(k)' => Listed(k)
      /\ ~Listed(last.job)'
      /\ \A i \in DOMAIN ready' : i \in DOMAIN ready /\ ready'[i] = ready[i]
      /\ Distinct'
  BY <1>2, <1>4, PopPlaces DEF PlaceInv
<1>6. /\ m \in Member /\ m.job = last.job /\ m.attempts = last.attempts + 1
      /\ m.job \in Job /\ last.attempts \in Nat
  BY <1>3, <1>5 DEF Member
<1>7. /\ DOMAIN reserved' = DOMAIN reserved \cup {m} /\ reserved'[m] = left
      /\ \A x \in DOMAIN reserved \ {m} : reserved'[x] = reserved[x]
  BY <1>4 DEF ZAdd
<1>8. /\ ~In(delayed, m.job) /\ ~In(reserved, m.job) /\ ~Carried(m.job) /\ m.job \notin failed
  BY <1>5, <1>6 DEF PlaceInv, Exclusive
<1>9. m \notin DOMAIN reserved
  BY <1>8 DEF In
<1>10. PICK next : next = [pc |-> "handle", member |-> m]
  OBVIOUS
<1>11. Become(w, next) /\ next.pc = "handle" /\ next.member = m /\ ~Searched(next)
  BY <1>4, <1>10 DEF Searched
<1>12. OneHand' /\ \A k \in Job : Carried(k)' => Carried(k)
  BY <1>11, HandKept DEF PlaceInv
<1>13. Apart(delayed)' /\ Apart(reserved)'
  BY <1>4, <1>7, <1>8 DEF PlaceInv, Apart, In
<1>14. ASSUME NEW k \in Job
       PROVE  Exclusive(k)'
  <2>1. (In(delayed, k)' <=> In(delayed, k)) /\ (In(reserved, k)' => In(reserved, k) \/ k = m.job)
    BY <1>4, <1>7 DEF In
  <2>2. CASE k = m.job
    BY <1>4, <1>5, <1>6, <1>8, <1>12, <2>1, <2>2 DEF Exclusive
  <2>3. CASE k # m.job
    BY <1>4, <1>5, <1>12, <2>1, <2>3, ExclusiveKept DEF PlaceInv
  <2> QED BY <2>2, <2>3
<1>15. \A x \in Member : Placed(x)' => Placed(x) \/ x = m
  <2>1. \A v \in Worker : InHand(v)' => worker'[v] = worker[v] /\ InHand(v)
    BY <1>11, HandMoves DEF InHand
  <2> QED BY <1>4, <1>5, <1>7, <2>1 DEF Placed
<1>16. Ages
  <2>1. last.attempts <= m.attempts
    BY <1>6
  <2> QED BY <1>5, <1>6, <1>15, <2>1 DEF Ages, Member
<1>17. Rests
  <2>1. last.attempts < m.attempts
    BY <1>6
  <2> QED BY <1>5, <1>6, <1>7, <2>1 DEF Rests
<1>18. Known'
  <2>1. m.job \in accepted
    BY <1>5, <1>6 DEF PlaceInv, Known
  <2> QED BY <1>4, <1>15, <1>16, <2>1, KnownKept DEF PlaceInv, Known
<1>19. Stale'
  BY <1>4, <1>11, <1>16, <1>17, HandMoves, StaleKept
<1>20. Attended'
  <2>1. \A v \in Worker : Working(v) => /\ worker[v].member \in DOMAIN reserved'
                                        /\ reserved'[worker[v].member] > 0
                                        /\ worker[v].member.job # m.job
    BY <1>7, <1>8, <1>9 DEF PlaceInv, Attended, In
  <2>2. left > 0
    BY <1>4, RedisAssumption
  <2> QED BY <1>7, <1>11, <2>1, <2>2, AttendedKept
<1> QED BY <1>5, <1>12, <1>13, <1>14, <1>18, <1>19, <1>20 DEF PlaceInv

(* A settled job leaves the reserved set, for good or into the worker's hand. *)
LEMMA ReleasePlaces ==
  ASSUME TypeOK, TypeOK', PlaceInv, NEW w \in Worker, Release(w)
  PROVE  PlaceInv'
<1>1. worker[w] \in WorkerState /\ DOMAIN reserved \subseteq Member
  BY DEF TypeOK
<1>2. PICK s \in WorkerState : s = worker[w]
  BY <1>1
<1>3. s.pc = "release" /\ s.member \in Member /\ Working(w)
  BY <1>2, PcTells DEF Release, Working
<1>4. PICK m \in Member : m = s.member
  BY <1>3
<1>5. m.job \in Job /\ m \in DOMAIN reserved /\ s.found = m
  BY <1>2, <1>3, <1>4 DEF PlaceInv, Attended, Member
<1>6. /\ reserved' = ZRem(reserved, m) /\ Become(w, After(m, s.outcome))
      /\ UNCHANGED <<ready, delayed, failed, accepted>>
  BY <1>2, <1>4, <1>5 DEF Release, history
<1>7. /\ DOMAIN reserved' = DOMAIN reserved \ {m}
      /\ \A x \in DOMAIN reserved' : reserved'[x] = reserved[x]
  BY <1>6 DEF ZRem
<1>8. In(reserved, m.job) /\ ~In(reserved, m.job)' /\ Placed(m)
  BY <1>5, <1>7 DEF PlaceInv, Apart, In, Placed
<1>9. /\ ~Listed(m.job) /\ ~In(delayed, m.job) /\ ~Carried(m.job) /\ m.job \notin failed
  BY <1>5, <1>8 DEF PlaceInv, Exclusive
<1>10. \A v \in Worker \ {w} : Working(v) => /\ worker[v].member \in DOMAIN reserved'
                                             /\ reserved'[worker[v].member] > 0
  <2>1. ASSUME NEW v \in Worker \ {w}, Working(v)
        PROVE  /\ worker[v].member \in DOMAIN reserved'
               /\ reserved'[worker[v].member] > 0
    <3>1. worker[v].member \in DOMAIN reserved /\ reserved[worker[v].member] > 0
      BY <2>1 DEF PlaceInv, Attended
    <3>2. worker[v].member # m
      BY <1>2, <1>3, <1>4, <2>1 DEF PlaceInv, Attended
    <3> QED BY <1>7, <3>1, <3>2
  <2> QED BY <2>1
<1>11. PICK next : next = After(m, s.outcome)
  OBVIOUS
<1>12. /\ Become(w, next) /\ ~Searched(next) /\ next.pc \in {"scan", "settle"}
       /\ next.pc = "settle" => next.member = m
  BY <1>6, <1>11 DEF After, Idle, Searched
<1>13. OneHand' /\ \A k \in Job : Carried(k)' => Carried(k) \/ m.job = k
  BY <1>9, <1>12, HandKept DEF PlaceInv
<1>14. Distinct' /\ Apart(delayed)' /\ Apart(reserved)'
  BY <1>6, <1>7 DEF PlaceInv, Distinct, Apart
<1>15. ASSUME NEW k \in Job
       PROVE  Exclusive(k)'
  <2>1. /\ Listed(k)' => Listed(k)
        /\ In(delayed, k)' => In(delayed, k)
        /\ In(reserved, k)' => In(reserved, k)
        /\ k \in failed' => k \in failed
    BY <1>6, <1>7 DEF Listed, In
  <2>2. CASE k = m.job
    BY <1>6, <1>8, <1>9, <2>1, <2>2 DEF Exclusive
  <2>3. CASE k # m.job
    BY <1>13, <2>1, <2>3, ExclusiveKept DEF PlaceInv
  <2> QED BY <2>2, <2>3
<1>16. \A x \in Member : Placed(x)' => Placed(x)
  <2>1. \A v \in Worker : InHand(v)' => \/ v = w /\ worker'[v].member = m
                                        \/ worker'[v] = worker[v] /\ InHand(v)
    BY <1>12, HandMoves DEF InHand
  <2> QED BY <1>6, <1>7, <1>8, <2>1 DEF Placed
<1>17. Ages /\ Rests
  BY <1>7, <1>16 DEF Ages, Rests, Member
<1>18. Known'
  BY <1>6, <1>16, <1>17, KnownKept DEF PlaceInv, Known
<1>19. Stale'
  BY <1>6, <1>12, <1>17, HandMoves, StaleKept
<1>20. Attended'
  BY <1>10, <1>12, AttendedKept
<1> QED BY <1>13, <1>14, <1>15, <1>18, <1>19, <1>20 DEF PlaceInv

(* A failed job enters the failed list, a retried one the list or the delayed *)
(* set.                                                                       *)
LEMMA SettlePlaces ==
  ASSUME TypeOK, TypeOK', PlaceInv, NEW w \in Worker, Settle(w)
  PROVE  PlaceInv'
<1>1. worker[w] \in WorkerState
  BY DEF TypeOK
<1>2. PICK s \in WorkerState : s = worker[w]
  BY <1>1
<1>3. s.pc = "settle" /\ s.member \in Member /\ UNCHANGED <<reserved, accepted>>
  BY <1>2, PcTells DEF Settle, history
<1>4. PICK m \in Member : m = s.member
  BY <1>3
<1>5. m.job \in Job
  BY DEF Member
<1>6. Become(w, Idle) /\ Idle.pc = "scan" /\ ~Searched(Idle)
  BY DEF Settle, Idle, Searched
<1>7. Hands(w, m.job) /\ Carried(m.job) /\ Placed(m)
  BY <1>2, <1>3, <1>4 DEF Hands, InHand, Carried, Placed
<1>8. /\ ~Listed(m.job) /\ ~In(delayed, m.job) /\ ~In(reserved, m.job) /\ m.job \notin failed
  BY <1>5, <1>7 DEF PlaceInv, Exclusive
<1>9. /\ OneHand' /\ ~Carried(m.job)'
      /\ \A k \in Job : Carried(k)' => Carried(k)
  BY <1>5, <1>6, <1>7, HandKept DEF PlaceInv
<1>10. /\ Distinct' /\ Apart(delayed)'
       /\ \A k \in Job \ {m.job} : /\ Listed(k)' => Listed(k)
                                   /\ In(delayed, k)' => In(delayed, k)
                                   /\ k \in failed' => k \in failed
       /\ Listed(m.job)' => ~In(delayed, m.job)' /\ m.job \notin failed'
       /\ In(delayed, m.job)' => m.job \notin failed'
       /\ \A i \in DOMAIN ready' : \/ ready'[i] = m
                                   \/ \E h \in DOMAIN ready : ready'[i] = ready[h]
       /\ \A x \in DOMAIN delayed' : x = m \/ x \in DOMAIN delayed
       /\ failed' \subseteq failed \cup {m.job}
  <2>1. CASE s.outcome = "failed"
    <3>1. failed' = failed \cup {m.job} /\ UNCHANGED <<ready, delayed>>
      BY <1>2, <1>4, <2>1 DEF Settle
    <3>2. Distinct' /\ Apart(delayed)'
      BY <3>1 DEF PlaceInv, Distinct, Apart
    <3>3. \A k \in Job : (Listed(k)' <=> Listed(k)) /\ (In(delayed, k)' <=> In(delayed, k))
      BY <3>1 DEF Listed, In
    <3> QED BY <1>5, <1>8, <3>1, <3>2, <3>3
  <2>2. CASE s.outcome # "failed"
    <3>1. Enqueue(m, Def[m.job].delay) /\ UNCHANGED failed
      BY <1>2, <1>4, <2>2 DEF Settle
    <3>2. Def[m.job].delay \in Nat
      BY <1>5, Definitions
    <3>3. Distinct /\ Apart(delayed)
      BY DEF PlaceInv
    <3> QED BY <1>8, <3>1, <3>2, <3>3, EnqueuePlaces
  <2> QED BY <2>1, <2>2
<1>11. Apart(reserved)' /\ \A k \in Job : In(reserved, k)' <=> In(reserved, k)
  BY <1>3 DEF PlaceInv, Apart, In
<1>12. ASSUME NEW k \in Job
       PROVE  Exclusive(k)'
  <2>1. CASE k = m.job
    BY <1>8, <1>9, <1>10, <1>11, <2>1 DEF Exclusive
  <2>2. CASE k # m.job
    BY <1>9, <1>10, <1>11, <2>2, ExclusiveKept DEF PlaceInv
  <2> QED BY <2>1, <2>2
<1>13. \A x \in Member : Placed(x)' => Placed(x)
  <2>1. \A v \in Worker : InHand(v)' => worker'[v] = worker[v] /\ InHand(v)
    BY <1>6, HandMoves DEF InHand
  <2> QED BY <1>3, <1>7, <1>10, <2>1 DEF Placed
<1>14. Ages /\ Rests
  BY <1>3, <1>13 DEF Ages, Rests, Member
<1>15. Known'
  <2>1. m.job \in accepted /\ failed \subseteq accepted
    BY <1>7 DEF PlaceInv, Known
  <2> QED BY <1>3, <1>10, <1>13, <1>14, <2>1, KnownKept DEF PlaceInv, Known
<1>16. Stale'
  BY <1>3, <1>6, <1>14, HandMoves, StaleKept
<1>17. Attended'
  <2>1. \A v \in Worker : Working(v) => /\ worker[v].member \in DOMAIN reserved'
                                        /\ reserved'[worker[v].member] > 0
    BY <1>3 DEF PlaceInv, Attended
  <2> QED BY <1>6, <2>1, AttendedKept
<1> QED BY <1>9, <1>10, <1>11, <1>12, <1>15, <1>16, <1>17 DEF PlaceInv

(* A crash takes at most what the worker had in its hand.                     *)
LEMMA CrashPlaces ==
  ASSUME TypeOK, TypeOK', PlaceInv, NEW w \in Worker, Crash(w)
  PROVE  PlaceInv'
<1>1. /\ Become(w, Idle) /\ UNCHANGED <<ready, delayed, reserved, failed, accepted>>
      /\ Idle.pc = "scan" /\ ~Searched(Idle)
  BY DEF Crash, redisVars, history, Idle, Searched
<1>2. /\ Distinct' /\ Apart(delayed)' /\ Apart(reserved)' /\ OneHand'
      /\ (\A j \in Job : Exclusive(j))' /\ Known' /\ Ages /\ Rests
  BY <1>1, Gainless
<1>3. Stale'
  BY <1>1, <1>2, HandMoves, StaleKept
<1>4. Attended'
  <2>1. \A v \in Worker : Working(v) => /\ worker[v].member \in DOMAIN reserved'
                                        /\ reserved'[worker[v].member] > 0
    BY <1>1 DEF PlaceInv, Attended
  <2> QED BY <1>1, <2>1, AttendedKept
<1> QED BY <1>2, <1>3, <1>4 DEF PlaceInv

(* The clock moves no job, and no reservation under a worker comes due.       *)
LEMMA ElapsePlaces ==
  ASSUME TypeOK, TypeOK', PlaceInv, Elapse, \A w \in Worker : ~Lapses(w)
  PROVE  PlaceInv'
<1>1. UNCHANGED <<ready, failed, accepted, worker>>
  BY DEF Elapse, history
<1>2. /\ DOMAIN delayed' = DOMAIN delayed /\ DOMAIN reserved' = DOMAIN reserved
      /\ \A x \in DOMAIN reserved : reserved'[x] = IF reserved[x] = 0 THEN 0
                                                   ELSE reserved[x] - 1
  BY DEF Elapse, Sooner
<1>3. Distinct' /\ Apart(delayed)' /\ Apart(reserved)' /\ OneHand'
  BY <1>1, <1>2 DEF PlaceInv, Distinct, Apart, OneHand, Hands, InHand
<1>4. ASSUME NEW k \in Job
      PROVE  Exclusive(k)'
  BY <1>1, <1>2 DEF PlaceInv, Exclusive, Listed, In, Carried, Hands, InHand
<1>5. \A x \in Member : Placed(x)' <=> Placed(x)
  BY <1>1, <1>2 DEF Placed, InHand
<1>6. Known'
  BY <1>1, <1>5 DEF PlaceInv, Known
<1>7. \A m \in Member : Past(m) => Past(m)'
  BY <1>1, <1>2, <1>5 DEF Past
<1>8. Stale'
  <2>1. \A v \in Worker : Searched(worker[v]) => worker[v].due \in SUBSET Member
    BY PcTells DEF Searched, TypeOK
  <2>2. ASSUME NEW v \in Worker, Searched(worker'[v]), NEW m \in worker'[v].due
        PROVE  Past(m)'
    <3>1. m \in Member /\ Past(m)
      BY <1>1, <2>1, <2>2 DEF PlaceInv, Stale
    <3> QED BY <1>7, <3>1
  <2> QED BY <2>2 DEF Stale, Searched
<1>9. Attended'
  <2>1. ASSUME NEW v \in Worker, Working(v)
        PROVE  /\ worker[v].member \in DOMAIN reserved'
               /\ reserved'[worker[v].member] > 0
    <3>1. worker[v].member \in DOMAIN reserved /\ reserved[worker[v].member] > 0
      BY <2>1 DEF PlaceInv, Attended
    <3>2. PICK n : n = reserved[worker[v].member]
      OBVIOUS
    <3>3. n # 1 /\ n \in Nat
      BY <2>1, <3>1, <3>2, RedisAssumption DEF Lapses, TypeOK
    <3> QED BY <1>2, <3>1, <3>2, <3>3
  <2> QED BY <1>1, <2>1 DEF PlaceInv, Attended, Working
<1> QED BY <1>3, <1>4, <1>6, <1>8, <1>9 DEF PlaceInv

(* A dispatched job is new: it enters the list or the delayed set, and what    *)
(* it replaces leaves.                                                        *)
LEMMA DispatchPlaces ==
  ASSUME TypeOK, TypeOK', PlaceInv, NEW j \in Job, Dispatch(j)
  PROVE  PlaceInv'
<1>1. /\ j \notin accepted /\ accepted' = accepted \cup {j}
      /\ UNCHANGED <<reserved, failed, worker>>
  BY DEF Dispatch
<1>2. PICK m \in Member : m = Fresh(j) /\ m.job = j
  BY Definitions
<1>3. \A x \in Member : Placed(x) => x.job # j
  BY <1>1 DEF PlaceInv, Known
<1>4. DOMAIN delayed \subseteq Member /\ DOMAIN reserved \subseteq Member /\ ready \in Seq(Member)
  BY DEF TypeOK
<1>5. /\ ~Listed(j) /\ ~In(delayed, j) /\ ~In(reserved, j) /\ ~Carried(j) /\ j \notin failed
  <2>1. ~Listed(j)
    <3>1. \A i \in DOMAIN ready : ready[i] \in Member
      BY <1>4
    <3> QED BY <1>3, <3>1 DEF Listed, Placed
  <2>2. ~In(delayed, j) /\ ~In(reserved, j)
    BY <1>3, <1>4 DEF In, Placed
  <2>3. ~Carried(j)
    <3>1. \A w \in Worker : InHand(w) => worker[w].member \in Member
      BY PcTells DEF TypeOK, InHand
    <3> QED BY <1>3, <3>1 DEF Carried, Hands, Placed
  <2>4. j \notin failed
    BY <1>1 DEF PlaceInv, Known
  <2> QED BY <2>1, <2>2, <2>3, <2>4
<1>6. /\ Distinct' /\ Apart(delayed)'
      /\ \A k \in Job \ {j} : /\ Listed(k)' => Listed(k)
                              /\ In(delayed, k)' => In(delayed, k)
      /\ ~(Listed(j)' /\ In(delayed, j)')
      /\ \A i \in DOMAIN ready' : \/ ready'[i] = m
                                  \/ \E h \in DOMAIN ready : ready'[i] = ready[h]
      /\ \A x \in DOMAIN delayed' : x = m \/ x \in DOMAIN delayed
  <2>1. CASE Push(j)
    <3>1. Enqueue(m, Def[j].wait) /\ Def[j].wait \in Nat
      BY <1>2, <2>1, Definitions DEF Push
    <3>2. Distinct /\ Apart(delayed)
      BY DEF PlaceInv
    <3> QED BY <1>2, <1>5, <3>1, <3>2, EnqueuePlaces
  <2>2. CASE PushDebounced(j)
    <3>1. PICK previous : delayed' = ZAdd(ZRem(delayed, previous), m, Def[j].wait)
      BY <1>2, <2>2 DEF PushDebounced
    <3>2. DOMAIN delayed' = (DOMAIN delayed \ {previous}) \cup {m}
      BY <3>1 DEF ZAdd, ZRem
    <3>3. UNCHANGED ready
      BY <2>2 DEF PushDebounced
    <3>4. Apart(delayed)'
      BY <1>2, <1>5, <3>2 DEF PlaceInv, Apart, In
    <3>5. \A k \in Job \ {j} : In(delayed, k)' => In(delayed, k)
      BY <1>2, <3>2 DEF In
    <3>6. Distinct' /\ \A k \in Job : Listed(k)' <=> Listed(k)
      BY <3>3 DEF PlaceInv, Distinct, Listed
    <3> QED BY <1>5, <3>2, <3>3, <3>4, <3>5, <3>6
  <2> QED BY <2>1, <2>2 DEF Dispatch
<1>7. Apart(reserved)' /\ OneHand' /\ \A k \in Job : /\ In(reserved, k)' <=> In(reserved, k)
                                                     /\ Carried(k)' <=> Carried(k)
  BY <1>1 DEF PlaceInv, Apart, In, OneHand, Carried, Hands, InHand
<1>8. ASSUME NEW k \in Job
      PROVE  Exclusive(k)'
  <2>1. CASE k = j
    BY <1>1, <1>5, <1>6, <1>7, <2>1 DEF Exclusive
  <2>2. CASE k # j
    BY <1>1, <1>6, <1>7, <2>2, ExclusiveKept DEF PlaceInv
  <2> QED BY <2>1, <2>2
<1>9. \A x \in Member : Placed(x)' => Placed(x) \/ x = m
  BY <1>1, <1>6 DEF Placed, InHand
<1>10. Ages /\ Rests
  BY <1>1, <1>2, <1>9 DEF Ages, Rests, Member
<1>11. Known'
  BY <1>1, <1>2, <1>9 DEF PlaceInv, Known
<1>12. Attended'
  BY <1>1 DEF PlaceInv, Attended, Working
<1>13. Stale'
  <2>1. \A v \in Worker : Searched(worker[v]) => worker[v].due \in SUBSET Member
    BY PcTells DEF Searched, TypeOK
  <2>2. ASSUME NEW v \in Worker, Searched(worker'[v]), NEW x \in worker'[v].due
        PROVE  Past(x)'
    <3>1. x \in Member /\ Past(x)
      BY <1>1, <2>1, <2>2 DEF PlaceInv, Stale
    <3> QED BY <1>1, <1>10, <3>1, PastKept
  <2> QED BY <2>2 DEF Stale, Searched
<1> QED BY <1>6, <1>7, <1>8, <1>11, <1>12, <1>13 DEF PlaceInv

(* As long as no reservation has lapsed under a worker, every job has its one *)
(* place.                                                                     *)
Placing == spent.lapse = 0 => PlaceInv

(* Nothing is placed at first.                                                *)
LEMMA PlacingInit ==
  ASSUME Init
  PROVE  PlaceInv
<1>1. /\ DOMAIN ready = {} /\ DOMAIN delayed = {} /\ DOMAIN reserved = {} /\ failed = {}
      /\ \A w \in Worker : worker[w].pc = "scan"
  BY DEF Init, Idle
<1>2. Distinct /\ Apart(delayed) /\ Apart(reserved)
  BY <1>1 DEF Distinct, Apart
<1>3. OneHand /\ \A k \in Job : ~Carried(k) /\ ~Listed(k) /\ ~In(delayed, k) /\ ~In(reserved, k)
  BY <1>1 DEF OneHand, Carried, Hands, InHand, Listed, In
<1>4. \A k \in Job : Exclusive(k)
  BY <1>1, <1>3 DEF Exclusive
<1>5. Known /\ Attended /\ Stale
  BY <1>1 DEF Known, Placed, InHand, Attended, Working, Stale, Searched
<1> QED BY <1>2, <1>3, <1>4, <1>5 DEF PlaceInv

(* Every step keeps it, or spends a lapse.                                    *)
LEMMA PlacingStep ==
  ASSUME TypeOK, TypeOK', Placing, [Next]_vars
  PROVE  Placing'
<1> SUFFICES ASSUME spent'.lapse = 0
             PROVE  PlaceInv'
  BY DEF Placing
<1>1. ASSUME NEW j \in Job, Dispatch(j)
      PROVE  PlaceInv'
  <2>1. PlaceInv
    BY <1>1 DEF Placing, Dispatch
  <2> QED BY <1>1, <2>1, DispatchPlaces
<1>2. ASSUME NEW w \in Worker, WorkerStep(w)
      PROVE  PlaceInv'
  <2>1. UNCHANGED spent /\ ~Spend("lapse")
    <3>1. ~Spend("lapse")
      BY SpendTypes
    <3> QED BY <1>2, <3>1, WorkerSpends
  <2>2. PlaceInv
    BY <2>1 DEF Placing
  <2> QED BY <1>2, <2>1, <2>2, QuietPlaces, PromotePlaces, PushReadyPlaces, ClaimPlaces,
             ReleasePlaces, SettlePlaces DEF WorkerStep
<1>3. ASSUME NEW w \in Worker, Crash(w)
      PROVE  PlaceInv'
  <2>1. PICK what \in {"crash", "torn"} : Spend(what)
    BY <1>3 DEF Crash
  <2>2. PlaceInv
    BY <2>1, SpendTypes DEF Placing
  <2> QED BY <1>3, <2>2, CrashPlaces
<1>4. CASE Elapse
  <2>1. CASE \E w \in Worker : Lapses(w)
    <3>1. Spend("lapse")
      BY <1>4, <2>1 DEF Elapse
    <3> QED BY <3>1, SpendTypes
  <2>2. CASE ~\E w \in Worker : Lapses(w)
    <3>1. UNCHANGED spent
      BY <1>4, <2>2 DEF Elapse
    <3>2. PlaceInv
      BY <3>1 DEF Placing
    <3> QED BY <1>4, <2>2, <3>2, ElapsePlaces
  <2> QED BY <2>1, <2>2
<1>5. CASE UNCHANGED vars
  <2>1. UNCHANGED <<ready, delayed, reserved, failed, worker, accepted, spent>>
    BY <1>5 DEF vars, redisVars, history
  <2>2. PlaceInv
    BY <2>1 DEF Placing
  <2> QED BY <2>1, <2>2 DEF PlaceInv, Distinct, Apart, OneHand, Hands, InHand, Exclusive, Listed,
        In, Carried, Known, Placed, Attended, Working, Stale, Searched, Past
<1> QED BY <1>1, <1>2, <1>3, <1>4, <1>5 DEF Next

(* So it holds in every reachable state.                                      *)
LEMMA PlacingHolds == Spec => []Placing
<1>1. Init => Placing
  BY PlacingInit DEF Placing
<1>2. TypeOK /\ TypeOK' /\ Placing /\ [Next]_vars => Placing'
  BY PlacingStep
<1> QED BY <1>1, <1>2, TypeCorrect, PTL DEF Spec

(* What a set with at most one member counts.                                 *)
LEMMA AtMostOne ==
  ASSUME NEW S, \A x, y \in S : x = y
  PROVE  Cardinality(S) \in {0, 1} /\ (S = {} => Cardinality(S) = 0)
<1>1. CASE S = {}
  BY <1>1, FS_EmptySet
<1>2. ASSUME NEW x \in S
      PROVE  Cardinality(S) = 1
  <2>1. S = {x}
    BY <1>2
  <2> QED BY <2>1, FS_Singleton
<1> QED BY <1>1, <1>2

(* No job is in two places at once, whatever is dispatched, debounced and      *)
(* retried, and whichever workers crash with or without a job in hand, as long *)
(* as no reservation lapses under a worker (_promoteDue's comment: each job is *)
(* promoted exactly once).                                                     *)
THEOREM PlacedOnce == Spec => []OnePlace
<1>1. TypeOK /\ Placing => OnePlace
  <2> SUFFICES ASSUME TypeOK, PlaceInv, NEW j \in Job
               PROVE  Copies(j) <= 1
    BY DEF Placing, OnePlace
  <2>1. PICK L : L = {i \in DOMAIN ready : ready[i].job = j}
    OBVIOUS
  <2>2. PICK D : D = {m \in DOMAIN delayed : m.job = j}
    OBVIOUS
  <2>3. PICK R : R = {m \in DOMAIN reserved : m.job = j}
    OBVIOUS
  <2>4. PICK H : H = Held(j, "push") \cup Held(j, "settle")
    OBVIOUS
  <2>5. PICK F : F = {j} \cap failed
    OBVIOUS
  <2>6. (L # {} => Listed(j)) /\ \A x, y \in L : x = y
    BY <2>1 DEF Listed, PlaceInv, Distinct
  <2>7. (D # {} => In(delayed, j)) /\ \A x, y \in D : x = y
    BY <2>2 DEF In, PlaceInv, Apart
  <2>8. (R # {} => In(reserved, j)) /\ \A x, y \in R : x = y
    BY <2>3 DEF In, PlaceInv, Apart
  <2>9. (H # {} => Carried(j)) /\ \A x, y \in H : x = y
    <3>1. \A w \in H : w \in Worker /\ Hands(w, j)
      BY <2>4 DEF Held, Hands, InHand
    <3> QED BY <3>1 DEF Carried, PlaceInv, OneHand
  <2>10. (F # {} => j \in failed) /\ \A x, y \in F : x = y
    BY <2>5
  <2>11. /\ L # {} => D = {} /\ R = {} /\ H = {} /\ F = {}
         /\ D # {} => R = {} /\ H = {} /\ F = {}
         /\ R # {} => H = {} /\ F = {}
         /\ H # {} => F = {}
    BY <2>6, <2>7, <2>8, <2>9, <2>10 DEF PlaceInv, Exclusive
  <2>12. PICK l \in {0, 1} : l = Cardinality(L) /\ (L = {} => l = 0)
    BY <2>6, AtMostOne
  <2>13. PICK d \in {0, 1} : d = Cardinality(D) /\ (D = {} => d = 0)
    BY <2>7, AtMostOne
  <2>14. PICK r \in {0, 1} : r = Cardinality(R) /\ (R = {} => r = 0)
    BY <2>8, AtMostOne
  <2>15. PICK h \in {0, 1} : h = Cardinality(H) /\ (H = {} => h = 0)
    BY <2>9, AtMostOne
  <2>16. PICK f \in {0, 1} : f = Cardinality(F) /\ (F = {} => f = 0)
    BY <2>10, AtMostOne
  <2>17. Copies(j) = l + d + r + h + f
    BY <2>1, <2>2, <2>3, <2>4, <2>5, <2>12, <2>13, <2>14, <2>15, <2>16 DEF Copies
  <2>18. l + d + r + h + f <= 1
    BY <2>11, <2>12, <2>13, <2>14, <2>15, <2>16
  <2> QED BY <2>17, <2>18
<1> QED BY <1>1, TypeCorrect, PlacingHolds, PTL

-----------------------------------------------------------------------------
(* The promise of the class comment.  With no crash while a job is in a       *)
(* worker's hand and no lapsed reservation, the driver implements TaskQueue:  *)
(* each step moves at most one job, as one of TaskQueue's steps does.         *)

Waits(j) == Listed(j) \/ In(delayed, j) \/ Held(j, "push") # {}
Taken(j) == In(reserved, j) \/ Held(j, "settle") # {}

(* What has ended: it is in no place, and a worker about to acknowledge a job *)
(* has seen it succeed.                                                       *)
Ended ==
  /\ replaced \subseteq accepted /\ succeeded \subseteq accepted
  /\ \A j \in replaced : ~Waits(j) /\ ~Taken(j) /\ j \notin failed
  /\ \A w \in Worker : worker[w].pc \in {"find", "release"} /\ worker[w].outcome = "done"
       => worker[w].member.job \in succeeded

(* Where a job stands, by what it is in.                                      *)
LEMMA WhereTells ==
  ASSUME NEW j \in Job
  PROVE  /\ Waits(j) => Where(j) = "waiting"
         /\ ~Waits(j) /\ Taken(j) => Where(j) = "taken"
         /\ ~Waits(j) /\ ~Taken(j) =>
              /\ j \in failed => Where(j) = "failed"
              /\ j \notin failed =>
                   /\ j \in replaced => Where(j) = "replaced"
                   /\ j \notin replaced =>
                        /\ j \in succeeded => Where(j) = "done"
                        /\ j \notin succeeded =>
                             /\ j \in accepted => Where(j) = "lost"
                             /\ j \notin accepted => Where(j) = "new"
BY DEF Where, Waits, Taken

Same(k) ==
  /\ Waits(k)' <=> Waits(k)
  /\ Taken(k)' <=> Taken(k)
  /\ k \in failed' <=> k \in failed
  /\ k \in replaced' <=> k \in replaced
  /\ k \in accepted' <=> k \in accepted
  /\ (k \in succeeded' <=> k \in succeeded) \/ Waits(k) \/ Taken(k)

(* A job that stays where it is.                                              *)
LEMMA SameWhere ==
  ASSUME NEW k \in Job, Same(k)
  PROVE  Where(k)' = Where(k)
<1>1. Where(k) = IF Waits(k) THEN "waiting" ELSE IF Taken(k) THEN "taken"
                 ELSE IF k \in failed THEN "failed" ELSE IF k \in replaced THEN "replaced"
                 ELSE IF k \in succeeded THEN "done" ELSE IF k \in accepted THEN "lost"
                 ELSE "new"
  BY DEF Where, Waits, Taken
<1>2. Where(k)' = IF Waits(k)' THEN "waiting" ELSE IF Taken(k)' THEN "taken"
                  ELSE IF k \in failed' THEN "failed" ELSE IF k \in replaced' THEN "replaced"
                  ELSE IF k \in succeeded' THEN "done" ELSE IF k \in accepted' THEN "lost"
                  ELSE "new"
  BY DEF Where, Waits, Taken
<1> QED BY <1>1, <1>2 DEF Same

(* Who holds a job, when a worker moves.                                      *)
LEMMA HeldMoves ==
  ASSUME TypeOK, PlaceInv, NEW w \in Worker, NEW next, Become(w, next), NEW k \in Job,
         NEW pc \in {"push", "settle"}
  PROVE  Held(k, pc)' # {} <=> \/ next.pc = pc /\ next.member.job = k
                               \/ Held(k, pc) # {} /\ ~Hands(w, k)
<1>1. worker'[w] = next /\ \A v \in Worker \ {w} : worker'[v] = worker[v]
  BY HandMoves
<1>2. \A v \in Worker : v \in Held(k, pc) <=> worker[v].pc = pc /\ worker[v].member.job = k
  BY DEF Held
<1>3. \A v \in Worker : v \in Held(k, pc)' <=> worker'[v].pc = pc /\ worker'[v].member.job = k
  BY DEF Held
<1>4. \A v \in Worker : v \in Held(k, pc) => Hands(v, k)
  BY <1>2 DEF Hands, InHand
<1>5. Hands(w, k) => \A v \in Worker \ {w} : v \notin Held(k, pc)
  BY <1>4 DEF PlaceInv, OneHand
<1>6. Held(k, pc) \subseteq Worker /\ Held(k, pc)' \subseteq Worker
  BY DEF Held
<1>7. ASSUME Held(k, pc)' # {}
      PROVE  \/ next.pc = pc /\ next.member.job = k
             \/ Held(k, pc) # {} /\ ~Hands(w, k)
  <2>1. PICK v \in Worker : v \in Held(k, pc)'
    BY <1>6, <1>7
  <2> QED BY <1>1, <1>2, <1>3, <1>5, <2>1
<1>8. ASSUME next.pc = pc /\ next.member.job = k
      PROVE  Held(k, pc)' # {}
  BY <1>1, <1>3, <1>8
<1>9. ASSUME Held(k, pc) # {}, ~Hands(w, k)
      PROVE  Held(k, pc)' # {}
  <2>1. PICK v \in Worker : v \in Held(k, pc)
    BY <1>6, <1>9
  <2>2. v # w
    BY <1>4, <1>9, <2>1
  <2> QED BY <1>1, <1>2, <1>3, <2>1, <2>2
<1> QED BY <1>7, <1>8, <1>9

(* What a worker works on, when a worker moves.                               *)
LEMMA WorksMoves ==
  ASSUME TypeOK, NEW w \in Worker, NEW next, Become(w, next)
  PROVE  /\ Works(w)' = IF next.pc \in {"handle", "find", "release", "settle"}
                        THEN next.member.job ELSE None
         /\ \A v \in Worker \ {w} : Works(v)' = Works(v)
<1>1. worker'[w] = next /\ \A v \in Worker \ {w} : worker'[v] = worker[v]
  BY HandMoves
<1> QED BY <1>1 DEF Works

(* A worker works on a job, or on none.                                       *)
LEMMA WorksTells ==
  ASSUME TypeOK, NEW w \in Worker
  PROVE  /\ worker[w].pc \in {"handle", "find", "release", "settle"}
              => Works(w) = worker[w].member.job /\ Works(w) \in Job /\ Works(w) # None
         /\ worker[w].pc \notin {"handle", "find", "release", "settle"} => Works(w) = None
<1>1. worker[w] \in WorkerState
  BY DEF TypeOK
<1>2. worker[w].pc \in {"handle", "find", "release", "settle"} => worker[w].member.job \in Job
  BY <1>1, PcTells DEF Member
<1> QED BY <1>2, RedisAssumption DEF Works

(* Whoever works on a job has it reserved, or in its hand.                    *)
LEMMA WorksWhere ==
  ASSUME TypeOK, PlaceInv, NEW w \in Worker, NEW k \in Job, Works(w) = k
  PROVE  \/ /\ Working(w) /\ worker[w].member.job = k /\ In(reserved, k)
            /\ worker[w].member \in DOMAIN reserved /\ reserved[worker[w].member] > 0
         \/ worker[w].pc = "settle" /\ worker[w].member.job = k /\ Hands(w, k)
<1>1. worker[w].pc \in {"handle", "find", "release", "settle"} /\ worker[w].member.job = k
  BY WorksTells, RedisAssumption
<1>2. CASE worker[w].pc = "settle"
  BY <1>1, <1>2 DEF Hands, InHand
<1>3. CASE worker[w].pc # "settle"
  BY <1>1, <1>3 DEF Working, PlaceInv, Attended, In
<1> QED BY <1>2, <1>3

(* TaskQueue's steps, by where each job stands before and after.              *)
LEMMA Stutters ==
  ASSUME \A k \in Job : Where(k)' = Where(k), \A v \in Worker : Works(v)' = Works(v)
  PROVE  [Tasks!Next]_Tasks!vars
BY DEF Tasks!vars

(* A new job waits, and takes the place of jobs that waited.                  *)
LEMMA Submits ==
  ASSUME NEW j \in Job, NEW rs \in SUBSET Job, j \notin rs, Where(j) = "new",
         \A k \in rs : Where(k) = "waiting" /\ Where(k)' = "replaced",
         Where(j)' = "waiting",
         \A k \in Job : k # j /\ k \notin rs => Where(k)' = Where(k),
         \A v \in Worker : Works(v)' = Works(v)
  PROVE  [Tasks!Next]_Tasks!vars
<1>1. Tasks!Submit(j, rs)
  BY DEF Tasks!Submit, Tasks!Set
<1> QED BY <1>1 DEF Tasks!Next

(* A worker takes a waiting job nobody works on.                              *)
LEMMA Takes ==
  ASSUME NEW j \in Job, NEW w \in Worker, Works(w) = None, Where(j) = "waiting",
         \A v \in Worker : Works(v) # j,
         Where(j)' = "taken", Works(w)' = j,
         \A k \in Job \ {j} : Where(k)' = Where(k),
         \A v \in Worker \ {w} : Works(v)' = Works(v)
  PROVE  [Tasks!Next]_Tasks!vars
<1>1. Tasks!Take(w, j)
  BY DEF Tasks!Take, Tasks!Set, Tasks!AtWork
<1> QED BY <1>1 DEF Tasks!Next

(* A worker's job ends or waits again, and the worker is free.                *)
LEMMA Leaves ==
  ASSUME NEW w \in Worker, NEW j \in Job, Works(w) = j, Works(w)' = None,
         Where(j)' \in {"waiting", "done", "failed"},
         \A k \in Job \ {j} : Where(k)' = Where(k),
         \A v \in Worker \ {w} : Works(v)' = Works(v)
  PROVE  [Tasks!Next]_Tasks!vars
<1>1. PICK how \in {"waiting", "done", "failed"} : Where(j)' = how
  OBVIOUS
<1>2. j # None
  BY RedisAssumption
<1>3. CASE how = "waiting"
  <2>1. Tasks!Return(w)
    BY <1>1, <1>2, <1>3 DEF Tasks!Return, Tasks!Set, Tasks!Leave
  <2> QED BY <2>1 DEF Tasks!Next
<1>4. CASE how \in {"done", "failed"}
  <2>1. Tasks!Finish(w, how)
    BY <1>1, <1>2, <1>4 DEF Tasks!Finish, Tasks!Set, Tasks!Leave
  <2> QED BY <1>4, <2>1 DEF Tasks!Next
<1> QED BY <1>3, <1>4

(* A taken job nobody works on waits again.                                   *)
LEMMA Reclaims ==
  ASSUME NEW j \in Job, Where(j) = "taken", \A v \in Worker : Works(v) # j,
         Where(j)' = "waiting",
         \A k \in Job \ {j} : Where(k)' = Where(k),
         \A v \in Worker : Works(v)' = Works(v)
  PROVE  [Tasks!Next]_Tasks!vars
<1>1. Tasks!Reclaim(j)
  BY DEF Tasks!Reclaim, Tasks!Set, Tasks!AtWork
<1> QED BY <1>1 DEF Tasks!Next

(* A worker leaves its job where it is.                                       *)
LEMMA Vanishes ==
  ASSUME NEW w \in Worker, \A k \in Job : Where(k)' = Where(k), Works(w)' = None,
         \A v \in Worker \ {w} : Works(v)' = Works(v)
  PROVE  [Tasks!Next]_Tasks!vars
<1>1. Tasks!Vanish({w})
  BY DEF Tasks!Vanish, Tasks!Leave
<1> QED BY <1>1 DEF Tasks!Next

(* What has ended stays so while no job without a place gets one.             *)
LEMMA EndedKept ==
  ASSUME TypeOK, Ended, UNCHANGED <<accepted, replaced>>,
         succeeded \subseteq succeeded', succeeded' \subseteq accepted,
         \A k \in Job : Waits(k)' \/ Taken(k)' \/ k \in failed'
                          => Waits(k) \/ Taken(k) \/ k \in failed,
         NEW w \in Worker, NEW next, Become(w, next),
         next.pc \in {"find", "release"} /\ next.outcome = "done"
           => next.member.job \in succeeded'
  PROVE  Ended'
<1>1. worker'[w] = next /\ \A v \in Worker \ {w} : worker'[v] = worker[v]
  BY HandMoves
<1>2. \A v \in Worker : worker'[v].pc \in {"find", "release"} /\ worker'[v].outcome = "done"
        => worker'[v].member.job \in succeeded'
  BY <1>1 DEF Ended
<1>3. replaced \subseteq Job
  BY DEF TypeOK
<1>4. \A j \in replaced' : ~Waits(j)' /\ ~Taken(j)' /\ j \notin failed'
  BY <1>3 DEF Ended
<1> QED BY <1>2, <1>4 DEF Ended

(* Where the jobs stand when none of them is moved.                           *)
LEMMA StayPut ==
  ASSUME TypeOK, PlaceInv, Ended, NEW w \in Worker, NEW next, Become(w, next),
         UNCHANGED <<ready, delayed, reserved, failed, accepted, replaced>>,
         next.pc \notin {"push", "settle"}, ~InHand(w),
         succeeded \subseteq succeeded',
         \A k \in succeeded' : k \in succeeded \/ (Taken(k) /\ k \in accepted),
         next.pc \in {"find", "release"} /\ next.outcome = "done"
           => next.member.job \in succeeded'
  PROVE  Ended' /\ \A k \in Job : Where(k)' = Where(k)
<1>1. \A k \in Job : ~Hands(w, k)
  BY DEF Hands
<1>2. \A k \in Job : \A pc \in {"push", "settle"} : Held(k, pc)' # {} <=> Held(k, pc) # {}
  BY <1>1, HeldMoves
<1>3. \A k \in Job : (Waits(k)' <=> Waits(k)) /\ (Taken(k)' <=> Taken(k))
  BY <1>2 DEF Waits, Taken, Listed, In
<1>4. \A k \in Job : Same(k)
  BY <1>3 DEF Same
<1>5. \A k \in Job : Where(k)' = Where(k)
  BY <1>4, SameWhere
<1>6. succeeded' \subseteq accepted
  BY DEF Ended
<1>7. Ended'
  BY <1>3, <1>6, EndedKept
<1> QED BY <1>5, <1>7

(* The steps that move no job stutter.                                        *)
LEMMA QuietMaps ==
  ASSUME TypeOK, PlaceInv, Ended, NEW w \in Worker,
         Scan(w) \/ Unhold(w) \/ Handle(w) \/ Find(w) \/ (Claim(w) /\ ready = << >>)
  PROVE  Ended' /\ [Tasks!Next]_Tasks!vars
<1>1. worker[w] \in WorkerState
  BY DEF TypeOK
<1>2. PICK s \in WorkerState : s = worker[w]
  BY <1>1
<1>3. ASSUME NEW next, Become(w, next), ~InHand(w),
             UNCHANGED <<ready, delayed, reserved, failed, accepted, replaced>>,
             next.pc \notin {"push", "settle"},
             succeeded \subseteq succeeded',
             \A k \in succeeded' : k \in succeeded \/ (Taken(k) /\ k \in accepted),
             next.pc \in {"find", "release"} /\ next.outcome = "done"
               => next.member.job \in succeeded',
             \/ /\ s.pc \in {"handle", "find", "release"} /\ next.member = s.member
                /\ next.pc \in {"handle", "find", "release"}
             \/ /\ s.pc \notin {"handle", "find", "release", "settle"}
                /\ next.pc \notin {"handle", "find", "release", "settle"}
      PROVE  Ended' /\ [Tasks!Next]_Tasks!vars
  <2>1. Ended' /\ \A k \in Job : Where(k)' = Where(k)
    BY <1>3, StayPut
  <2>2. \A v \in Worker : Works(v)' = Works(v)
    BY <1>2, <1>3, WorksMoves DEF Works
  <2> QED BY <2>1, <2>2, Stutters
<1>4. CASE Scan(w)
  <2>1. PICK next : Become(w, next) /\ next.pc \in {"promote", "scan", "claim"}
    BY <1>2, <1>4, OnwardSearch DEF Scan
  <2>2. /\ UNCHANGED <<ready, delayed, reserved, failed, accepted, replaced, succeeded>>
        /\ s.pc = "scan" /\ ~InHand(w)
    BY <1>2, <1>4 DEF Scan, redisVars, history, InHand
  <2> QED BY <1>3, <2>1, <2>2
<1>5. CASE Unhold(w)
  <2>1. PICK next : Become(w, next) /\ next.pc \in {"promote", "scan", "claim"}
    BY <1>2, <1>5, OnwardSearch DEF Unhold
  <2>2. /\ s.pc = "unhold" /\ ~InHand(w)
        /\ UNCHANGED <<ready, delayed, reserved, failed, accepted, replaced, succeeded>>
    BY <1>2, <1>5 DEF Unhold, history, InHand
  <2> QED BY <1>3, <2>1, <2>2
<1>6. CASE Handle(w)
  <2>1. PICK outcome :
          /\ Become(w, [pc |-> "find", member |-> s.member, outcome |-> outcome])
          /\ succeeded' = IF outcome = "done" THEN succeeded \cup {s.member.job}
                                              ELSE succeeded
    BY <1>2, <1>6 DEF Handle
  <2>2. /\ UNCHANGED <<ready, delayed, reserved, failed, accepted, replaced>>
        /\ s.pc = "handle" /\ ~InHand(w) /\ Working(w)
    BY <1>2, <1>6 DEF Handle, redisVars, Working, InHand
  <2>3. s.member \in Member /\ s.member \in DOMAIN reserved
    BY <1>2, <2>2, PcTells DEF PlaceInv, Attended
  <2>4. Taken(s.member.job) /\ s.member.job \in accepted
    BY <2>3 DEF Taken, In, PlaceInv, Known, Placed
  <2>5. PICK next : /\ next = [pc |-> "find", member |-> s.member, outcome |-> outcome]
                    /\ Become(w, next)
    BY <2>1
  <2>6. /\ next.pc = "find" /\ next.member = s.member
        /\ next.outcome = "done" => s.member.job \in succeeded'
        /\ succeeded \subseteq succeeded' /\ succeeded' \subseteq succeeded \cup {s.member.job}
    BY <2>1, <2>5
  <2> QED BY <1>3, <2>2, <2>4, <2>5, <2>6
<1>7. CASE Find(w)
  <2>1. /\ UNCHANGED <<ready, delayed, reserved, failed, accepted, replaced, succeeded>>
        /\ s.pc = "find" /\ ~InHand(w) /\ Working(w)
    BY <1>2, <1>7 DEF Find, redisVars, history, Working, InHand
  <2>2. s.member \in DOMAIN reserved
    BY <1>2, <2>1 DEF PlaceInv, Attended
  <2>3. {x \in DOMAIN reserved : x.job = s.member.job} = {s.member}
    BY <2>2 DEF PlaceInv, Apart
  <2>4. PICK next : /\ next = [pc |-> "release", member |-> s.member, found |-> s.member,
                               outcome |-> s.outcome]
                    /\ Become(w, next)
    BY <1>2, <1>7, <2>3 DEF Find
  <2>5. next.outcome = "done" => next.member.job \in succeeded'
    BY <1>2, <2>1, <2>4 DEF Ended
  <2> QED BY <1>3, <2>1, <2>4, <2>5
<1>8. CASE Claim(w) /\ ready = << >>
  <2>1. /\ Become(w, Idle) /\ Idle.pc = "scan" /\ s.pc = "claim" /\ ~InHand(w)
        /\ UNCHANGED <<ready, delayed, reserved, failed, accepted, replaced, succeeded>>
    BY <1>2, <1>8 DEF Claim, history, Idle, InHand
  <2> QED BY <1>3, <2>1
<1> QED BY <1>4, <1>5, <1>6, <1>7, <1>8

(* A worker that dies with nothing in its hand vanishes.                      *)
LEMMA CrashMaps ==
  ASSUME TypeOK, PlaceInv, Ended, NEW w \in Worker, Crash(w), ~InHand(w)
  PROVE  Ended' /\ [Tasks!Next]_Tasks!vars
<1>1. /\ Become(w, Idle) /\ Idle.pc = "scan"
      /\ UNCHANGED <<ready, delayed, reserved, failed, accepted, replaced, succeeded>>
  BY DEF Crash, redisVars, history, Idle
<1>2. Ended' /\ \A k \in Job : Where(k)' = Where(k)
  BY <1>1, StayPut
<1>3. Works(w)' = None /\ \A v \in Worker \ {w} : Works(v)' = Works(v)
  BY <1>1, WorksMoves
<1> QED BY <1>2, <1>3, Vanishes

(* A member taken out of the delayed set still waits; a job taken out of the  *)
(* reserved set is one nobody works on, and waits again.                      *)
LEMMA PromoteMaps ==
  ASSUME TypeOK, PlaceInv, Ended, NEW w \in Worker, Promote(w)
  PROVE  Ended' /\ [Tasks!Next]_Tasks!vars
<1>1. /\ worker[w] \in WorkerState /\ DOMAIN reserved \subseteq Member
      /\ DOMAIN delayed \subseteq Member
  BY DEF TypeOK
<1>2. PICK s \in WorkerState : s = worker[w]
  BY <1>1
<1>3. /\ s.pc = "promote" /\ s.due \in SUBSET Member /\ s.set \in {"delayed", "reserved"}
      /\ UNCHANGED <<ready, failed, accepted, replaced, succeeded>> /\ ~InHand(w)
  BY <1>2, PcTells DEF Promote, history, InHand
<1>4. PICK m \in s.due :
        /\ delayed' = IF s.set = "delayed" THEN ZRem(delayed, m) ELSE delayed
        /\ reserved' = IF s.set = "reserved" THEN ZRem(reserved, m) ELSE reserved
        /\ Become(w, IF m \in DOMAIN (IF s.set = "delayed" THEN delayed ELSE reserved)
                     THEN [pc |-> "push", set |-> s.set, due |-> s.due \ {m}, member |-> m]
                     ELSE Onward(s.set, s.due \ {m}))
  BY <1>2 DEF Promote
<1>5. m \in Member /\ m.job \in Job /\ \A k \in Job : ~Hands(w, k)
  BY <1>3 DEF Member, Hands
<1>6. /\ DOMAIN delayed' = IF s.set = "delayed" THEN DOMAIN delayed \ {m} ELSE DOMAIN delayed
      /\ DOMAIN reserved' = IF s.set = "reserved" THEN DOMAIN reserved \ {m}
                                                  ELSE DOMAIN reserved
  BY <1>3, <1>4 DEF ZRem
<1>7. Works(w) = None
  BY <1>2, <1>3, WorksTells
<1>8. CASE m \notin DOMAIN (IF s.set = "delayed" THEN delayed ELSE reserved)
  <2>1. PICK next : next = Onward(s.set, s.due \ {m}) /\ Become(w, next)
    BY <1>4, <1>8
  <2>2. next.pc \in {"promote", "scan", "claim"}
    BY <2>1, OnwardSearch
  <2>3. DOMAIN delayed' = DOMAIN delayed /\ DOMAIN reserved' = DOMAIN reserved
    BY <1>3, <1>6, <1>8
  <2>4. \A k \in Job : \A pc \in {"push", "settle"} : Held(k, pc)' # {} <=> Held(k, pc) # {}
    BY <1>5, <2>1, <2>2, HeldMoves
  <2>5. \A k \in Job : (Waits(k)' <=> Waits(k)) /\ (Taken(k)' <=> Taken(k))
    BY <1>3, <2>3, <2>4 DEF Waits, Taken, Listed, In
  <2>6. \A k \in Job : Where(k)' = Where(k)
    BY <1>3, <2>5, SameWhere DEF Same
  <2>7. Ended'
    BY <1>3, <2>1, <2>2, <2>5, EndedKept DEF Ended
  <2>8. \A v \in Worker : Works(v)' = Works(v)
    BY <1>7, <2>1, <2>2, WorksMoves
  <2> QED BY <2>6, <2>7, <2>8, Stutters
<1>9. CASE m \in DOMAIN (IF s.set = "delayed" THEN delayed ELSE reserved)
  <2>1. PICK next : /\ next = [pc |-> "push", set |-> s.set, due |-> s.due \ {m}, member |-> m]
                    /\ Become(w, next)
    BY <1>4, <1>9
  <2>2. next.pc = "push" /\ next.member = m
    BY <2>1
  <2>3. \A k \in Job : /\ Held(k, "push")' # {} <=> Held(k, "push") # {} \/ k = m.job
                       /\ Held(k, "settle")' # {} <=> Held(k, "settle") # {}
    BY <1>5, <2>1, <2>2, HeldMoves
  <2>4. \A v \in Worker : Works(v)' = Works(v)
    BY <1>7, <2>1, <2>2, WorksMoves
  <2>5. \A k \in Job : Listed(k)' <=> Listed(k)
    BY <1>3 DEF Listed
  <2>6. CASE s.set = "delayed"
    <3>1. m \in DOMAIN delayed /\ DOMAIN delayed' = DOMAIN delayed \ {m}
          /\ UNCHANGED reserved
      BY <1>4, <1>6, <1>9, <2>6
    <3>2. In(delayed, m.job) /\ \A k \in Job \ {m.job} : In(delayed, k)' <=> In(delayed, k)
      BY <3>1 DEF In
    <3>3. \A k \in Job : In(reserved, k)' <=> In(reserved, k)
      BY <3>1 DEF In
    <3>4. \A k \in Job : (Waits(k)' <=> Waits(k)) /\ (Taken(k)' <=> Taken(k))
      BY <2>3, <2>5, <3>2, <3>3 DEF Waits, Taken
    <3>5. \A k \in Job : Where(k)' = Where(k)
      BY <1>3, <3>4, SameWhere DEF Same
    <3>6. Ended'
      BY <1>3, <2>1, <2>2, <3>4, EndedKept DEF Ended
    <3> QED BY <2>4, <3>5, <3>6, Stutters
  <2>7. CASE s.set = "reserved"
    <3>1. /\ m \in DOMAIN reserved /\ DOMAIN reserved' = DOMAIN reserved \ {m}
          /\ UNCHANGED delayed
      BY <1>4, <1>6, <1>9, <2>7
    <3>2. In(reserved, m.job) /\ \A k \in Job \ {m.job} : In(reserved, k)' <=> In(reserved, k)
      BY <3>1 DEF In
    <3>3. /\ \A k \in Job : In(delayed, k)' <=> In(delayed, k)
          /\ ~In(reserved, m.job)'
      BY <3>1 DEF In, PlaceInv, Apart
    <3>4. /\ ~Listed(m.job) /\ ~In(delayed, m.job) /\ ~Carried(m.job)
      BY <1>5, <3>2 DEF PlaceInv, Exclusive
    <3>5. \A pc \in {"push", "settle"} : Held(m.job, pc) = {}
      BY <3>4 DEF Held, Carried, Hands, InHand
    <3>6. Where(m.job) = "taken" /\ Where(m.job)' = "waiting"
      <4>1. ~Waits(m.job) /\ Taken(m.job) /\ Waits(m.job)'
        BY <1>5, <2>3, <3>2, <3>4, <3>5 DEF Waits, Taken
      <4>2. Waits(m.job)' => Where(m.job)' = "waiting"
        BY DEF Where, Waits
      <4> QED BY <1>5, <4>1, <4>2, WhereTells
    <3>7. \A k \in Job \ {m.job} : (Waits(k)' <=> Waits(k)) /\ (Taken(k)' <=> Taken(k))
      BY <2>3, <2>5, <3>2, <3>3 DEF Waits, Taken
    <3>8. \A k \in Job \ {m.job} : Where(k)' = Where(k)
      BY <1>3, <3>7, SameWhere DEF Same
    <3>9. \A v \in Worker : Works(v) # m.job
      <4>1. ASSUME NEW v \in Worker, Works(v) = m.job
            PROVE  FALSE
        <5>1. /\ Working(v) /\ worker[v].member.job = m.job
              /\ worker[v].member \in DOMAIN reserved /\ reserved[worker[v].member] > 0
          BY <1>5, <3>4, <4>1, WorksWhere DEF Carried
        <5>2. worker[v].member = m
          BY <3>1, <5>1 DEF PlaceInv, Apart
        <5>3. Past(m)
          BY <1>2, <1>3, <2>7 DEF PlaceInv, Stale, Searched
        <5> QED BY <3>1, <5>1, <5>2, <5>3 DEF Past
      <4> QED BY <4>1
    <3>10. Ended'
      <4>1. \A k \in Job : Waits(k)' \/ Taken(k)' => Waits(k) \/ Taken(k)
        BY <3>2, <3>7 DEF Taken
      <4> QED BY <1>3, <2>1, <2>2, <4>1, EndedKept DEF Ended
    <3> QED BY <1>5, <2>4, <3>6, <3>8, <3>9, <3>10, Reclaims
  <2> QED BY <1>3, <2>6, <2>7
<1> QED BY <1>8, <1>9

(* A promoted member enters the list: it waits still.                         *)
LEMMA PushReadyMaps ==
  ASSUME TypeOK, PlaceInv, Ended, NEW w \in Worker, PushReady(w)
  PROVE  Ended' /\ [Tasks!Next]_Tasks!vars
<1>1. PICK s \in WorkerState : s = worker[w]
  BY DEF TypeOK
<1>2. /\ s.pc = "push" /\ s.member \in Member
      /\ UNCHANGED <<delayed, reserved, failed, accepted, replaced, succeeded>>
  BY <1>1, PcTells DEF PushReady, history
<1>3. PICK m \in Member : m = s.member
  BY <1>2
<1>4. m.job \in Job /\ ready' = <<m>> \o ready
  BY <1>1, <1>2, <1>3 DEF PushReady, Member
<1>5. PICK next : /\ next = IF KeyOf(m) # NoKey THEN [s EXCEPT !.pc = "unhold"]
                            ELSE Onward(s.set, s.due)
                  /\ Become(w, next)
  BY <1>1, <1>3 DEF PushReady
<1>6. next.pc \in {"unhold", "promote", "scan", "claim"}
  <2>1. CASE KeyOf(m) # NoKey
    BY <1>2, <1>5, <2>1, PushRecord
  <2>2. CASE KeyOf(m) = NoKey
    BY <1>5, <2>2, OnwardSearch
  <2> QED BY <2>1, <2>2
<1>7. Become(w, next)
  BY <1>5
<1>8. \A k \in Job : Hands(w, k) <=> k = m.job
  BY <1>1, <1>2, <1>3 DEF Hands, InHand
<1>9. \A k \in Job : /\ Held(k, "push")' # {} <=> Held(k, "push") # {} /\ k # m.job
                     /\ Held(k, "settle")' # {} <=> Held(k, "settle") # {} /\ k # m.job
  BY <1>6, <1>7, <1>8, HeldMoves
<1>10. Held(m.job, "push") # {} /\ Held(m.job, "settle") = {}
  <2>1. w \in Held(m.job, "push")
    BY <1>1, <1>2, <1>3 DEF Held
  <2>2. \A v \in Held(m.job, "settle") : v \in Worker /\ Hands(v, m.job) /\ worker[v].pc = "settle"
    BY DEF Held, Hands, InHand
  <2>3. \A v \in Worker : Hands(v, m.job) => v = w
    BY <1>4, <1>8 DEF PlaceInv, OneHand
  <2> QED BY <1>1, <1>2, <2>1, <2>2, <2>3
<1>11. \A k \in Job : Listed(k)' <=> Listed(k) \/ k = m.job
  BY <1>4, PushPlaces
<1>12. \A k \in Job : (In(delayed, k)' <=> In(delayed, k)) /\ (In(reserved, k)' <=> In(reserved, k))
  BY <1>2 DEF In
<1>13. \A k \in Job : (Waits(k)' <=> Waits(k)) /\ (Taken(k)' <=> Taken(k))
  BY <1>9, <1>10, <1>11, <1>12 DEF Waits, Taken
<1>14. \A k \in Job : Where(k)' = Where(k)
  BY <1>2, <1>13, SameWhere DEF Same
<1>15. \A v \in Worker : Works(v)' = Works(v)
  <2>1. Works(w) = None
    BY <1>1, <1>2, WorksTells
  <2> QED BY <1>6, <1>7, <2>1, WorksMoves
<1>16. Ended'
  <2>1. succeeded \subseteq accepted
    BY DEF Ended
  <2> QED BY <1>2, <1>6, <1>7, <1>13, <2>1, EndedKept
<1> QED BY <1>14, <1>15, <1>16, Stutters

(* A claim takes the list's last job.                                         *)
LEMMA ClaimMaps ==
  ASSUME TypeOK, PlaceInv, Ended, NEW w \in Worker, Claim(w), ready # << >>
  PROVE  Ended' /\ [Tasks!Next]_Tasks!vars
<1>1. PICK last : last = ready[Len(ready)]
  OBVIOUS
<1>2. PICK m : m = [last EXCEPT !.attempts = @ + 1]
  OBVIOUS
<1>3. PICK left \in 0..Visibility :
      /\ ready' = SubSeq(ready, 1, Len(ready) - 1)
      /\ reserved' = ZAdd(reserved, m, left)
      /\ Become(w, [pc |-> "handle", member |-> m])
      /\ UNCHANGED <<delayed, failed, accepted, replaced, succeeded>>
      /\ worker[w].pc = "claim"
  BY <1>1, <1>2 DEF Claim, Reserve, history
<1>4. /\ last \in Member /\ Listed(last.job)
      /\ \A k \in Job : Listed(k)' => Listed(k)
      /\ ~Listed(last.job)'
  BY <1>1, <1>3, PopPlaces DEF PlaceInv
<1>5. PICK j \in Job : j = last.job /\ m.job = j
  BY <1>2, <1>4 DEF Member
<1>6. \A k \in Job \ {j} : Listed(k)' <=> Listed(k)
  <2>1. ready \in Seq(Member)
    BY DEF TypeOK
  <2>2. PICK n \in Nat \ {0} : n = Len(ready) /\ DOMAIN ready = 1..n
    BY <2>1, PopBack, LenProperties
  <2>3. DOMAIN ready' = 1..n-1 /\ \A i \in 1..n-1 : ready'[i] = ready[i]
    BY <1>3, <2>1, <2>2, PopBack, LenProperties
  <2>4. ASSUME NEW k \in Job \ {j}, NEW i \in DOMAIN ready, ready[i].job = k
        PROVE  i \in DOMAIN ready' /\ ready'[i].job = k
    BY <1>1, <1>5, <2>2, <2>3, <2>4
  <2> QED BY <1>4, <2>4 DEF Listed
<1>7. DOMAIN reserved' = DOMAIN reserved \cup {m}
  BY <1>3 DEF ZAdd
<1>8. /\ \A k \in Job : In(delayed, k)' <=> In(delayed, k)
      /\ \A k \in Job \ {j} : In(reserved, k)' <=> In(reserved, k)
      /\ In(reserved, j)'
  BY <1>3, <1>5, <1>7 DEF In
<1>9. /\ ~In(delayed, j) /\ ~In(reserved, j) /\ ~Carried(j) /\ Listed(j) /\ ~Listed(j)'
  BY <1>4, <1>5 DEF PlaceInv, Exclusive
<1>10. PICK next : next = [pc |-> "handle", member |-> m] /\ Become(w, next)
  BY <1>3
<1>11. \A k \in Job : ~Hands(w, k)
  BY <1>3 DEF Hands, InHand
<1>12. \A k \in Job : \A pc \in {"push", "settle"} : Held(k, pc)' # {} <=> Held(k, pc) # {}
  BY <1>10, <1>11, HeldMoves
<1>13. \A pc \in {"push", "settle"} : Held(j, pc) = {}
  BY <1>9 DEF Held, Carried, Hands, InHand
<1>14. \A k \in Job \ {j} : (Waits(k)' <=> Waits(k)) /\ (Taken(k)' <=> Taken(k))
  BY <1>6, <1>8, <1>12 DEF Waits, Taken
<1>15. Waits(j) /\ ~Waits(j)' /\ Taken(j)'
  BY <1>8, <1>9, <1>12, <1>13 DEF Waits, Taken
<1>16. Where(j) = "waiting" /\ Where(j)' = "taken"
  <2>1. ~Waits(j)' /\ Taken(j)' => Where(j)' = "taken"
    BY DEF Where, Waits, Taken
  <2> QED BY <1>15, <2>1, WhereTells
<1>17. \A k \in Job \ {j} : Where(k)' = Where(k)
  BY <1>3, <1>14, SameWhere DEF Same
<1>18. /\ Works(w) = None /\ Works(w)' = j
       /\ \A v \in Worker \ {w} : Works(v)' = Works(v)
  BY <1>3, <1>5, <1>10, WorksTells, WorksMoves
<1>19. \A v \in Worker : Works(v) # j
  BY <1>9, WorksWhere DEF Carried
<1>20. Ended'
  <2>1. succeeded \subseteq accepted
    BY DEF Ended
  <2>2. \A k \in Job : Waits(k)' \/ Taken(k)' => Waits(k) \/ Taken(k)
    BY <1>14, <1>15
  <2> QED BY <1>3, <1>10, <2>1, <2>2, EndedKept
<1> QED BY <1>16, <1>17, <1>18, <1>19, <1>20, Takes

(* A released job has ended if it succeeded, and is in the worker's hand      *)
(* otherwise.                                                                 *)
LEMMA ReleaseMaps ==
  ASSUME TypeOK, PlaceInv, Ended, NEW w \in Worker, Release(w)
  PROVE  Ended' /\ [Tasks!Next]_Tasks!vars
<1>1. worker[w] \in WorkerState /\ DOMAIN reserved \subseteq Member
  BY DEF TypeOK
<1>2. PICK s \in WorkerState : s = worker[w]
  BY <1>1
<1>3. s.pc = "release" /\ s.member \in Member /\ Working(w)
  BY <1>2, PcTells DEF Release, Working
<1>4. PICK m \in Member : m = s.member
  BY <1>3
<1>5. m.job \in Job /\ m \in DOMAIN reserved /\ s.found = m
  BY <1>2, <1>3, <1>4 DEF PlaceInv, Attended, Member
<1>6. PICK next :
        /\ next = After(m, s.outcome) /\ Become(w, next)
        /\ reserved' = ZRem(reserved, m)
        /\ UNCHANGED <<ready, delayed, failed, accepted, replaced, succeeded>>
  BY <1>2, <1>4, <1>5 DEF Release, history
<1>7. DOMAIN reserved' = DOMAIN reserved \ {m}
  BY <1>6 DEF ZRem
<1>8. /\ In(reserved, m.job) /\ ~In(reserved, m.job)'
      /\ \A k \in Job \ {m.job} : In(reserved, k)' <=> In(reserved, k)
      /\ \A k \in Job : (Listed(k)' <=> Listed(k)) /\ (In(delayed, k)' <=> In(delayed, k))
  BY <1>5, <1>6, <1>7 DEF PlaceInv, Apart, In, Listed
<1>9. /\ ~Listed(m.job) /\ ~In(delayed, m.job) /\ ~Carried(m.job) /\ m.job \notin failed
  BY <1>5, <1>8 DEF PlaceInv, Exclusive
<1>10. \A k \in Job : ~Hands(w, k)
  BY <1>2, <1>3 DEF Hands, InHand
<1>11. \A pc \in {"push", "settle"} : Held(m.job, pc) = {}
  BY <1>9 DEF Held, Carried, Hands, InHand
<1>12. ~Waits(m.job) /\ Taken(m.job) /\ Where(m.job) = "taken"
  <2>1. ~Waits(m.job) /\ Taken(m.job)
    BY <1>8, <1>9, <1>11 DEF Waits, Taken
  <2> QED BY <1>5, <2>1, WhereTells
<1>13. Works(w) = m.job
  BY <1>2, <1>3, <1>4, WorksTells
<1>14. succeeded \subseteq accepted /\ m.job \notin replaced
  BY <1>12 DEF Ended
<1>15. CASE s.outcome = "done"
  <2>1. next.pc = "scan"
    BY <1>6, <1>15 DEF After, Idle
  <2>2. Become(w, next)
    BY <1>6
  <2>3. \A k \in Job : \A pc \in {"push", "settle"} : Held(k, pc)' # {} <=> Held(k, pc) # {}
    BY <1>10, <2>1, <2>2, HeldMoves
  <2>4. /\ \A k \in Job \ {m.job} : (Waits(k)' <=> Waits(k)) /\ (Taken(k)' <=> Taken(k))
        /\ ~Waits(m.job)' /\ ~Taken(m.job)'
    BY <1>5, <1>8, <1>9, <1>11, <2>3 DEF Waits, Taken
  <2>5. m.job \in succeeded
    BY <1>2, <1>3, <1>4, <1>15 DEF Ended
  <2>6. Where(m.job)' = "done"
    <3>1. m.job \notin failed' /\ m.job \notin replaced' /\ m.job \in succeeded'
      BY <1>6, <1>9, <1>14, <2>5
    <3>2. ~Waits(m.job)' /\ ~Taken(m.job)' /\ m.job \notin failed' /\ m.job \notin replaced'
            /\ m.job \in succeeded' => Where(m.job)' = "done"
      BY DEF Where, Waits, Taken
    <3> QED BY <2>4, <3>1, <3>2
  <2>7. \A k \in Job \ {m.job} : Where(k)' = Where(k)
    BY <1>6, <2>4, SameWhere DEF Same
  <2>8. Works(w)' = None /\ \A v \in Worker \ {w} : Works(v)' = Works(v)
    BY <2>1, <2>2, WorksMoves
  <2>9. Ended'
    <3>1. \A k \in Job : Waits(k)' \/ Taken(k)' => Waits(k) \/ Taken(k)
      BY <2>4
    <3> QED BY <1>6, <1>14, <2>1, <2>2, <3>1, EndedKept
  <2> QED BY <1>5, <1>13, <2>6, <2>7, <2>8, <2>9, Leaves
<1>16. CASE s.outcome # "done"
  <2>1. next.pc = "settle" /\ next.member = m
    BY <1>6, <1>16 DEF After
  <2>2. Become(w, next)
    BY <1>6
  <2>3. \A k \in Job : /\ Held(k, "push")' # {} <=> Held(k, "push") # {}
                       /\ Held(k, "settle")' # {} <=> Held(k, "settle") # {} \/ k = m.job
    BY <1>10, <2>1, <2>2, HeldMoves
  <2>4. \A k \in Job : (Waits(k)' <=> Waits(k)) /\ (Taken(k)' <=> Taken(k))
    BY <1>8, <2>3 DEF Waits, Taken
  <2>5. \A k \in Job : Where(k)' = Where(k)
    BY <1>6, <2>4, SameWhere DEF Same
  <2>6. \A v \in Worker : Works(v)' = Works(v)
    BY <1>13, <2>1, <2>2, WorksMoves
  <2>7. Ended'
    BY <1>6, <1>14, <2>1, <2>2, <2>4, EndedKept
  <2> QED BY <2>5, <2>6, <2>7, Stutters
<1> QED BY <1>15, <1>16

(* A job settled from the worker's hand has failed, or waits again.           *)
LEMMA SettleMaps ==
  ASSUME TypeOK, PlaceInv, Ended, NEW w \in Worker, Settle(w)
  PROVE  Ended' /\ [Tasks!Next]_Tasks!vars
<1>1. PICK s \in WorkerState : s = worker[w]
  BY DEF TypeOK
<1>2. /\ s.pc = "settle" /\ s.member \in Member /\ Become(w, Idle) /\ Idle.pc = "scan"
      /\ UNCHANGED <<reserved, accepted, replaced, succeeded>>
  BY <1>1, PcTells DEF Settle, history, Idle
<1>3. PICK m \in Member : m = s.member
  BY <1>2
<1>4. PICK j \in Job : j = m.job
  BY DEF Member
<1>5. \A k \in Job : Hands(w, k) <=> k = j
  BY <1>1, <1>2, <1>3, <1>4 DEF Hands, InHand
<1>6. Held(j, "push") = {} /\ Held(j, "settle") # {}
  <2>1. w \in Held(j, "settle")
    BY <1>1, <1>2, <1>3, <1>4 DEF Held
  <2>2. \A v \in Held(j, "push") : v \in Worker /\ Hands(v, j) /\ worker[v].pc = "push"
    BY DEF Held, Hands, InHand
  <2>3. \A v \in Worker : Hands(v, j) => v = w
    BY <1>4, <1>5 DEF PlaceInv, OneHand
  <2> QED BY <1>1, <1>2, <2>1, <2>2, <2>3
<1>7. \A k \in Job : \A pc \in {"push", "settle"} :
        Held(k, pc)' # {} <=> Held(k, pc) # {} /\ k # j
  BY <1>2, <1>5, HeldMoves
<1>8. /\ ~Listed(j) /\ ~In(delayed, j) /\ ~In(reserved, j) /\ j \notin failed
  BY <1>5 DEF PlaceInv, Exclusive, Carried
<1>9. \A k \in Job : In(reserved, k)' <=> In(reserved, k)
  BY <1>2 DEF In
<1>10. Taken(j) /\ ~Taken(j)' /\ ~Waits(j)
  BY <1>6, <1>7, <1>8, <1>9 DEF Taken, Waits
<1>11. Works(w) = j
  BY <1>1, <1>2, <1>3, <1>4, WorksTells
<1>12. Works(w)' = None /\ \A v \in Worker \ {w} : Works(v)' = Works(v)
  BY <1>2, WorksMoves
<1>13. /\ Where(j)' \in {"waiting", "failed"}
       /\ \A k \in Job \ {j} : /\ Listed(k)' <=> Listed(k)
                               /\ In(delayed, k)' <=> In(delayed, k)
                               /\ k \in failed' <=> k \in failed
  <2>1. CASE s.outcome = "failed"
    <3>1. failed' = failed \cup {j} /\ UNCHANGED <<ready, delayed>>
      BY <1>1, <1>3, <1>4, <2>1 DEF Settle
    <3>2. \A k \in Job : (Listed(k)' <=> Listed(k)) /\ (In(delayed, k)' <=> In(delayed, k))
      BY <3>1 DEF Listed, In
    <3>3. ~Waits(j)'
      BY <1>7, <1>8, <3>2 DEF Waits
    <3>4. ~Waits(j)' /\ ~Taken(j)' /\ j \in failed' => Where(j)' = "failed"
      BY DEF Where, Waits, Taken
    <3> QED BY <1>10, <3>1, <3>2, <3>3, <3>4
  <2>2. CASE s.outcome # "failed"
    <3>1. Enqueue(m, Def[j].delay) /\ UNCHANGED failed
      BY <1>1, <1>3, <1>4, <2>2 DEF Settle
    <3>2. /\ Listed(j)' \/ In(delayed, j)'
          /\ \A k \in Job \ {j} : (Listed(k)' <=> Listed(k)) /\ (In(delayed, k)' <=> In(delayed, k))
      <4>1. CASE Def[j].delay > 0
        <5>1. DOMAIN delayed' = DOMAIN delayed \cup {m} /\ UNCHANGED ready
          BY <3>1, <4>1 DEF Enqueue, ZAdd
        <5> QED BY <1>4, <5>1 DEF In, Listed
      <4>2. CASE ~(Def[j].delay > 0)
        <5>1. ready' = <<m>> \o ready /\ UNCHANGED delayed
          BY <3>1, <4>2 DEF Enqueue
        <5>2. \A k \in Job : Listed(k)' <=> Listed(k) \/ k = m.job
          BY <5>1, PushPlaces
        <5>3. \A k \in Job : In(delayed, k)' <=> In(delayed, k)
          BY <5>1 DEF In
        <5> QED BY <1>4, <5>2, <5>3
      <4> QED BY <4>1, <4>2
    <3>3. Waits(j)' => Where(j)' = "waiting"
      BY DEF Where, Waits
    <3> QED BY <3>1, <3>2, <3>3 DEF Waits
  <2> QED BY <2>1, <2>2
<1>14. \A k \in Job \ {j} : (Waits(k)' <=> Waits(k)) /\ (Taken(k)' <=> Taken(k))
  BY <1>7, <1>9, <1>13 DEF Waits, Taken
<1>15. \A k \in Job \ {j} : Where(k)' = Where(k)
  BY <1>2, <1>13, <1>14, SameWhere DEF Same
<1>16. Ended'
  <2>1. succeeded \subseteq accepted
    BY DEF Ended
  <2>2. \A k \in Job : Waits(k)' \/ Taken(k)' \/ k \in failed'
                         => Waits(k) \/ Taken(k) \/ k \in failed
    BY <1>10, <1>13, <1>14
  <2> QED BY <1>2, <2>1, <2>2, EndedKept
<1>17. Where(j)' \in {"waiting", "done", "failed"}
  BY <1>13
<1> QED BY <1>11, <1>12, <1>15, <1>16, <1>17, Leaves

(* A dispatched job waits; what it replaces waited.                           *)
LEMMA DispatchMaps ==
  ASSUME TypeOK, PlaceInv, Ended, NEW j \in Job, Dispatch(j)
  PROVE  Ended' /\ [Tasks!Next]_Tasks!vars
<1>1. /\ j \notin accepted /\ accepted' = accepted \cup {j}
      /\ UNCHANGED <<reserved, failed, worker, succeeded>>
  BY DEF Dispatch
<1>2. PICK m \in Member : m = Fresh(j) /\ m.job = j
  BY Definitions
<1>3. \A x \in Member : Placed(x) => x.job # j
  BY <1>1 DEF PlaceInv, Known
<1>4. DOMAIN delayed \subseteq Member /\ DOMAIN reserved \subseteq Member /\ ready \in Seq(Member)
  BY DEF TypeOK
<1>5. /\ ~Listed(j) /\ ~In(delayed, j) /\ ~In(reserved, j) /\ ~Carried(j) /\ j \notin failed
  <2>1. ~Listed(j)
    <3>1. \A i \in DOMAIN ready : ready[i] \in Member
      BY <1>4
    <3> QED BY <1>3, <3>1 DEF Listed, Placed
  <2>2. ~In(delayed, j) /\ ~In(reserved, j)
    BY <1>3, <1>4 DEF In, Placed
  <2>3. ~Carried(j)
    <3>1. \A w \in Worker : InHand(w) => worker[w].member \in Member
      BY PcTells DEF TypeOK, InHand
    <3> QED BY <1>3, <3>1 DEF Carried, Hands, Placed
  <2>4. j \notin failed
    BY <1>1 DEF PlaceInv, Known
  <2> QED BY <2>1, <2>2, <2>3, <2>4
<1>6. \A pc \in {"push", "settle"} : Held(j, pc) = {}
  BY <1>5 DEF Held, Carried, Hands, InHand
<1>7. Where(j) = "new"
  <2>1. ~Waits(j) /\ ~Taken(j)
    BY <1>5, <1>6 DEF Waits, Taken
  <2>2. j \notin replaced /\ j \notin succeeded
    BY <1>1 DEF Ended
  <2> QED BY <1>1, <1>5, <2>1, <2>2, WhereTells
<1>8. /\ \A k \in Job : In(reserved, k)' <=> In(reserved, k)
      /\ \A k \in Job : \A pc \in {"push", "settle"} : Held(k, pc)' = Held(k, pc)
      /\ \A v \in Worker : Works(v)' = Works(v)
  BY <1>1 DEF In, Held, Works
<1>9. \A k \in Job : Taken(k)' <=> Taken(k)
  BY <1>8 DEF Taken
<1>10. PICK rs \in SUBSET Job :
         /\ j \notin rs /\ replaced' = replaced \cup rs
         /\ Listed(j)' \/ In(delayed, j)'
         /\ \A k \in rs : In(delayed, k) /\ ~In(delayed, k)' /\ (Listed(k)' <=> Listed(k))
         /\ \A k \in Job : k # j /\ k \notin rs =>
              /\ Listed(k)' <=> Listed(k)
              /\ In(delayed, k)' <=> In(delayed, k)
  <2>1. CASE Push(j)
    <3>1. Enqueue(m, Def[j].wait) /\ UNCHANGED replaced
      BY <1>2, <2>1 DEF Push
    <3>2. /\ Listed(j)' \/ In(delayed, j)'
          /\ \A k \in Job \ {j} : (Listed(k)' <=> Listed(k)) /\ (In(delayed, k)' <=> In(delayed, k))
      <4>1. CASE Def[j].wait > 0
        <5>1. DOMAIN delayed' = DOMAIN delayed \cup {m} /\ UNCHANGED ready
          BY <3>1, <4>1 DEF Enqueue, ZAdd
        <5> QED BY <1>2, <5>1 DEF In, Listed
      <4>2. CASE ~(Def[j].wait > 0)
        <5>1. ready' = <<m>> \o ready /\ UNCHANGED delayed
          BY <3>1, <4>2 DEF Enqueue
        <5>2. \A k \in Job : Listed(k)' <=> Listed(k) \/ k = m.job
          BY <5>1, PushPlaces
        <5>3. \A k \in Job : In(delayed, k)' <=> In(delayed, k)
          BY <5>1 DEF In
        <5> QED BY <1>2, <5>2, <5>3
      <4> QED BY <4>1, <4>2
    <3>3. {} \in SUBSET Job /\ j \notin {} /\ replaced' = replaced \cup {}
      BY <3>1
    <3> QED BY <3>2, <3>3
  <2>2. CASE PushDebounced(j)
    <3>1. PICK previous :
            /\ delayed' = ZAdd(ZRem(delayed, previous), m, Def[j].wait)
            /\ replaced' = replaced \cup {x.job : x \in {previous} \cap DOMAIN delayed}
            /\ UNCHANGED ready
      BY <1>2, <2>2 DEF PushDebounced
    <3>2. DOMAIN delayed' = (DOMAIN delayed \ {previous}) \cup {m}
      BY <3>1 DEF ZAdd, ZRem
    <3>3. \A k \in Job : Listed(k)' <=> Listed(k)
      BY <3>1 DEF Listed
    <3>4. In(delayed, j)'
      BY <1>2, <3>2 DEF In
    <3>5. CASE previous \in DOMAIN delayed
      <4>1. PICK p \in Job : p = previous.job
        BY <1>4, <3>5 DEF Member
      <4>2. p # j /\ In(delayed, p)
        BY <1>5, <3>5, <4>1 DEF In
      <4>3. ~In(delayed, p)'
        BY <1>2, <3>2, <3>5, <4>1, <4>2 DEF In, PlaceInv, Apart
      <4>4. \A k \in Job \ {j, p} : In(delayed, k)' <=> In(delayed, k)
        BY <1>2, <3>2, <4>1 DEF In
      <4>5. replaced' = replaced \cup {p} /\ {p} \in SUBSET Job
        <5>1. {previous} \cap DOMAIN delayed = {previous}
          BY <3>5
        <5> QED BY <3>1, <4>1, <5>1
      <4> QED BY <3>3, <3>4, <4>2, <4>3, <4>4, <4>5
    <3>6. CASE previous \notin DOMAIN delayed
      <4>1. \A k \in Job \ {j} : In(delayed, k)' <=> In(delayed, k)
        BY <1>2, <3>2, <3>6 DEF In
      <4>2. replaced' = replaced \cup {} /\ {} \in SUBSET Job
        BY <3>1, <3>6
      <4> QED BY <3>3, <3>4, <4>1, <4>2
    <3> QED BY <3>5, <3>6
  <2> QED BY <2>1, <2>2 DEF Dispatch
<1>11. \A k \in rs : /\ ~Listed(k) /\ ~In(reserved, k) /\ ~Carried(k) /\ k \notin failed
                     /\ k \in Job /\ In(delayed, k)
  BY <1>10 DEF PlaceInv, Exclusive
<1>12. \A k \in rs : \A pc \in {"push", "settle"} : Held(k, pc) = {}
  BY <1>11 DEF Held, Carried, Hands, InHand
<1>13. \A k \in rs : Waits(k) /\ ~Taken(k) /\ ~Waits(k)' /\ ~Taken(k)'
  BY <1>8, <1>10, <1>11, <1>12 DEF Waits, Taken
<1>14. \A k \in rs : Where(k) = "waiting" /\ Where(k)' = "replaced"
  <2>1. ASSUME NEW k \in rs
        PROVE  Where(k)' = "replaced"
    <3>1. k \in replaced' /\ k \notin failed'
      BY <1>1, <1>10, <1>11
    <3>2. ~Waits(k)' /\ ~Taken(k)' /\ k \notin failed' /\ k \in replaced'
            => Where(k)' = "replaced"
      BY DEF Where, Waits, Taken
    <3> QED BY <1>13, <3>1, <3>2
  <2> QED BY <1>11, <1>13, <2>1, WhereTells
<1>15. Where(j)' = "waiting"
  <2>1. Waits(j)' => Where(j)' = "waiting"
    BY DEF Where, Waits
  <2> QED BY <1>10, <2>1 DEF Waits
<1>16. \A k \in Job : k # j /\ k \notin rs => (Waits(k)' <=> Waits(k))
  BY <1>8, <1>10 DEF Waits
<1>17. \A k \in Job : k # j /\ k \notin rs => Where(k)' = Where(k)
  <2>1. ASSUME NEW k \in Job, k # j, k \notin rs
        PROVE  Same(k)
    BY <1>1, <1>9, <1>10, <1>16, <2>1 DEF Same
  <2> QED BY <2>1, SameWhere
<1>18. Ended'
  <2>1. replaced' \subseteq accepted' /\ succeeded' \subseteq accepted'
    <3>1. \A k \in rs : k \in accepted
      <4>1. \A k \in Job : In(delayed, k) => k \in accepted
        BY <1>4 DEF In, PlaceInv, Known, Placed
      <4> QED BY <1>11, <4>1
    <3> QED BY <1>1, <1>10, <3>1 DEF Ended
  <2>2. \A k \in replaced' : ~Waits(k)' /\ ~Taken(k)' /\ k \notin failed'
    <3>1. ASSUME NEW k \in replaced, k \notin rs
          PROVE  ~Waits(k)' /\ ~Taken(k)' /\ k \notin failed'
      <4>1. k \in Job /\ k # j /\ ~Waits(k) /\ ~Taken(k) /\ k \notin failed
        BY <1>1, <3>1 DEF Ended, TypeOK
      <4> QED BY <1>1, <1>9, <1>16, <3>1, <4>1
    <3> QED BY <1>1, <1>10, <1>11, <1>13, <3>1
  <2>3. \A w \in Worker : worker'[w].pc \in {"find", "release"} /\ worker'[w].outcome = "done"
          => worker'[w].member.job \in succeeded'
    BY <1>1 DEF Ended
  <2> QED BY <2>1, <2>2, <2>3 DEF Ended
<1> QED BY <1>7, <1>8, <1>10, <1>14, <1>15, <1>17, <1>18, Submits

(* The clock moves no job.                                                    *)
LEMMA StillMaps ==
  ASSUME TypeOK, Ended, Elapse \/ UNCHANGED vars
  PROVE  Ended' /\ [Tasks!Next]_Tasks!vars
<1>1. /\ UNCHANGED <<ready, failed, worker, accepted, replaced, succeeded>>
      /\ DOMAIN delayed' = DOMAIN delayed /\ DOMAIN reserved' = DOMAIN reserved
  BY DEF Elapse, Sooner, vars, redisVars, history
<1>2. \A k \in Job : (Waits(k)' <=> Waits(k)) /\ (Taken(k)' <=> Taken(k))
  BY <1>1 DEF Waits, Taken, Listed, In, Held
<1>3. \A k \in Job : Where(k)' = Where(k)
  BY <1>1, <1>2, SameWhere DEF Same
<1>4. \A v \in Worker : Works(v)' = Works(v)
  BY <1>1 DEF Works
<1>5. Ended'
  <2>1. replaced \subseteq Job
    BY DEF TypeOK
  <2> QED BY <1>1, <1>2, <2>1 DEF Ended
<1> QED BY <1>3, <1>4, <1>5, Stutters

(* What such a scenario leaves to spend.                                       *)
LEMMA TimelySpends ==
  ASSUME Timely, TypeOK
  PROVE  ~Spend("torn") /\ ~Spend("lapse") /\ \A what : Spend(what) => spent'.lapse = 0
<1>1. spent \in Bounds /\ \A f \in Faults : f \in Bounds
  BY RedisAssumption DEF TypeOK
<1>2. ASSUME NEW what, Spend(what)
      PROVE  spent'.torn <= 0 /\ spent'.lapse <= 0 /\ spent' = [spent EXCEPT ![what] = @ + 1]
  <2>1. PICK f \in Faults : \A k \in DOMAIN f : spent'[k] <= f[k]
    BY <1>2 DEF Spend
  <2>2. DOMAIN f = {"crash", "torn", "lapse"} /\ f.torn = 0 /\ f.lapse = 0
    BY <1>1 DEF Timely, Bounds
  <2>3. spent'["torn"] <= f["torn"] /\ spent'["lapse"] <= f["lapse"]
    BY <2>1, <2>2
  <2> QED BY <1>2, <2>2, <2>3 DEF Spend
<1>3. ~Spend("torn") /\ ~Spend("lapse")
  BY <1>1, <1>2 DEF Bounds
<1>4. \A what : Spend(what) => spent'.lapse = 0
  <2>1. ASSUME NEW what, Spend(what)
        PROVE  spent'.lapse = 0
    <3>1. spent'.lapse <= 0 /\ spent' = [spent EXCEPT ![what] = @ + 1]
      BY <1>2, <2>1
    <3>2. spent'.lapse \in Nat
      BY <1>1, <3>1 DEF Bounds
    <3> QED BY <3>1, <3>2
  <2> QED BY <2>1
<1> QED BY <1>3, <1>4

(* What the promise's scenario adds to PlaceInv.                               *)
KeepInv == spent.lapse = 0 /\ Ended

(* Every step keeps that, and is a step of TaskQueue or a stutter.            *)
LEMMA KeepStep ==
  ASSUME Timely, TypeOK, PlaceInv, KeepInv, [Next]_vars
  PROVE  KeepInv' /\ [Tasks!Next]_Tasks!vars
<1>1. Ended /\ spent.lapse = 0
  BY DEF KeepInv
<1>2. ASSUME NEW j \in Job, Dispatch(j)
      PROVE  KeepInv' /\ [Tasks!Next]_Tasks!vars
  <2>1. UNCHANGED spent
    BY <1>2 DEF Dispatch
  <2> QED BY <1>1, <1>2, <2>1, DispatchMaps DEF KeepInv
<1>3. ASSUME NEW w \in Worker, WorkerStep(w)
      PROVE  KeepInv' /\ [Tasks!Next]_Tasks!vars
  <2>1. UNCHANGED spent
    BY <1>3, WorkerSpends, TimelySpends
  <2>2. Ended' /\ [Tasks!Next]_Tasks!vars
    BY <1>1, <1>3, QuietMaps, PromoteMaps, PushReadyMaps, ClaimMaps, ReleaseMaps, SettleMaps
       DEF WorkerStep
  <2> QED BY <1>1, <2>1, <2>2 DEF KeepInv
<1>4. ASSUME NEW w \in Worker, Crash(w)
      PROVE  KeepInv' /\ [Tasks!Next]_Tasks!vars
  <2>1. ~InHand(w) /\ \E what : Spend(what)
    BY <1>4, TimelySpends DEF Crash
  <2>2. spent'.lapse = 0
    BY <2>1, TimelySpends
  <2> QED BY <1>1, <1>4, <2>1, <2>2, CrashMaps DEF KeepInv
<1>5. CASE Elapse
  <2>1. UNCHANGED spent
    BY <1>5, TimelySpends DEF Elapse
  <2> QED BY <1>1, <1>5, <2>1, StillMaps DEF KeepInv
<1>6. CASE UNCHANGED vars
  <2>1. UNCHANGED spent
    BY <1>6 DEF vars
  <2> QED BY <1>1, <1>6, <2>1, StillMaps DEF KeepInv
<1> QED BY <1>2, <1>3, <1>4, <1>5, <1>6 DEF Next

(* The queue starts as TaskQueue does.                                        *)
LEMMA KeepInit ==
  ASSUME Init
  PROVE  KeepInv /\ Tasks!Init
<1>1. /\ DOMAIN ready = {} /\ DOMAIN delayed = {} /\ DOMAIN reserved = {} /\ failed = {}
      /\ accepted = {} /\ succeeded = {} /\ replaced = {} /\ spent.lapse = 0
      /\ \A w \in Worker : worker[w].pc = "scan"
  BY DEF Init, Idle
<1>2. \A k \in Job : ~Waits(k) /\ ~Taken(k)
  BY <1>1 DEF Waits, Taken, Listed, In, Held
<1>3. \A k \in Job : Where(k) = "new"
  BY <1>1, <1>2, WhereTells
<1>4. \A w \in Worker : Works(w) = None
  BY <1>1 DEF Works
<1>5. KeepInv
  BY <1>1, <1>2 DEF KeepInv, Ended
<1> QED BY <1>3, <1>4, <1>5 DEF Tasks!Init

(* The driver implements TaskQueue in such a scenario: no job is lost, no two  *)
(* workers work on one job, nothing that ended comes back (the class comment   *)
(* of RedisDriver).                                                            *)
THEOREM PromiseKept ==
  ASSUME Timely
  PROVE  Spec => ImplementsQueue
<1>1. Init => KeepInv /\ Tasks!Init
  BY KeepInit
<1>2. TypeOK /\ Placing /\ KeepInv => PlaceInv
  BY DEF Placing, KeepInv
<1>3. TypeOK /\ Placing /\ KeepInv /\ [Next]_vars => KeepInv' /\ [Tasks!Next]_Tasks!vars
  BY <1>2, KeepStep
<1> QED BY <1>1, <1>3, TypeCorrect, PlacingHolds, PTL DEF Spec, ImplementsQueue, Tasks!Spec
=============================================================================
