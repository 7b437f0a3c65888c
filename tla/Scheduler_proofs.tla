-------------------------- MODULE Scheduler_proofs --------------------------
(***************************************************************************)
(* Theorems about the scheduler.  A task that is not to overlap runs in one*)
(* place at a time, for any number of hosts and ticks, any TTL and any     *)
(* budget of crashes, lapses and errors of the lock's driver; and the      *)
(* searches of a cron expression move on and find the first due minute, but*)
(* for those the changes of two clocks cost, for every two clocks, calendar*)
(* and expression.                                                         *)
(***************************************************************************)
EXTENDS ScheduledTask, CronExpression, FiniteSetTheorems, TLAPS

(* The fields a host's runs share belong to the one run that is running: its  *)
(* flag is up, and its lock's handle and its interval are those in the fields *)
(* for as long as it takes itself to hold the lock.                           *)
RunFields ==
  /\ \A h \in Host : handle[h] # None => Home[handle[h]] = h
  /\ \A r \in believes : handle[Home[r]] = r
  /\ \A r \in timers : r \in believes /\ beat[Home[r]] = r
  /\ \A r \in Run : run[r] = "running" =>
       /\ running[Home[r]] = TRUE
       /\ handle[Home[r]] = None \/ (handle[Home[r]] = r /\ r \in believes)

(* Who may hold the key, by where each run is.  The second conjunct is what   *)
(* closes the gap between reading the flag and setting it: whoever has passed *)
(* the flag while another run of its host was on its way finds the key taken. *)
Holders ==
  /\ \A r \in Run : run[r] = "granted" => holder = r
  /\ \A r, q \in Run :
       Home[r] = Home[q] /\ run[r] = "running" /\ run[q] \in {"asking", "granted"}
       => holder = r
  /\ \A r \in Run : run[r] \in {"idle", "guarding", "asking"} => holder # r
  /\ \A r \in Run : run[r] = "running" /\ holder = r => r \in believes
  /\ refresh = TRUE /\ spent.lapse = 0 => \A r \in Run : run[r] = "running" => holder = r

(* Who waits for which answer: a run for that of its own refresh(), while it  *)
(* runs or releases, and for that of its own release().  No other run of its  *)
(* host is running until both have come.                                      *)
Calls ==
  /\ \A r \in Run : refreshing[r] # "none" =>
       /\ run[r] \in {"running", "releasing", "released"}
       /\ run[r] = "running" => r \in believes
       /\ refreshing[r] = "lost" => holder # r
  /\ \A r \in Run : run[r] = "releasing" => releasing[r] = r
  /\ \A r \in Run : run[r] = "released" => holder # r
  /\ \A r, q \in Run :
       Home[r] = Home[q] /\ r # q /\ run[q] = "running" => ~Awaits(r)

OneAtHome == \A r, q \in Running : Home[r] = Home[q] => r = q

TaskInv == TypeOK /\ RunFields /\ Holders /\ Calls /\ OneAtHome /\ ReleasedWhenDone

(* The invariant implies what the theorem states.                             *)
LEMMA TaskInvSuffices == TaskInv => TypeOK /\ NoOverlap /\ ReleasedWhenDone
<1> SUFFICES ASSUME TaskInv, refresh, spent.lapse = 0 PROVE Cardinality(Running) <= 1
  BY DEF TaskInv, OneAtHome, NoOverlap
<1>1. Running = {} \/ Running = {holder}
  BY DEF TaskInv, Holders, Running
<1>2. CASE Running = {}
  BY <1>2, FS_EmptySet
<1>3. CASE Running = {holder}
  <2>1. Cardinality({holder}) = 1
    BY FS_Singleton
  <2> QED BY <1>3, <2>1
<1> QED BY <1>1, <1>2, <1>3

(* Nothing runs at the start.                                                 *)
LEMMA InitIInv == Init => TaskInv
<1> SUFFICES ASSUME Init PROVE TaskInv
  OBVIOUS
<1> USE TaskAssumption DEF Init, Key!Init
<1>1. TypeOK
  BY DEF TypeOK, FaultCount
<1>2. RunFields /\ Holders /\ Calls /\ OneAtHome /\ ReleasedWhenDone
  BY DEF RunFields, Holders, Calls, OneAtHome, ReleasedWhenDone, Running
<1> QED BY <1>1, <1>2 DEF TaskInv

(* What is spent remains a count, and nothing spent is given back.            *)
LEMMA Spends ==
  ASSUME spent \in FaultCount, NEW what \in {"crash", "lapse", "error"}, Spend(what)
  PROVE  /\ spent' \in FaultCount /\ spent'[what] > 0
         /\ spent'.lapse = 0 => spent.lapse = 0
         /\ spent.error > 0 => spent'.error > 0
BY DEF Spend, FaultCount

-----------------------------------------------------------------------------
(* One lemma per step of a run. *)

(* A tick of the cron.                                                        *)
LEMMA FireIInv == ASSUME TaskInv, NEW r \in Run, Fire(r) PROVE TaskInv'
<1> USE DEF TaskInv, Fire, Goes, taskVars, callVars, lockVars, TypeOK
<1>1. \A q \in Run : run'[q] = IF q = r THEN "guarding" ELSE run[q]
  OBVIOUS
<1>2. TypeOK'
  BY <1>1
<1>3. RunFields' /\ OneAtHome' /\ ReleasedWhenDone'
  BY <1>1, TaskAssumption DEF RunFields, OneAtHome, ReleasedWhenDone, Running
<1>4. Holders'
  BY <1>1 DEF Holders
<1>5. Calls'
  BY <1>1 DEF Calls, Awaits
<1> QED BY <1>2, <1>3, <1>4, <1>5

(* Only where nothing runs may a run go on to ask for the lock.               *)
LEMMA GuardIInv == ASSUME TaskInv, NEW r \in Run, Guard(r) PROVE TaskInv'
<1> USE DEF TaskInv, Guard, Goes, taskVars, callVars, lockVars, TypeOK
<1>1. PICK to \in {"over", "asking"} :
        run' = [run EXCEPT ![r] = to] /\ (to = "asking" => running[Home[r]] = FALSE)
  OBVIOUS
<1>2. \A q \in Run : run'[q] = IF q = r THEN to ELSE run[q]
  BY <1>1
<1>3. TypeOK'
  BY <1>1, <1>2
<1>4. RunFields' /\ OneAtHome' /\ ReleasedWhenDone'
  BY <1>2, TaskAssumption DEF RunFields, OneAtHome, ReleasedWhenDone, Running, Holders
<1>5. Holders'
  BY <1>1, <1>2 DEF Holders, RunFields
<1>6. Calls'
  BY <1>2 DEF Calls, Awaits
<1> QED BY <1>3, <1>4, <1>5, <1>6

(* The key is granted while nobody has it.                                    *)
LEMMA GrantIInv == ASSUME TaskInv, NEW r \in Run, Grant(r) PROVE TaskInv'
<1> USE TaskAssumption DEF TaskInv, Grant, Goes, taskVars, callVars, TypeOK, Key!Grant
<1>1. \A q \in Run : run'[q] = IF q = r THEN "granted" ELSE run[q]
  OBVIOUS
<1>2. holder \in {Nobody, r} /\ holder' = r
  OBVIOUS
<1>3. TypeOK'
  BY <1>1, <1>2
<1>4. RunFields' /\ OneAtHome' /\ ReleasedWhenDone'
  BY <1>1, <1>2 DEF RunFields, OneAtHome, ReleasedWhenDone, Running
<1>5. Holders'
  BY <1>1, <1>2 DEF Holders
<1>6. Calls'
  BY <1>1, <1>2 DEF Calls, Awaits
<1> QED BY <1>3, <1>4, <1>5, <1>6

(* It is refused while somebody has.                                          *)
LEMMA RefuseIInv == ASSUME TaskInv, NEW r \in Run, Refuse(r) PROVE TaskInv'
<1> USE DEF TaskInv, Refuse, Goes, taskVars, callVars, lockVars, TypeOK
<1>1. \A q \in Run : run'[q] = IF q = r THEN "over" ELSE run[q]
  OBVIOUS
<1>2. TypeOK'
  BY <1>1
<1>3. RunFields' /\ OneAtHome' /\ ReleasedWhenDone'
  BY <1>1, TaskAssumption DEF RunFields, OneAtHome, ReleasedWhenDone, Running, Holders
<1>4. Holders'
  BY <1>1 DEF Holders
<1>5. Calls'
  BY <1>1 DEF Calls, Awaits
<1> QED BY <1>2, <1>3, <1>4, <1>5

(* An acquire that throws is an error spent.                                  *)
LEMMA AcquireFailsIInv == ASSUME TaskInv, NEW r \in Run, AcquireFails(r) PROVE TaskInv'
<1> USE DEF TaskInv, AcquireFails, Goes, taskVars, callVars, TypeOK, Key!Forget
<1>1. \A q \in Run : run'[q] = IF q = r THEN "over" ELSE run[q]
  OBVIOUS
<1>2. /\ spent' \in FaultCount /\ spent'.error > 0
      /\ spent'.lapse = 0 => spent.lapse = 0
  BY Spends
<1>3. TypeOK'
  BY <1>1, <1>2
<1>4. RunFields' /\ OneAtHome' /\ ReleasedWhenDone'
  BY <1>1, <1>2, TaskAssumption DEF RunFields, OneAtHome, ReleasedWhenDone, Running
<1>5. Holders'
  BY <1>1, <1>2 DEF Holders
<1>6. Calls'
  BY <1>1 DEF Calls, Awaits
<1> QED BY <1>3, <1>4, <1>5, <1>6

(* A run that starts is alone on its host: another that was running there     *)
(* would hold the key it was granted.                                         *)
LEMMA StartIInv == ASSUME TaskInv, NEW r \in Run, Start(r) PROVE TaskInv'
<1> USE TaskAssumption DEF TaskInv, Start, Goes, TypeOK, Key!Learn, callVars
<1> DEFINE h == Home[r]
<1>1. \A q \in Run : run'[q] = IF q = r THEN "running" ELSE run[q]
  OBVIOUS
<1>2. holder = r /\ run[r] = "granted" /\ h \in Host
  BY DEF Holders
<1>3. \A q \in Run : Home[q] = h => run[q] # "running"
  BY <1>2 DEF Holders
<1>4. \A g \in Host : handle'[g] = IF g = h THEN r ELSE handle[g]
  OBVIOUS
<1>5. timers' \subseteq timers \cup {r} /\ (timers' # timers => refresh)
  OBVIOUS
<1>6. \A q \in timers' : q \in believes' /\ beat'[Home[q]] = q
  <2> SUFFICES ASSUME NEW q \in timers' PROVE q \in believes' /\ beat'[Home[q]] = q
    OBVIOUS
  <2>1. CASE q = r
    <3>1. refresh /\ beat' = [beat EXCEPT ![h] = r]
      BY <1>2, <2>1
    <3> QED BY <1>2, <2>1, <3>1
  <2>2. CASE q # r
    <3>1. q \in timers /\ Home[q] # h /\ Home[q] \in Host
      BY <1>3, <1>5, <2>2
    <3>2. beat'[Home[q]] = beat[Home[q]]
      BY <3>1, <1>2
    <3> QED BY <3>1, <3>2 DEF RunFields
  <2> QED BY <2>1, <2>2
<1>7. TypeOK'
  <2>1. beat' \in [Host -> Run \cup {None}] /\ handle' \in [Host -> Run \cup {None}]
    BY <1>2
  <2>2. /\ run' \in [Run -> {"idle", "guarding", "asking", "granted", "running",
                             "releasing", "released", "over", "dead"}]
        /\ running' \in [Host -> BOOLEAN]
    OBVIOUS
  <2>3. timers' \subseteq {q \in Run : run'[q] = "running" /\ refresh'}
    BY <1>1, <1>5
  <2>4. /\ granted' = {q \in Run : run'[q] = "granted"}
        /\ believes' \subseteq {q \in Run : run'[q] = "running"}
    BY <1>1
  <2> QED BY <2>1, <2>2, <2>3, <2>4
<1>8. RunFields'
  <2>1. \A g \in Host : handle'[g] # None => Home[handle'[g]] = g
    BY <1>4 DEF RunFields
  <2>2. \A q \in believes' : handle'[Home[q]] = q
    BY <1>2, <1>3, <1>4 DEF RunFields
  <2>3. ASSUME NEW q \in Run, run'[q] = "running"
        PROVE  /\ running'[Home[q]] = TRUE
               /\ handle'[Home[q]] = None \/ (handle'[Home[q]] = q /\ q \in believes')
    <3>1. CASE Home[q] = h
      <4>1. q = r
        BY <1>1, <1>3, <2>3, <3>1
      <4> QED BY <1>2, <1>4, <4>1
    <3>2. CASE Home[q] # h
      <4>1. running'[Home[q]] = running[Home[q]] /\ handle'[Home[q]] = handle[Home[q]]
        BY <3>2
      <4> QED BY <1>1, <2>3, <3>2, <4>1 DEF RunFields
    <3> QED BY <3>1, <3>2
  <2> QED BY ONLY <2>1, <2>2, <2>3, <1>6 DEF RunFields
<1>9. Holders' /\ OneAtHome' /\ ReleasedWhenDone'
  BY <1>1, <1>2, <1>3 DEF Holders, OneAtHome, ReleasedWhenDone, Running
<1>10. Calls'
  BY <1>1, <1>2 DEF Calls, Awaits
<1> QED BY <1>7, <1>8, <1>9, <1>10

-----------------------------------------------------------------------------
(* The beat. *)

(* It is sent by a run that takes itself to hold the lock.                    *)
LEMMA BeatIInv == ASSUME TaskInv, NEW r \in Run, Beat(r) PROVE TaskInv'
<1> USE TaskAssumption DEF TaskInv, Beat, TypeOK, taskVars, lockVars
<1>1. /\ run[r] = "running" /\ r \in believes
      /\ \A q \in Run : refreshing'[q] = IF q = r THEN "sent" ELSE refreshing[q]
  BY DEF RunFields
<1>2. TypeOK'
  BY <1>1
<1>3. RunFields' /\ Holders' /\ OneAtHome' /\ ReleasedWhenDone'
  BY DEF RunFields, Holders, OneAtHome, ReleasedWhenDone, Running
<1>4. Calls'
  BY <1>1 DEF Calls, Awaits, OneAtHome, Running
<1> QED BY <1>2, <1>3, <1>4

(* The driver moves the deadline, or finds the key in other hands.            *)
LEMMA ExtendsIInv == ASSUME TaskInv, NEW r \in Run, Extends(r) PROVE TaskInv'
<1> USE TaskAssumption DEF TaskInv, Extends, TypeOK, taskVars, lockVars, Key!Extend
<1>1. /\ \A q \in Run :
           refreshing'[q] = IF q = r THEN IF holder = r THEN "kept" ELSE "lost"
                            ELSE refreshing[q]
      /\ UNCHANGED <<run, holder, granted, believes>>
  OBVIOUS
<1>2. TypeOK'
  BY <1>1
<1>3. RunFields' /\ Holders' /\ OneAtHome' /\ ReleasedWhenDone'
  BY <1>1 DEF RunFields, Holders, OneAtHome, ReleasedWhenDone, Running
<1>4. Calls'
  BY <1>1 DEF Calls, Awaits
<1> QED BY <1>2, <1>3, <1>4

(* A run that hears of its loss clears the fields of its host, which no other *)
(* run of the host is using.                                                  *)
LEMMA LostIInv == ASSUME TaskInv, NEW r \in Run, Lost(r) PROVE TaskInv'
<1> USE TaskAssumption DEF TaskInv, TypeOK
<1> DEFINE h == Home[r]
<1>1. /\ UNCHANGED <<refresh, run, running, releasing, granted, spent, holder, left, forces>>
      /\ believes' = believes \ {r} /\ timers' = timers \ {beat[h]}
      /\ beat' = [beat EXCEPT ![h] = None] /\ handle' = [handle EXCEPT ![h] = None]
      /\ \A q \in Run : refreshing'[q] = IF q = r THEN "none" ELSE refreshing[q]
  BY DEF Lost, StopHeartbeat, Key!Forget
<1>2. h \in Host /\ holder # r
  BY DEF Lost, Calls
<1>3. \A q \in Run : q # r /\ run[q] = "running" => Home[q] # h
  BY DEF Lost, Calls, Awaits
<1>4. r \notin timers'
  BY <1>1 DEF RunFields
<1>5. TypeOK'
  <2>1. refreshing' \in [Run -> {"none", "sent", "kept", "lost"}]
    BY DEF Lost
  <2>2. handle' \in [Host -> Run \cup {None}] /\ beat' \in [Host -> Run \cup {None}]
    BY <1>1
  <2> QED BY <1>1, <2>1, <2>2
<1>6. RunFields'
  <2>1. \A g \in Host : handle'[g] # None => Home[handle'[g]] = g
    BY <1>1 DEF RunFields
  <2>2. \A q \in believes' : handle'[Home[q]] = q
    BY <1>1, <1>3 DEF RunFields
  <2>3. \A q \in timers' : q \in believes' /\ beat'[Home[q]] = q
    BY <1>1, <1>3, <1>4 DEF RunFields
  <2>4. ASSUME NEW q \in Run, run'[q] = "running"
        PROVE  /\ running'[Home[q]] = TRUE
               /\ handle'[Home[q]] = None \/ (handle'[Home[q]] = q /\ q \in believes')
    <3>1. CASE q = r
      BY <1>1, <1>2, <2>4, <3>1 DEF RunFields
    <3>2. CASE q # r
      <4>1. handle'[Home[q]] = handle[Home[q]]
        BY <1>1, <1>3, <2>4, <3>2
      <4> QED BY <1>1, <2>4, <3>2, <4>1 DEF RunFields
    <3> QED BY <3>1, <3>2
  <2> QED BY ONLY <2>1, <2>2, <2>3, <2>4 DEF RunFields
<1>7. Holders' /\ OneAtHome' /\ ReleasedWhenDone'
  BY <1>1, <1>2 DEF Holders, OneAtHome, ReleasedWhenDone, Running
<1>8. Calls'
  BY <1>1 DEF Calls, Awaits
<1> QED BY <1>5, <1>6, <1>7, <1>8

(* Any other answer changes nothing.                                          *)
LEMMA BeatenIInv == ASSUME TaskInv, NEW r \in Run, Beaten(r) PROVE TaskInv'
<1> USE TaskAssumption DEF TaskInv, Beaten, TypeOK, taskVars, lockVars
<1>1. \A q \in Run : refreshing'[q] = IF q = r THEN "none" ELSE refreshing[q]
  OBVIOUS
<1>2. TypeOK'
  BY <1>1
<1>3. RunFields' /\ Holders' /\ OneAtHome' /\ ReleasedWhenDone'
  BY DEF RunFields, Holders, OneAtHome, ReleasedWhenDone, Running
<1>4. Calls'
  BY <1>1 DEF Calls, Awaits
<1> QED BY <1>2, <1>3, <1>4

-----------------------------------------------------------------------------
(* The end of a run. *)

(* A run that ends finds its own handle in the field, or none; and its fields *)
(* were its own, so that no other run's are cleared.                          *)
LEMMA FinishIInv == ASSUME TaskInv, NEW r \in Run, Finish(r) PROVE TaskInv'
<1> USE TaskAssumption DEF TaskInv, TypeOK
<1> DEFINE h == Home[r]
           to == IF handle[h] = r THEN "releasing" ELSE "over"
<1>1. run[r] = "running" /\ h \in Host /\ r \notin granted
  BY DEF Finish
<1>2. \A q \in Run : q # r /\ run[q] = "running" => Home[q] # h
  BY <1>1 DEF OneAtHome, Running
<1>3. handle[h] = None \/ (handle[h] = r /\ r \in believes)
  BY <1>1 DEF RunFields
<1>4. r \in believes => handle[h] = r
  BY <1>1 DEF RunFields
<1>5. /\ running' = [running EXCEPT ![h] = FALSE]
      /\ timers' = timers \ {beat[h]} /\ beat' = [beat EXCEPT ![h] = None]
      /\ UNCHANGED <<refresh, handle, refreshing, granted, spent, holder, left, forces>>
  BY DEF Finish, StopHeartbeat, Key!Forget
<1>6. \A q \in Run : run'[q] = IF q = r THEN to ELSE run[q]
  BY <1>3 DEF Finish, Goes
<1>7. run' \in [Run -> {"idle", "guarding", "asking", "granted", "running",
                        "releasing", "released", "over", "dead"}]
  BY <1>3 DEF Finish, Goes
<1>8. believes' = believes \ {r} /\ releasing' = [releasing EXCEPT ![r] = handle[h]]
  BY <1>3, <1>4 DEF Finish
<1>9. r \notin timers'
  BY <1>5 DEF RunFields
<1>10. TypeOK'
  <2>1. timers' \subseteq {q \in Run : run'[q] = "running" /\ refresh'}
    BY <1>5, <1>6, <1>9
  <2>2. /\ believes' \subseteq {q \in Run : run'[q] = "running"}
        /\ granted' = {q \in Run : run'[q] = "granted"}
    BY <1>1, <1>5, <1>6, <1>8
  <2>3. /\ running' \in [Host -> BOOLEAN] /\ beat' \in [Host -> Run \cup {None}]
        /\ releasing' \in [Run -> Run \cup {None}]
    BY <1>1, <1>5, <1>8
  <2> QED BY <1>5, <1>7, <2>1, <2>2, <2>3
<1>11. RunFields'
  <2>1. \A g \in Host : handle'[g] # None => Home[handle'[g]] = g
    BY <1>5 DEF RunFields
  <2>2. \A q \in believes' : handle'[Home[q]] = q
    BY <1>5, <1>8 DEF RunFields
  <2>3. ASSUME NEW q \in timers' PROVE q \in believes' /\ beat'[Home[q]] = q
    <3>1. q \in timers /\ q # r
      BY <1>5, <1>9
    <3>2. Home[q] # h /\ Home[q] \in Host
      BY <1>2, <3>1
    <3> QED BY <1>5, <1>8, <3>1, <3>2 DEF RunFields
  <2>4. ASSUME NEW q \in Run, run'[q] = "running"
        PROVE  /\ running'[Home[q]] = TRUE
               /\ handle'[Home[q]] = None \/ (handle'[Home[q]] = q /\ q \in believes')
    <3>1. q # r /\ run[q] = "running" /\ Home[q] # h /\ Home[q] \in Host
      BY <1>2, <1>6, <2>4
    <3>2. running'[Home[q]] = running[Home[q]]
      BY <1>5, <3>1
    <3> QED BY <1>5, <1>8, <3>1, <3>2 DEF RunFields
  <2> QED BY ONLY <2>1, <2>2, <2>3, <2>4 DEF RunFields
<1>12. Holders'
  BY <1>1, <1>5, <1>6, <1>8 DEF Holders
<1>13. Calls'
  <2>1. \A q \in Run : refreshing'[q] # "none" =>
          /\ run'[q] \in {"running", "releasing", "released"}
          /\ run'[q] = "running" => q \in believes'
          /\ refreshing'[q] = "lost" => holder' # q
    BY <1>1, <1>4, <1>5, <1>6, <1>8 DEF Calls
  <2>2. \A q \in Run : run'[q] = "releasing" => releasing'[q] = q
    BY <1>3, <1>6, <1>8 DEF Calls
  <2>3. \A q \in Run : run'[q] = "released" => holder' # q
    BY <1>5, <1>6 DEF Calls
  <2>4. \A p, q \in Run :
          Home[p] = Home[q] /\ p # q /\ run'[q] = "running" => ~Awaits(p)'
    BY <1>2, <1>5, <1>6 DEF Calls, Awaits
  <2> QED BY ONLY <2>1, <2>2, <2>3, <2>4 DEF Calls
<1>14. OneAtHome' /\ ReleasedWhenDone'
  BY <1>1, <1>4, <1>5, <1>6 DEF OneAtHome, ReleasedWhenDone, Running, Holders
<1> QED BY <1>10, <1>11, <1>12, <1>13, <1>14

(* The driver removes the run's own lock, so that no other run loses the key. *)
LEMMA ReleaseIInv == ASSUME TaskInv, NEW r \in Run, Release(r) PROVE TaskInv'
<1> USE TaskAssumption DEF TaskInv, TypeOK
<1>1. /\ run[r] = "releasing" /\ releasing[r] = r /\ r \notin believes
      /\ UNCHANGED <<refresh, taskVars, callVars, spent, believes, granted, forces>>
  BY DEF Release, Calls, Key!Release, lockVars
<1>2. \A q \in Run : run'[q] = IF q = r THEN "released" ELSE run[q]
  BY DEF Release, Goes
<1>3. /\ holder' # r
      /\ \/ holder' = holder /\ left' = left
         \/ holder = r /\ holder' = Nobody /\ left' = 0
  BY <1>1 DEF Release, Key!Release, lockVars
<1>4. TypeOK'
  <2>1. run' \in [Run -> {"idle", "guarding", "asking", "granted", "running",
                          "releasing", "released", "over", "dead"}]
    BY DEF Release, Goes
  <2> QED BY <1>1, <1>2, <1>3, <2>1 DEF taskVars, callVars
<1>5. RunFields' /\ OneAtHome' /\ ReleasedWhenDone'
  BY <1>1, <1>2, <1>3 DEF RunFields, OneAtHome, ReleasedWhenDone, Running, taskVars
<1>6. Holders'
  BY <1>1, <1>2, <1>3 DEF Holders, taskVars
<1>7. Calls'
  BY <1>1, <1>2, <1>3 DEF Calls, Awaits, callVars
<1> QED BY <1>4, <1>5, <1>6, <1>7

(* Its answer clears a handle that is no running run's.                       *)
LEMMA ReleasedIInv == ASSUME TaskInv, NEW r \in Run, Released(r) PROVE TaskInv'
<1> USE TaskAssumption DEF TaskInv, TypeOK
<1> DEFINE h == Home[r]
<1>1. /\ run[r] = "released" /\ holder # r /\ h \in Host
      /\ handle' = [handle EXCEPT ![h] = None]
      /\ releasing' = [releasing EXCEPT ![r] = None]
      /\ UNCHANGED <<refresh, running, beat, timers, refreshing, spent, holder, left,
                     granted, believes, forces>>
  BY DEF Released, Calls, lockVars
<1>2. \A q \in Run : run'[q] = IF q = r THEN "over" ELSE run[q]
  BY DEF Released, Goes
<1>3. \A q \in Run : run[q] = "running" => Home[q] # h
  BY <1>1 DEF Calls, Awaits
<1>4. TypeOK'
  <2>1. run' \in [Run -> {"idle", "guarding", "asking", "granted", "running",
                          "releasing", "released", "over", "dead"}]
    BY DEF Released, Goes
  <2> QED BY <1>1, <1>2, <2>1
<1>5. RunFields'
  <2>1. \A g \in Host : handle'[g] = None \/ (g # h /\ handle'[g] = handle[g])
    BY <1>1
  <2>2. \A q \in Run : run[q] = "running" => handle'[Home[q]] = handle[Home[q]]
    BY <1>1, <1>3
  <2> QED BY <1>1, <1>2, <2>1, <2>2 DEF RunFields
<1>6. Holders' /\ OneAtHome' /\ ReleasedWhenDone'
  BY <1>1, <1>2 DEF Holders, OneAtHome, ReleasedWhenDone, Running
<1>7. Calls'
  BY <1>1, <1>2 DEF Calls, Awaits, Released
<1> QED BY <1>4, <1>5, <1>6, <1>7

(* A release that throws is an error spent.                                   *)
LEMMA ReleaseFailsIInv == ASSUME TaskInv, NEW r \in Run, ReleaseFails(r) PROVE TaskInv'
<1> USE TaskAssumption DEF TaskInv, TypeOK
<1>1. /\ run[r] \in {"releasing", "released"} /\ refreshing[r] = "none"
      /\ releasing' = [releasing EXCEPT ![r] = None]
      /\ UNCHANGED <<refresh, running, handle, beat, timers, refreshing, holder, left,
                     granted, believes, forces>>
  BY DEF ReleaseFails, lockVars, taskVars
<1>2. \A q \in Run : run'[q] = IF q = r THEN "over" ELSE run[q]
  BY DEF ReleaseFails, Goes
<1>3. /\ spent' \in FaultCount /\ spent'.error > 0
      /\ spent'.lapse = 0 => spent.lapse = 0
  BY Spends DEF ReleaseFails
<1>4. TypeOK'
  <2>1. run' \in [Run -> {"idle", "guarding", "asking", "granted", "running",
                          "releasing", "released", "over", "dead"}]
    BY DEF ReleaseFails, Goes
  <2> QED BY <1>1, <1>2, <1>3, <2>1
<1>5. RunFields' /\ Holders' /\ OneAtHome' /\ ReleasedWhenDone'
  BY <1>1, <1>2, <1>3 DEF RunFields, Holders, OneAtHome, ReleasedWhenDone, Running
<1>6. Calls'
  BY <1>1, <1>2 DEF Calls, Awaits
<1> QED BY <1>4, <1>5, <1>6

-----------------------------------------------------------------------------
(* A crash clears the fields of a host together with its runs.                *)
LEMMA CrashIInv == ASSUME TaskInv, NEW h \in Host, Crash(h) PROVE TaskInv'
<1> USE TaskAssumption DEF TaskInv, Crash, TypeOK, Alive
<1>1. \A q \in Run : run'[q] = IF Home[q] = h /\ Alive(q) THEN "dead" ELSE run[q]
  OBVIOUS
<1>2. spent' \in FaultCount /\ (spent'.lapse = 0 => spent.lapse = 0)
      /\ (spent.error > 0 => spent'.error > 0)
  BY Spends
<1>3. \A q \in Run : run'[q] = "running" => run[q] = "running" /\ Home[q] # h
  BY <1>1
<1>4. /\ \A q \in Run :
           refreshing'[q] = IF Home[q] = h /\ Alive(q) THEN "none" ELSE refreshing[q]
      /\ \A q \in Run : releasing'[q] = IF Home[q] = h /\ Alive(q) THEN None ELSE releasing[q]
  OBVIOUS
<1>5. TypeOK'
  <2>1. /\ refreshing' \in [Run -> {"none", "sent", "kept", "lost"}]
        /\ releasing' \in [Run -> Run \cup {None}]
    OBVIOUS
  <2>2. run' \in [Run -> {"idle", "guarding", "asking", "granted", "running",
                          "releasing", "released", "over", "dead"}]
    OBVIOUS
  <2>3. /\ timers' \subseteq {q \in Run : run'[q] = "running" /\ refresh'}
        /\ granted' = {q \in Run : run'[q] = "granted"}
        /\ believes' \subseteq {q \in Run : run'[q] = "running"}
    BY <1>1
  <2>4. /\ running' \in [Host -> BOOLEAN]
        /\ handle' \in [Host -> Run \cup {None}] /\ beat' \in [Host -> Run \cup {None}]
    OBVIOUS
  <2> QED BY <1>2, <2>1, <2>2, <2>3, <2>4
<1>6. RunFields'
  <2>1. \A g \in Host : handle'[g] # None => Home[handle'[g]] = g
    BY DEF RunFields
  <2>2. \A q \in believes' : handle'[Home[q]] = q
    BY DEF RunFields
  <2>3. \A q \in timers' : q \in believes' /\ beat'[Home[q]] = q
    BY DEF RunFields
  <2>4. ASSUME NEW q \in Run, run'[q] = "running"
        PROVE  /\ running'[Home[q]] = TRUE
               /\ handle'[Home[q]] = None \/ (handle'[Home[q]] = q /\ q \in believes')
    <3>1. Home[q] # h /\ Home[q] \in Host
      BY <1>3, <2>4
    <3>2. running'[Home[q]] = running[Home[q]] /\ handle'[Home[q]] = handle[Home[q]]
      BY <3>1
    <3>3. q \in believes => q \in believes'
      BY <3>1
    <3> QED BY <1>3, <2>4, <3>2, <3>3 DEF RunFields
  <2> QED BY ONLY <2>1, <2>2, <2>3, <2>4 DEF RunFields
<1>7. Holders'
  BY <1>1, <1>2, <1>3 DEF Holders
<1>8. OneAtHome' /\ ReleasedWhenDone'
  BY <1>1, <1>2, <1>3 DEF OneAtHome, ReleasedWhenDone, Running
<1>9. Calls'
  BY <1>1, <1>3, <1>4 DEF Calls, Awaits
<1> QED BY <1>5, <1>6, <1>7, <1>8, <1>9

(* A lock lapses only while no run of any host waits for the driver, and      *)
(* under a run that keeps it alive only at the cost of a lapse.               *)
LEMMA TickIInv == ASSUME TaskInv, Tick PROVE TaskInv'
<1> USE TaskAssumption DEF TaskInv, Tick, TypeOK, Key!Tick, taskVars, callVars
<1>1. /\ spent' \in FaultCount /\ (spent'.lapse = 0 => spent.lapse = 0)
      /\ (spent.error > 0 => spent'.error > 0)
  BY Spends
<1>2. TypeOK'
  BY <1>1
<1>3. RunFields' /\ OneAtHome' /\ Calls'
  BY DEF RunFields, OneAtHome, Running, Calls, Awaits
<1>4. CASE left # 1
  <2>1. UNCHANGED <<refresh, run, believes, holder, spent>>
    BY <1>4
  <2> QED BY <1>2, <1>3, <2>1 DEF Holders, ReleasedWhenDone
<1>5. CASE left = 1
  <2>1. /\ holder' = Nobody /\ UNCHANGED <<refresh, run, believes>>
        /\ \A r \in Run : run[r] \notin {"asking", "granted"}
    BY <1>5
  <2>2. ASSUME refresh, spent'.lapse = 0, NEW r \in Run PROVE run[r] # "running"
    <3> SUFFICES ASSUME run[r] = "running" PROVE FALSE
      OBVIOUS
    <3>1. holder = r
      BY <1>1, <2>2 DEF Holders
    <3>2. Spend("lapse")
      BY <1>5, <2>2, <3>1
    <3>3. spent'["lapse"] > 0
      BY <3>2, Spends
    <3> QED BY <2>2, <3>3
  <2> QED BY <1>2, <1>3, <2>1, <2>2 DEF Holders, ReleasedWhenDone
<1> QED BY <1>4, <1>5

(* Every step keeps the invariant.                                            *)
LEMMA NextIInv == TaskInv /\ [Next]_vars => TaskInv'
<1> SUFFICES ASSUME TaskInv, [Next]_vars PROVE TaskInv'
  OBVIOUS
<1>1. CASE UNCHANGED vars
  BY <1>1 DEF vars, taskVars, callVars, lockVars, TaskInv, TypeOK, RunFields, Holders,
              Calls, Awaits, OneAtHome, ReleasedWhenDone, Running
<1> QED BY <1>1, FireIInv, GuardIInv, GrantIInv, RefuseIInv, AcquireFailsIInv, StartIInv,
           BeatIInv, ExtendsIInv, LostIInv, BeatenIInv, FinishIInv, ReleaseIInv,
           ReleasedIInv, ReleaseFailsIInv, CrashIInv, TickIInv
    DEF Next, Answer

(* The task does not overlap with itself, and no run that is over keeps the   *)
(* key (_running, _lockHandle and _lockHeartbeat of ScheduledTask).           *)
THEOREM RunsAlone == Spec => [](TypeOK /\ NoOverlap /\ ReleasedWhenDone)
BY InitIInv, NextIInv, TaskInvSuffices, PTL DEF Spec

-----------------------------------------------------------------------------
(* Cron expressions. *)

(* Division with remainder: it exists, and it is unique. *)
LEMMA DivMod ==
  ASSUME NEW a \in Int, NEW d \in Nat \ {0}
  PROVE  /\ a \div d \in Int /\ a % d \in 0..d-1
         /\ a = (a \div d) * d + (a % d)
OBVIOUS

(* Of a natural number, so are its quotients. *)
LEMMA DivNat ==
  ASSUME NEW a \in Nat, NEW d \in Nat \ {0}
  PROVE  /\ a \div d \in Nat /\ a % d \in 0..d-1
         /\ a = (a \div d) * d + (a % d)
OBVIOUS

(* A quotient and a remainder are those of the number they make up.           *)
LEMMA DivModUnique ==
  ASSUME NEW d \in Nat \ {0}, NEW q \in Int, NEW r \in 0..d-1
  PROVE  (q * d + r) \div d = q /\ (q * d + r) % d = r
OBVIOUS

(* Where a Date is moved to is the first minute that the clock shows so.      *)
LEMMA LaterLater ==
  ASSUME NEW s \in Search, NEW t \in Int, NEW k \in Nat
  PROVE  /\ Later(s, t, k) \in Int
         /\ Later(s, Later(s, t, k), 0) = Later(s, t, k)
<1>1. s.home.at \in Int /\ s.home.before \in Int /\ s.home.after \in Int
  BY CronAssumption DEF Clock
<1> QED
  BY <1>1 DEF Later, Instant, Local

(* What a clock shows, without a conditional.                                 *)
LEMMA Shows ==
  ASSUME NEW z \in Clock, NEW t \in Int
  PROVE  /\ z.at \in Int /\ z.before \in Int /\ z.after \in Int /\ Local(z, t) \in Int
         /\ \/ t < z.at /\ Local(z, t) = t + z.before
            \/ t >= z.at /\ Local(z, t) = t + z.after
<1>1. z.at \in Int /\ z.before \in Int /\ z.after \in Int
  BY DEF Clock
<1> QED
  BY <1>1 DEF Local

(* The instant that local fields set a Date to.                               *)
LEMMA Sets ==
  ASSUME NEW z \in Clock, NEW l \in Int
  PROVE  /\ Instant(z, l) \in Int
         /\ \/ Instant(z, l) = l - z.before /\ (l - z.before < z.at \/ l - z.after < z.at)
            \/ Instant(z, l) = l - z.after /\ l - z.after >= z.at /\ l - z.before >= z.at
<1>1. z.at \in Int /\ z.before \in Int /\ z.after \in Int
  BY DEF Clock
<1> QED
  BY <1>1 DEF Instant

(* Where a search's Date is moved to.                                         *)
LEMMA Moves ==
  ASSUME NEW s \in Search, NEW t \in Int, NEW k \in Nat
  PROVE  /\ s.home \in Clock /\ s.zone \in Clock
         /\ Later(s, t, k) \in Int
         /\ \/ /\ Later(s, t, k) = (Local(s.home, t) + k) - s.home.before
               /\ \/ Later(s, t, k) < s.home.at
                  \/ (Local(s.home, t) + k) - s.home.after < s.home.at
            \/ /\ Later(s, t, k) = (Local(s.home, t) + k) - s.home.after
               /\ Later(s, t, k) >= s.home.at
               /\ (Local(s.home, t) + k) - s.home.before >= s.home.at
<1>1. s.home \in Clock /\ s.zone \in Clock
  BY CronAssumption
<1>2. Local(s.home, t) + k \in Int
  BY <1>1, Shows
<1>3. Later(s, t, k) = Instant(s.home, Local(s.home, t) + k)
  BY DEF Later
<1>4. /\ Instant(s.home, Local(s.home, t) + k) \in Int
      /\ \/ /\ Instant(s.home, Local(s.home, t) + k) = (Local(s.home, t) + k) - s.home.before
            /\ \/ (Local(s.home, t) + k) - s.home.before < s.home.at
               \/ (Local(s.home, t) + k) - s.home.after < s.home.at
         \/ /\ Instant(s.home, Local(s.home, t) + k) = (Local(s.home, t) + k) - s.home.after
            /\ (Local(s.home, t) + k) - s.home.after >= s.home.at
            /\ (Local(s.home, t) + k) - s.home.before >= s.home.at
  BY <1>1, <1>2, Sets
<1> QED
  BY <1>1, <1>3, <1>4

(* Moving on passes over minutes that the clock shows in between, and, where  *)
(* it ends in minutes that are skipped, over as many.                         *)
LEMMA LaterOn ==
  ASSUME NEW s \in Search, NEW t \in Int, NEW k \in Nat \ {0}, Later(s, t, 0) = t
  PROVE  /\ t < Later(s, t, k)
         /\ \A u \in t..Later(s, t, k)-1 :
              \/ Local(s.home, u) < Local(s.home, t) + k
              \/ u < t + k /\ u < s.home.at + Gain(s.home, t, u)
<1> DEFINE at == s.home.at
           before == s.home.before
           after == s.home.after
           lt == Local(s.home, t)
           n == Later(s, t, k)
<1>1. /\ at \in Int /\ before \in Int /\ after \in Int /\ lt \in Int /\ n \in Int
      /\ (t < at /\ lt = t + before) \/ (t >= at /\ lt = t + after)
  BY Moves, Shows
<1>2. \/ n = (lt + k) - before /\ (n < at \/ (lt + k) - after < at)
      \/ n = (lt + k) - after /\ n >= at /\ (lt + k) - before >= at
  BY Moves
<1>3. \/ t = (lt + 0) - before /\ (t < at \/ (lt + 0) - after < at)
      \/ t = (lt + 0) - after /\ t >= at /\ (lt + 0) - before >= at
  BY Moves
<1>4. t < n
  <2> HIDE DEF at, before, after, lt, n
  <2> QED
    BY <1>1, <1>2, <1>3
<1>5. ASSUME NEW u \in t..n-1
      PROVE  \/ Local(s.home, u) < lt + k
             \/ u < t + k /\ u < at + Gain(s.home, t, u)
  <2> DEFINE lu == Local(s.home, u)
  <2>1. u \in Int /\ t <= u /\ u < n
    <3> HIDE DEF n
    <3> QED
      BY <1>1
  <2>2. lu \in Int /\ ((u < at /\ lu = u + before) \/ (u >= at /\ lu = u + after))
    BY <2>1, Moves, Shows
  <2>6. Gain(s.home, t, u) = (lu - u) - (lt - t)
    BY DEF Gain
  <2> HIDE DEF at, before, after, lt, lu, n
  <2>7. lu < lt + k \/ (u < t + k /\ u < at + ((lu - u) - (lt - t)))
    BY <2>1, <2>2, <1>1, <1>2, <1>3
  <2> QED
    BY <2>6, <2>7 DEF lu
<1> QED
  BY <1>4, <1>5

(* The minutes between one and the next that a Date can be moved to are shown *)
(* for the second time.                                                       *)
LEMMA FirstMinute ==
  ASSUME NEW s \in Search, NEW t \in Int, NEW u \in t+1..Later(s, t, 1)-1
  PROVE  Later(s, u, 0) # u
<1>1. s.home.at \in Int /\ s.home.before \in Int /\ s.home.after \in Int
  BY CronAssumption DEF Clock
<1> QED
  BY <1>1 DEF Later, Instant, Local

(* The minutes of day q are those from q * Day to the next midnight. *)
LEMMA DayOf ==
  ASSUME NEW l \in Int
  PROVE  /\ l \div Day \in Int /\ (l \div Day) * Day \in Int
         /\ l % Day \in 0..Day-1 /\ l = (l \div Day) * Day + (l % Day)
         /\ (l \div Day + 1) * Day = (l \div Day) * Day + Day
<1>1. Day \in Nat \ {0}
  BY CronAssumption
<1>2. l \div Day \in Int /\ l % Day \in 0..Day-1 /\ l = (l \div Day) * Day + (l % Day)
  BY <1>1, DivMod
<1> DEFINE q == l \div Day
<1>3. (q + 1) * Day = q * Day + Day /\ q * Day \in Int
  <2> HIDE DEF q
  <2> QED
    BY <1>1, <1>2 DEF q
<1> QED
  BY <1>2, <1>3

(* A minute between two midnights is of the day between them. *)
LEMMA SameDay ==
  ASSUME NEW q \in Int, NEW l \in Int, q * Day <= l, l < q * Day + Day
  PROVE  l \div Day = q /\ l % Day = l - q * Day
<1>1. Day \in Nat \ {0} /\ q * Day \in Int
  BY CronAssumption
<1>2. l - q * Day \in 0..Day-1
  BY <1>1
<1>3. /\ (q * Day + (l - q * Day)) \div Day = q
      /\ (q * Day + (l - q * Day)) % Day = l - q * Day
  BY <1>1, <1>2, DivModUnique
<1>4. q * Day + (l - q * Day) = l
  BY <1>1
<1> QED
  BY <1>3, <1>4

(* Days come in the order of their minutes. *)
LEMMA DayOrder ==
  ASSUME NEW q \in Int, NEW p \in Int, q * Day < p * Day + Day
  PROVE  q * Day <= p * Day
<1>1. Day \in Nat \ {0}
  BY CronAssumption
<1>2. CASE q <= p
  BY <1>1, <1>2
<1>3. CASE q >= p + 1
  <2>1. q * Day >= (p + 1) * Day
    BY <1>1, <1>3
  <2> QED
    BY <2>1, <1>1
<1> QED
  BY <1>2, <1>3

(* What a tame clock skips or repeats is short, and part of one date.         *)
LEMMA TameParts ==
  ASSUME NEW z \in Clock, Tame(z),
         NEW low, NEW change, low \in Int, change = z.after - z.before
  PROVE  /\ change \in Int /\ 2 * change <= Day /\ -2 * change <= Day
         /\ change >= 0 /\ low = z.at + z.before
              => low + 2 * change <= (low \div Day + 1) * Day
         /\ change < 0 /\ low = z.at + z.after
              => low - change <= (low \div Day + 1) * Day
<1>1. z.at \in Int /\ z.before \in Int /\ z.after \in Int /\ change \in Int
  BY DEF Clock
<1>2. 2 * change <= Day /\ -2 * change <= Day
  BY DEF Tame
<1>3. ASSUME change >= 0, low = z.at + z.before
      PROVE  low + 2 * change <= (low \div Day + 1) * Day
  <2>1. ~(change < 0)
    BY <1>1, <1>3
  <2> QED
    BY <2>1, <1>3 DEF Tame
<1>4. ASSUME change < 0, low = z.at + z.after
      PROVE  low - change <= (low \div Day + 1) * Day
  <2>1. low + (-change) <= (low \div Day + 1) * Day
    BY <1>4 DEF Tame
  <2>2. low + (-change) = low - change
    BY <1>1
  <2> QED
    BY <2>1, <2>2
<1> QED
  BY <1>1, <1>2, <1>3, <1>4

(* A wall time that the home's clock skips is read as a later one, of the     *)
(* same date.                                                                 *)
LEMMA Misread ==
  ASSUME NEW s \in Search, NEW t \in Int
  PROVE  /\ Wall(s, t) \in Int /\ Local(s.zone, t) \in Int
         /\ Local(s.zone, t) <= Wall(s, t)
         /\ Wall(s, t) \div Day = Local(s.zone, t) \div Day
<1> DEFINE l == Local(s.zone, t)
           at == s.home.at
           before == s.home.before
           after == s.home.after
           i == Instant(s.home, l)
           w == Wall(s, t)
           low == at + before
           p == low \div Day
<1>1. s.home \in Clock /\ s.zone \in Clock
  BY Moves
<1>2. l \in Int /\ at \in Int /\ before \in Int /\ after \in Int
  BY <1>1, Shows
<1>3. /\ i \in Int
      /\ \/ i = l - before /\ (l - before < at \/ l - after < at)
         \/ i = l - after /\ l - after >= at /\ l - before >= at
  BY <1>1, <1>2, Sets
<1>4. /\ w \in Int
      /\ (i < at /\ w = i + before) \/ (i >= at /\ w = i + after)
  BY <1>1, <1>3, Shows DEF Wall
<1>5. w = l \/ (low <= l /\ l < at + after /\ w = l + (after - before))
  <2> HIDE DEF l, at, before, after, i, w
  <2> QED
    BY <1>2, <1>3, <1>4
<1>6. CASE w = l
  BY <1>2, <1>6
<1>7. CASE low <= l /\ l < at + after /\ w = l + (after - before)
  <2>1. low \in Int /\ before < after
    <3> HIDE DEF l, at, before, after
    <3> QED
      BY <1>2, <1>7
  <2>2. low + 2 * (after - before) <= (p + 1) * Day
    <3>1. Tame(s.home) /\ after - before >= 0
      <4>1. Tame(s.home)
        BY CronAssumption
      <4> HIDE DEF at, before, after
      <4> QED
        BY <4>1, <1>2, <2>1
    <3>2. low \in Int /\ low = s.home.at + s.home.before
      BY <2>1
    <3> DEFINE change == after - before
    <3>3. change = s.home.after - s.home.before /\ change >= 0
      BY <3>1
    <3> HIDE DEF low, change
    <3>4. low + 2 * change <= (low \div Day + 1) * Day
      BY <3>1, <3>2, <3>3, <1>1, TameParts
    <3> QED
      BY <3>4 DEF change
  <2>3. p \in Int /\ p * Day \in Int /\ p * Day <= low /\ (p + 1) * Day = p * Day + Day
    <3> HIDE DEF low
    <3> QED
      BY <2>1, DayOf
  <2>4. p * Day <= l /\ l < p * Day + Day /\ p * Day <= w /\ w < p * Day + Day /\ l <= w
    <3> DEFINE m == p * Day
    <3>1. /\ low = at + before /\ m \in Int /\ m <= low
          /\ low + 2 * (after - before) <= m + Day
      BY <2>2, <2>3
    <3>2. Day \in Nat
      BY CronAssumption
    <3> HIDE DEF p, l, at, before, after, w, low, m
    <3>3. m <= l /\ l < m + Day /\ m <= w /\ w < m + Day /\ l <= w
      BY <1>2, <1>7, <2>1, <3>1, <3>2, <1>4
    <3> QED
      BY <3>3 DEF m
  <2>5. l \div Day = p /\ w \div Day = p
    <3> HIDE DEF p, l, w
    <3> QED
      BY <2>3, <2>4, <1>2, <1>4, SameDay
  <2> QED
    BY <2>4, <2>5, <1>2, <1>4
<1> QED
  BY <1>5, <1>6, <1>7

(* A zone's clock never goes back to the date before, and gains no more than  *)
(* a day on the home's.                                                       *)
LEMMA Gains ==
  ASSUME NEW s \in Search, NEW t \in Int, NEW u \in Int, t <= u
  PROVE  /\ (Local(s.zone, t) \div Day) * Day <= Local(s.zone, u)
         /\ Gain(s.zone, t, u) \in Int /\ Gain(s.home, t, u) \in Int
         /\ Gain(s.zone, t, u) - Gain(s.home, t, u) <= Day
         /\ Gain(s.zone, t, u) <= Day
<1> DEFINE l == Local(s.zone, t)
           r == Local(s.zone, u)
           change == s.zone.after - s.zone.before
           homes == s.home.after - s.home.before
           q == l \div Day
           low == s.zone.at + s.zone.after
           p == low \div Day
<1>1. s.home \in Clock /\ s.zone \in Clock /\ Tame(s.home) /\ Tame(s.zone)
  BY CronAssumption
<1>2. /\ l \in Int /\ r \in Int /\ change \in Int /\ homes \in Int /\ low \in Int
      /\ Day \in Nat
  <2>1. Day \in Nat
    BY CronAssumption
  <2> QED
    BY <1>1, <2>1, Shows
<1>3. \/ r - u = l - t
      \/ t < s.zone.at /\ s.zone.at <= u /\ r - u = (l - t) + change
  BY <1>1, Shows
<1>4. q \in Int /\ q * Day \in Int /\ q * Day <= l /\ l < q * Day + Day
  <2> HIDE DEF l
  <2> QED
    BY <1>2, DayOf
<1>5. /\ Gain(s.zone, t, u) = (r - u) - (l - t)
      /\ Gain(s.home, t, u) = (Local(s.home, u) - u) - (Local(s.home, t) - t)
      /\ Gain(s.home, t, u) \in {0, homes}
  BY <1>1, Shows DEF Gain
<1>6. 2 * change <= Day /\ -2 * homes <= Day
  BY <1>1, <1>2, TameParts
<1>7. /\ Gain(s.zone, t, u) \in Int /\ Gain(s.home, t, u) \in Int
      /\ Gain(s.zone, t, u) - Gain(s.home, t, u) <= Day
      /\ Gain(s.zone, t, u) <= Day
  <2> DEFINE gain == Gain(s.zone, t, u)
             home == Gain(s.home, t, u)
  <2>1. gain \in {0, change}
    <3> HIDE DEF l, r, change
    <3> QED
      BY <1>2, <1>3, <1>5
  <2> HIDE DEF gain, home, change, homes
  <2> QED
    BY <1>2, <1>5, <1>6, <2>1 DEF gain, home
<1>8. r >= l => q * Day <= r
  <2> DEFINE m == q * Day
  <2>1. m \in Int /\ m <= l
    BY <1>4
  <2> HIDE DEF l, r, m
  <2>2. r >= l => m <= r
    BY <2>1, <1>2
  <2> QED
    BY <2>2 DEF m
<1>9. ASSUME r < l
      PROVE  q * Day <= r
  <2>1. /\ t < s.zone.at /\ s.zone.at <= u /\ change < 0
        /\ l = t + s.zone.before /\ r = u + s.zone.after
    <3>1. t < s.zone.at /\ s.zone.at <= u /\ change < 0
      <4> HIDE DEF l, r, change
      <4> QED
        BY <1>2, <1>3, <1>9
    <3>2. s.zone.at \in Int
      BY <1>1, Shows
    <3> QED
      BY <1>1, <3>1, <3>2, Shows
  <2>2. low - change <= (p + 1) * Day
    <3>1. low = s.zone.at + s.zone.after /\ change = s.zone.after - s.zone.before
      OBVIOUS
    <3> HIDE DEF low, change
    <3> QED
      BY <1>1, <1>2, <2>1, <3>1, TameParts
  <2>3. p \in Int /\ p * Day \in Int /\ p * Day <= low /\ (p + 1) * Day = p * Day + Day
    <3> HIDE DEF low
    <3> QED
      BY <1>2, DayOf
  <2>4. low - change = s.zone.at + s.zone.before /\ low <= r /\ l < low - change
    BY <1>1, <1>2, <2>1, Shows
  <2>5. q * Day < p * Day + Day
    <3> DEFINE m == q * Day
               n == p * Day
               high == (p + 1) * Day
    <3>1. m \in Int /\ m <= l /\ n \in Int /\ low - change <= high /\ high = n + Day
      BY <1>4, <2>2, <2>3
    <3> HIDE DEF m, n, high, low, change, l
    <3>2. m < n + Day
      BY <3>1, <2>4, <1>2
    <3> QED
      BY <3>2 DEF m, n
  <2>6. q * Day <= p * Day
    <3> HIDE DEF p, q
    <3> QED
      BY <1>4, <2>3, <2>5, DayOrder
  <2> DEFINE m == q * Day
             n == p * Day
  <2>7. m \in Int /\ n \in Int /\ m <= n /\ n <= low
    BY <1>4, <2>3, <2>6
  <2> HIDE DEF m, n, low, r
  <2>8. m <= r
    BY <2>7, <2>4, <1>2
  <2> QED
    BY <2>8 DEF m
<1>10. r >= l \/ r < l
  <2> HIDE DEF l, r
  <2> QED
    BY <1>2
<1> QED
  BY <1>7, <1>8, <1>9, <1>10

(* Either search's skip of a day is by the minutes that remain of it: where   *)
(* the Date is of the home's zone, the next midnight is as far away.          *)
LEMMA SkipIsLater ==
  ASSUME NEW s \in Search, NEW t \in Int, Later(s, t, 0) = t
  PROVE  /\ Day - (Wall(s, t) % Day) \in Nat \ {0}
         /\ NextDay(s, t) = Later(s, t, Day - (Wall(s, t) % Day))
<1> DEFINE w == Wall(s, t)
           l == Local(s.home, t)
<1>1. /\ w \in Int /\ l \in Int /\ Day \in Nat \ {0} /\ s.home \in Clock
      /\ s.by \in {"process", "zone"}
  <2>1. Day \in Nat \ {0} /\ s.home \in Clock /\ s.by \in {"process", "zone"}
    BY CronAssumption
  <2> QED
    BY <2>1, Misread, Shows
<1>2. w % Day \in 0..Day-1
  <2> HIDE DEF w
  <2> QED
    BY <1>1, DivMod
<1>3. Day - (w % Day) \in Nat \ {0}
  <2> HIDE DEF w
  <2> QED
    BY <1>1, <1>2
<1>4. CASE s.by = "zone"
  BY <1>3, <1>4 DEF NextDay
<1>5. CASE s.by = "process"
  <2>1. s.zone = s.home
    BY <1>5, CronAssumption
  <2>2. Instant(s.home, l) = t
    <3>1. l + 0 = l
      <4> HIDE DEF l
      <4> QED
        BY <1>1
    <3> QED
      BY <3>1 DEF Later
  <2>3. w = l
    BY <2>1, <2>2 DEF Wall
  <2>4. (l \div Day + 1) * Day = l + (Day - (l % Day))
    <3> DEFINE m == (l \div Day) * Day
               high == (l \div Day + 1) * Day
    <3>1. m \in Int /\ l % Day \in 0..Day-1 /\ l = m + (l % Day) /\ high = m + Day
      <4> HIDE DEF l
      <4> QED
        BY <1>1, DayOf
    <3> HIDE DEF m, high
    <3>2. high = l + (Day - (l % Day))
      <4> HIDE DEF l
      <4> QED
        BY <1>1, <3>1
    <3> QED
      BY <3>2 DEF high
  <2>5. NextDay(s, t) = Instant(s.home, (l \div Day + 1) * Day)
    BY <1>5 DEF NextDay
  <2> QED
    BY <1>3, <2>3, <2>4, <2>5 DEF Later
<1> QED
  BY <1>1, <1>4, <1>5

(* The minutes a skip passes over are of the day it skips, those overshot     *)
(* apart.                                                                     *)
LEMMA Passed ==
  ASSUME NEW s \in Search, NEW t \in Int, Later(s, t, 0) = t, Later(s, s.from, 1) <= t,
         NEW u \in t..NextDay(s, t)-1
  PROVE  Local(s.zone, u) \div Day = Wall(s, t) \div Day \/ Overshot(s, u)
<1> DEFINE w == Wall(s, t)
           l == Local(s.zone, t)
           r == Local(s.zone, u)
           q == w \div Day
           k == Day - (w % Day)
           m == q * Day
           gain == Gain(s.zone, t, u)
           home == Gain(s.home, t, u)
           lt == Local(s.home, t)
           lu == Local(s.home, u)
<1>1. /\ k \in Nat \ {0} /\ NextDay(s, t) = Later(s, t, k) /\ Later(s, t, k) \in Int
      /\ s.home \in Clock /\ s.zone \in Clock
  BY SkipIsLater, Moves
<1>2. u \in Int /\ t <= u /\ u \in t..Later(s, t, k)-1
  <2> HIDE DEF k
  <2> QED
    BY <1>1
<1>3. /\ w \in Int /\ l \in Int /\ l <= w /\ l \div Day = q
  BY Misread
<1>4. /\ q \in Int /\ m \in Int /\ Day \in Nat \ {0} /\ w % Day \in 0..Day-1
      /\ w = m + (w % Day) /\ (q + 1) * Day = m + Day
  <2>1. Day \in Nat \ {0}
    BY CronAssumption
  <2> HIDE DEF w
  <2> QED
    BY <1>3, <2>1, DayOf
<1>5. m <= r /\ gain \in Int /\ home \in Int /\ gain - home <= Day /\ gain <= Day
  BY <1>2, <1>3, Gains
<1>6. r \in Int /\ lu \in Int /\ lt \in Int /\ s.home.at \in Int
  BY <1>1, <1>2, Shows
<1>7. gain = (r - u) - (l - t) /\ home = (lu - u) - (lt - t)
  BY DEF Gain
<1>8. lu < lt + k \/ (u < t + k /\ u < s.home.at + home)
  <2> HIDE DEF k
  <2> QED
    BY <1>1, <1>2, LaterOn
<1>9. l + k <= m + Day
  <2> HIDE DEF w, m, l
  <2> QED
    BY <1>3, <1>4
<1>10. \/ r - (m + Day) < gain - home
       \/ r - (m + Day) < gain /\ u < s.home.at + home
  <2> HIDE DEF w, m, l, k, r, lu, lt, gain, home
  <2> QED
    BY <1>1, <1>2, <1>3, <1>4, <1>5, <1>6, <1>7, <1>8, <1>9
<1>11. CASE r < m + Day
  <2>1. r \div Day = q
    <3> HIDE DEF r, q
    <3> QED
      BY <1>4, <1>5, <1>6, <1>11, SameDay
  <2> QED
    BY <2>1
<1>12. CASE r >= m + Day
  <2>1. r < (m + Day) + Day
    <3> HIDE DEF r, m, gain, home
    <3> QED
      BY <1>4, <1>5, <1>6, <1>10, <1>12
  <2>2. r \div Day = q + 1 /\ r % Day = r - (m + Day)
    <3>1. q + 1 \in Int /\ (q + 1) * Day <= r /\ r < (q + 1) * Day + Day
      BY <1>4, <1>12, <2>1
    <3> HIDE DEF r, q
    <3> QED
      BY <3>1, <1>4, <1>6, SameDay
  <2>3. t \in Later(s, s.from, 1)..u
    <3>1. s.from \in Int
      BY CronAssumption
    <3>2. Later(s, s.from, 1) \in Int
      BY <3>1, Moves
    <3> QED
      BY <1>2, <3>2
  <2>4. /\ Local(s.zone, t) \div Day + 1 = Local(s.zone, u) \div Day
        /\ \/ Local(s.zone, u) % Day < Gain(s.zone, t, u) - Gain(s.home, t, u)
           \/ Local(s.zone, u) % Day < Gain(s.zone, t, u)
                /\ u < s.home.at + Gain(s.home, t, u)
    BY <1>3, <1>10, <2>2
  <2> QED
    BY <2>3, <2>4 DEF Overshot
<1>13. r < m + Day \/ r >= m + Day
  <2> HIDE DEF r, m
  <2> QED
    BY <1>4, <1>6
<1> QED
  BY <1>11, <1>12, <1>13

-----------------------------------------------------------------------------
(* The field matcher is crontab's, for values the field can have. *)
LEMMA FieldStandard ==
  ASSUME NEW field \in SUBSET Token, NEW value \in Nat, NEW min \in Nat, min <= value
  PROVE  FieldMatches(field, value, min) <=> InField(field, value, min)
<1>1. ASSUME NEW token \in field, NEW base \in Nat, base <= value
      PROVE  (value - base) % token.step = 0 <=>
               \E k \in 0..value : value = base + k * token.step
  <2>1. token.step \in Nat \ {0} /\ value - base \in Nat
    BY <1>1 DEF Token
  <2>2. ASSUME (value - base) % token.step = 0
        PROVE  \E k \in 0..value : value = base + k * token.step
    <3> DEFINE k == (value - base) \div token.step
    <3>1. k \in Nat /\ value - base = k * token.step + 0
      BY <2>1, <2>2, DivNat
    <3>2. k <= k * token.step
      BY <3>1, <2>1
    <3>3. k * token.step \in Nat
      BY <3>1, <2>1
    <3>4. k \in 0..value /\ value = base + k * token.step
      <4> HIDE DEF k
      <4> QED
        BY <3>1, <3>2, <3>3
    <3> QED
      BY <3>4
  <2>3. ASSUME NEW k \in 0..value, value = base + k * token.step
        PROVE  (value - base) % token.step = 0
    <3>1. k * token.step \in Nat
      BY <2>1
    <3>2. (k * token.step + 0) % token.step = 0
      <4>1. k \in Nat /\ 0 \in 0..token.step-1
        BY <2>1
      <4> QED
        BY <4>1, <2>1, DivModUnique
    <3>3. value - base = k * token.step + 0
      BY <2>3, <3>1
    <3> QED
      BY <3>2, <3>3
  <2> QED
    BY <2>2, <2>3
<1> DEFINE Base(token) == IF token.any THEN min ELSE token.from
           Hit(token) == /\ token.any \/ value \in token.from..token.to
                         /\ (value - Base(token)) % token.step = 0
           In(token) == \E k \in 0..value : /\ value = Base(token) + k * token.step
                                            /\ token.any \/ value <= token.to
<1>2. ASSUME NEW token \in field
      PROVE  Hit(token) <=> In(token)
  <2>1. token.any \in BOOLEAN /\ token.from \in Nat /\ token.to \in Nat
          /\ token.step \in Nat \ {0}
    BY DEF Token
  <2>2. CASE token.any
    BY <2>2, <1>1, <2>1
  <2>3. CASE ~token.any
    <3>1. ASSUME In(token)
          PROVE  token.from <= value
      <4>1. PICK k \in 0..value : value = token.from + k * token.step
        BY <3>1, <2>3
      <4>2. k * token.step \in Nat
        BY <2>1
      <4> QED
        BY <4>1, <4>2, <2>1
    <3>2. CASE token.from <= value
      <4>1. (value - token.from) % token.step = 0 <=>
               \E k \in 0..value : value = token.from + k * token.step
        BY <1>1, <2>1, <3>2
      <4> QED
        BY <4>1, <2>3, <2>1, <3>2
    <3>3. CASE ~(token.from <= value)
      BY <3>1, <3>3, <2>1, <2>3
    <3> QED
      BY <3>2, <3>3
  <2> QED
    BY <2>1, <2>2, <2>3
<1>3. FieldMatches(field, value, min)
        <=> field = Star \/ \E token \in field : Hit(token)
  BY DEF FieldMatches
<1>4. InField(field, value, min) <=> field = Star \/ \E token \in field : In(token)
  BY DEF InField
<1> QED
  BY <1>2, <1>3, <1>4

(* What the tick asks every minute is what crontab says, of a minute whose    *)
(* wall time the home's clock can show.                                       *)
LEMMA DueIsFires ==
  ASSUME NEW c \in Expression, NEW s \in Search, NEW t \in Int,
         Wall(s, t) = Local(s.zone, t)
  PROVE  Due(c, s.zone, t) <=> Fires(c, s, t)
<1> DEFINE local == Local(s.zone, t)
           minute == local % Day
           date == Calendar[(local \div Day) % Cycle]
<1>1. local \in Int
  BY Misread
<1>2. minute \in Nat /\ local \div Day \in Int
  <2>1. Day \in Nat \ {0}
    BY CronAssumption
  <2> HIDE DEF local
  <2>2. local \div Day \in Int /\ local % Day \in 0..Day-1
    BY <1>1, <2>1, DivMod
  <2> QED
    BY <2>1, <2>2
<1>3. minute % Hour \in Nat /\ minute \div Hour \in Nat
  <2>1. Hour \in Nat \ {0}
    BY CronAssumption
  <2> HIDE DEF minute
  <2>2. minute \div Hour \in Nat /\ minute % Hour \in 0..Hour-1
    BY <1>2, <2>1, DivNat
  <2> QED
    BY <2>1, <2>2
<1>4. (local \div Day) % Cycle \in 0..Cycle-1
  BY <1>2, CronAssumption, DivMod
<1>5. date \in Date
  BY <1>4, CronAssumption
<1>6. /\ date.date \in Nat /\ 1 <= date.date
      /\ date.month \in Nat /\ 1 <= date.month /\ date.weekday \in 0..6
  BY <1>5 DEF Date
<1>7. \A f \in Fields : c[f] \in SUBSET Token
  BY CronAssumption
<1>8. /\ c.minute \in SUBSET Token /\ c.hour \in SUBSET Token /\ c.dom \in SUBSET Token
      /\ c.month \in SUBSET Token /\ c.dow \in SUBSET Token
  BY <1>7 DEF Fields
<1> HIDE DEF local, minute, date
<1>9. /\ FieldMatches(c.minute, minute % Hour, 0) <=> InField(c.minute, minute % Hour, 0)
      /\ FieldMatches(c.hour, minute \div Hour, 0)
           <=> InField(c.hour, minute \div Hour, 0)
      /\ FieldMatches(c.dom, date.date, 1) <=> InField(c.dom, date.date, 1)
      /\ FieldMatches(c.month, date.month, 1) <=> InField(c.month, date.month, 1)
      /\ FieldMatches(c.dow, date.weekday, 0) <=> InField(c.dow, date.weekday, 0)
      /\ FieldMatches(c.dow, 7, 0) <=> InField(c.dow, 7, 0)
  BY <1>3, <1>6, <1>8, FieldStandard
<1>10. \A v, m \in Nat : FieldMatches(Star, v, m)
  BY DEF FieldMatches
<1> DEFINE onWeekday == \E w \in {date.weekday, date.weekday + 7} \cap 0..7 :
                           InField(c.dow, w, 0)
           onDate == InField(c.dom, date.date, 1)
<1>11. onWeekday <=> \/ FieldMatches(c.dow, date.weekday, 0)
                     \/ date.weekday = 0 /\ FieldMatches(c.dow, 7, 0)
  <2>1. CASE date.weekday = 0
    <3>1. {date.weekday, date.weekday + 7} \cap 0..7 = {0, 7}
      BY <2>1
    <3> QED
      BY <3>1, <2>1, <1>9
  <2>2. CASE date.weekday # 0
    <3>1. date.weekday \in 1..6
      BY <2>2, <1>6
    <3>2. \A w \in {date.weekday, date.weekday + 7} \cap 0..7 : w = date.weekday
      BY <3>1
    <3>3. date.weekday \in 0..7
      BY <3>1
    <3> QED
      BY <3>2, <3>3, <2>2, <1>9
  <2> QED
    BY <2>1, <2>2
<1>12. c.dom = Star => onDate
  BY <1>6, <1>9, <1>10
<1>13. c.dow = Star => onWeekday
  BY <1>6, <1>9, <1>10, <1>11
<1>18. onWeekday \in BOOLEAN /\ onDate \in BOOLEAN
  BY DEF InField
<1>14. DayMatches(c, local \div Day) <=>
         /\ InField(c.month, date.month, 1)
         /\ IF c.dom = Star THEN onWeekday
            ELSE onDate \/ (c.dow # Star /\ onWeekday)
  <2>1. DayMatches(c, local \div Day) <=>
         /\ InField(c.month, date.month, 1)
         /\ IF c.dom # Star /\ c.dow # Star THEN onDate \/ onWeekday
                                            ELSE onDate /\ onWeekday
    <3> HIDE DEF onWeekday
    <3> QED
      BY <1>9, <1>11 DEF DayMatches, date
  <2> HIDE DEF onWeekday, onDate
  <2>2. CASE c.dom = Star
    BY <2>1, <2>2, <1>18, <1>12
  <2>3. CASE c.dom # Star /\ c.dow = Star
    BY <2>1, <2>3, <1>18, <1>13
  <2>4. CASE c.dom # Star /\ c.dow # Star
    BY <2>1, <2>4, <1>18
  <2> QED
    BY <2>2, <2>3, <2>4
<1>15. TimeMatches(c, minute) <=>
         InField(c.minute, minute % Hour, 0) /\ InField(c.hour, minute \div Hour, 0)
  BY <1>9 DEF TimeMatches
<1>16. Fires(c, s, t) <=> DayMatches(c, local \div Day) /\ TimeMatches(c, minute)
  BY DEF Fires, local, minute
<1>17. Due(c, s.zone, t) <=>
         /\ InField(c.minute, minute % Hour, 0) /\ InField(c.hour, minute \div Hour, 0)
         /\ InField(c.month, date.month, 1)
         /\ IF c.dom = Star THEN onWeekday
            ELSE onDate \/ (c.dow # Star /\ onWeekday)
  BY DEF Due, local, minute, date
<1> QED
  BY <1>14, <1>15, <1>16, <1>17
-----------------------------------------------------------------------------
(* The inductive invariant: the types, nothing due passed over but for what   *)
(* it costs, and where the search began.                                      *)
SearchInv == SearchTypeOK /\ FirstFound /\ Later(search, search.from, 1) <= cursor

(* A day skipped, or a minute, is left for a later one, and what is passed    *)
(* over meets the invariant.                                                  *)
LEMMA SkipHolds ==
  ASSUME SearchInv, ~DayMatches(cron, Wall(search, cursor) \div Day)
  PROVE  /\ NextDay(search, cursor) \in Int /\ cursor < NextDay(search, cursor)
         /\ Later(search, NextDay(search, cursor), 0) = NextDay(search, cursor)
         /\ \A u \in cursor..NextDay(search, cursor)-1 :
              Due(cron, search.zone, u) => Unseen(search, u) \/ Overshot(search, u)
<1> DEFINE k == Day - (Wall(search, cursor) % Day)
<1>1. /\ cron \in Expression /\ search \in Search /\ cursor \in Int
      /\ Later(search, cursor, 0) = cursor /\ Later(search, search.from, 1) <= cursor
  BY DEF SearchInv, SearchTypeOK
<1>2. k \in Nat \ {0} /\ NextDay(search, cursor) = Later(search, cursor, k)
  BY <1>1, SkipIsLater
<1>3. /\ NextDay(search, cursor) \in Int /\ cursor < NextDay(search, cursor)
      /\ Later(search, NextDay(search, cursor), 0) = NextDay(search, cursor)
  <2> HIDE DEF k
  <2> QED
    BY <1>1, <1>2, LaterLater, LaterOn
<1>4. ASSUME NEW u \in cursor..NextDay(search, cursor)-1, Due(cron, search.zone, u)
      PROVE  Unseen(search, u) \/ Overshot(search, u)
  <2>1. u \in Int
    BY <1>1, <1>3
  <2>2. ASSUME ~Unseen(search, u), ~Overshot(search, u)
        PROVE  FALSE
    <3>1. Wall(search, u) = Local(search.zone, u)
      BY <2>2 DEF Unseen
    <3>2. Fires(cron, search, u)
      BY <1>1, <1>4, <2>1, <3>1, DueIsFires
    <3>3. Wall(search, u) \div Day = Wall(search, cursor) \div Day
      BY <1>1, <2>2, <3>1, Passed
    <3> QED
      BY <3>2, <3>3 DEF Fires
  <2> QED
    BY <2>2
<1> QED
  BY <1>3, <1>4

(* So is a minute, and only minutes shown for the second time lie between.    *)
LEMMA MinuteHolds ==
  ASSUME SearchInv, ~Fires(cron, search, cursor)
  PROVE  /\ Later(search, cursor, 1) \in Int /\ cursor < Later(search, cursor, 1)
         /\ Later(search, Later(search, cursor, 1), 0) = Later(search, cursor, 1)
         /\ \A u \in cursor..Later(search, cursor, 1)-1 :
              Due(cron, search.zone, u) => Unseen(search, u)
<1>1. /\ cron \in Expression /\ search \in Search /\ cursor \in Int
      /\ Later(search, cursor, 0) = cursor
  BY DEF SearchInv, SearchTypeOK
<1>2. /\ Later(search, cursor, 1) \in Int /\ cursor < Later(search, cursor, 1)
      /\ Later(search, Later(search, cursor, 1), 0) = Later(search, cursor, 1)
  BY <1>1, LaterLater, LaterOn
<1>3. ASSUME NEW u \in cursor..Later(search, cursor, 1)-1, Due(cron, search.zone, u)
      PROVE  Unseen(search, u)
  <2>1. u = cursor \/ u \in cursor+1..Later(search, cursor, 1)-1
    BY <1>1, <1>2
  <2>2. CASE u = cursor
    BY <1>1, <1>3, <2>2, DueIsFires DEF Unseen
  <2>3. CASE u \in cursor+1..Later(search, cursor, 1)-1
    BY <1>1, <2>3, FirstMinute DEF Unseen
  <2> QED
    BY <2>1, <2>2, <2>3
<1> QED
  BY <1>2, <1>3

(* The minutes passed over after a move are those before it and those of it.  *)
LEMMA Split ==
  ASSUME NEW a \in Int, NEW b \in Int, NEW c \in Int, NEW t \in a+1..c-1
  PROVE  t \in a+1..b-1 \/ t \in b..c-1
OBVIOUS

(* The invariant holds at the minute after the start, before which there are  *)
(* only minutes that the home's clock shows for the second time.              *)
LEMMA InitHolds == SearchInit => SearchInv
<1> SUFFICES ASSUME SearchInit PROVE SearchInv
  OBVIOUS
<1>1. /\ search \in Search /\ cron \in Expression /\ result = "none"
      /\ cursor = Later(search, search.from, 1)
  BY DEF SearchInit
<1>2. search.from \in Int
  BY <1>1, CronAssumption
<1>3. cursor \in Int /\ Later(search, cursor, 0) = cursor
  BY <1>1, <1>2, LaterLater
<1>4. \A u \in search.from+1..cursor-1 : Unseen(search, u)
  BY <1>1, <1>2, FirstMinute DEF Unseen
<1> QED
  BY <1>1, <1>3, <1>4 DEF SearchInv, SearchTypeOK, FirstFound

(* A move to a later minute keeps the invariant.                              *)
LEMMA MoveHolds ==
  ASSUME SearchInv, cron' = cron, search' = search, result' = result, result = "none",
         cursor' \in Int, cursor < cursor', Later(search, cursor', 0) = cursor',
         \A u \in cursor..cursor'-1 :
           Due(cron, search.zone, u) => Unseen(search, u) \/ Overshot(search, u)
  PROVE  SearchInv'
<1>1. /\ cron \in Expression /\ search \in Search /\ cursor \in Int
      /\ Later(search, search.from, 1) <= cursor
      /\ \A t \in search.from+1..cursor-1 :
           Due(cron, search.zone, t) => Unseen(search, t) \/ Overshot(search, t)
  BY DEF SearchInv, SearchTypeOK, FirstFound
<1>2. search.from \in Int
  BY <1>1, CronAssumption
<1>3. Later(search, search.from, 1) \in Int
  BY <1>1, <1>2, Moves
<1>4. SearchTypeOK'
  BY <1>1 DEF SearchTypeOK
<1>5. FirstFound'
  <2>1. ASSUME NEW t \in search.from+1..cursor'-1, Due(cron, search.zone, t)
        PROVE  Unseen(search, t) \/ Overshot(search, t)
    <3>1. t \in search.from+1..cursor-1 \/ t \in cursor..cursor'-1
      BY <1>1, <1>2, Split
    <3> QED
      BY <3>1, <2>1, <1>1
  <2> QED
    BY <2>1 DEF FirstFound, Due, Unseen, Overshot, Later, Wall, Gain
<1>6. Later(search', search'.from, 1) <= cursor'
  BY <1>1, <1>3
<1> QED
  BY <1>4, <1>5, <1>6 DEF SearchInv, Later

(* So does every step of a search, which moves on.                            *)
LEMMA StepHolds ==
  SearchInv /\ [SearchNext]_searchVars
    => SearchInv' /\ [cursor' > cursor \/ result' # "none"]_searchVars
<1> SUFFICES ASSUME SearchInv, [SearchNext]_searchVars
             PROVE  SearchInv' /\ [cursor' > cursor \/ result' # "none"]_searchVars
  OBVIOUS
<1>1. /\ cron \in Expression /\ search \in Search /\ cursor \in Int
      /\ Later(search, search.from, 1) <= cursor
      /\ \A t \in search.from+1..cursor-1 :
           Due(cron, search.zone, t) => Unseen(search, t) \/ Overshot(search, t)
      /\ result = "found" => Due(cron, search.zone, cursor) \/ Unseen(search, cursor)
  BY DEF SearchInv, SearchTypeOK, FirstFound
<1>2. CASE Scan
  <2>1. cron' = cron /\ search' = search /\ result = "none"
    BY <1>2 DEF Scan
  <2>2. CASE ~DayMatches(cron, Wall(search, cursor) \div Day)
    <3>1. cursor' = NextDay(search, cursor) /\ result' = result
      BY <1>2, <2>2 DEF Scan
    <3>2. SearchInv' /\ cursor < cursor'
      BY <2>1, <2>2, <3>1, SkipHolds, MoveHolds
    <3> QED
      BY <3>1, <3>2, <1>1, <2>1, SkipHolds DEF SearchInv, SearchTypeOK
  <2>3. CASE /\ DayMatches(cron, Wall(search, cursor) \div Day)
             /\ ~Fires(cron, search, cursor)
    <3>1. cursor' = Later(search, cursor, 1) /\ result' = result
      BY <1>2, <2>3 DEF Scan
    <3>2. SearchInv' /\ cursor < cursor'
      BY <2>1, <2>3, <3>1, MinuteHolds, MoveHolds
    <3> QED
      BY <3>1, <3>2, <1>1, <2>1, MinuteHolds
  <2>4. CASE /\ DayMatches(cron, Wall(search, cursor) \div Day)
             /\ Fires(cron, search, cursor)
    <3>1. cursor' = cursor /\ result' = "found"
      BY <1>2, <2>4 DEF Scan
    <3>2. Due(cron, search.zone, cursor) \/ Unseen(search, cursor)
      BY <1>1, <2>4, DueIsFires DEF Unseen
    <3>3. FirstFound'
      BY <2>1, <3>1, <3>2, <1>1
         DEF FirstFound, Due, Unseen, Overshot, Later, Wall, Gain
    <3>4. SearchTypeOK' /\ Later(search', search'.from, 1) <= cursor'
      BY <2>1, <3>1 DEF SearchInv, SearchTypeOK
    <3> QED
      BY <3>1, <3>3, <3>4 DEF SearchInv
  <2> QED
    BY <2>2, <2>3, <2>4
<1>3. CASE Exhaust
  <2>1. cron' = cron /\ search' = search /\ cursor' = cursor /\ result' = "null"
    BY <1>3 DEF Exhaust
  <2>2. FirstFound'
    BY <2>1, <1>1 DEF FirstFound, Due, Unseen, Overshot, Later, Wall, Gain
  <2>3. SearchTypeOK' /\ Later(search', search'.from, 1) <= cursor'
    BY <2>1 DEF SearchInv, SearchTypeOK
  <2> QED
    BY <2>1, <2>2, <2>3 DEF SearchInv
<1>4. CASE UNCHANGED searchVars
  <2>1. cron' = cron /\ search' = search /\ cursor' = cursor /\ result' = result
    BY <1>4 DEF searchVars
  <2>2. FirstFound'
    BY <2>1, <1>1 DEF FirstFound, Due, Unseen, Overshot, Later, Wall, Gain
  <2>3. SearchTypeOK' /\ Later(search', search'.from, 1) <= cursor'
    BY <2>1 DEF SearchInv, SearchTypeOK
  <2> QED
    BY <1>4, <2>2, <2>3 DEF SearchInv
<1> QED
  BY <1>2, <1>3, <1>4 DEF SearchNext

(* Whatever days it skips, and by whatever clocks it reads and moves its      *)
(* Dates, a search's result is the first minute that is due, but for minutes  *)
(* that the home's clock does not show and minutes that a zone's clock gains  *)
(* over the midnight it skips to (nextRunAfter and nextRunAfterIn of          *)
(* CronExpression).                                                           *)
THEOREM FindsFirst == SearchSpec => []FirstFound
<1>1. SearchInv => FirstFound
  BY DEF SearchInv
<1> QED
  BY <1>1, InitHolds, StepHolds, PTL DEF SearchSpec

(* And it moves on with every step, so that it ends: a clock that repeats an  *)
(* hour never takes it back, for a Date that is moved by its local fields is  *)
(* set to the first of two minutes that the clock shows alike, and comes to   *)
(* the minute after the second (the loops of CronExpression).                 *)
THEOREM SearchMovesOn == SearchSpec => []SearchTypeOK /\ MovesOn
<1>1. SearchInv => SearchTypeOK
  BY DEF SearchInv
<1> QED
  BY <1>1, InitHolds, StepHolds, PTL DEF SearchSpec, MovesOn
=============================================================================
