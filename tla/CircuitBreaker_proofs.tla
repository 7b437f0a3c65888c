------------------------ MODULE CircuitBreaker_proofs ------------------------
(* Theorems about CircuitBreaker, for any number of clients, any threshold    *)
(* and any timeout.                                                           *)
EXTENDS CircuitBreaker, TLAPS

(* What the counter means in each state.  TripsAtThreshold alone is not       *)
(* inductive: whether a failure trips the circuit is decided by the counter,  *)
(* so the counter must be the number of consecutive failures while closed.    *)
CountsStreak ==
  /\ state = "closed" => failures = streak /\ failures < Threshold
  /\ state # "closed" => streak >= Threshold /\ failures >= Threshold

(* The counters' types and meaning, apart from the flag and the flights. *)
Counters ==
  /\ state \in {"closed", "open", "half-open"}
  /\ failures \in 0..MaxFailures
  /\ openFor \in Undefined..ResetTimeout
  /\ upstream \in {"up", "down"}
  /\ resets \in 0..MaxResets /\ flaps \in 0..Flaps
  /\ streak \in 0..MaxFailures /\ rested \in 0..ResetTimeout
  /\ CountsStreak
Flights ==
  /\ probing \in BOOLEAN
  /\ flight \in [Caller -> {"none", "normal", "probe"}]
  /\ FlagMeansFlight

IInv == Counters /\ Flights

(* The invariant implies what the theorem states.                             *)
LEMMA IInvSuffices == IInv => TypeOK /\ TripsAtThreshold /\ FlagMeansFlight
<1>1. Counters => TripsAtThreshold
  BY BreakerAssumption DEF Counters, CountsStreak, TripsAtThreshold
<1> QED BY <1>1 DEF IInv, Counters, Flights, TypeOK

(* A breaker starts closed, with nothing counted.                             *)
LEMMA InitIInv == Init => IInv
<1> SUFFICES ASSUME Init PROVE IInv
  OBVIOUS
<1>1. Counters
  BY BreakerAssumption DEF Init, Counters, CountsStreak, Undefined
<1>2. Flights
  BY DEF Init, Flights, FlagMeansFlight
<1> QED BY <1>1, <1>2 DEF IInv

-----------------------------------------------------------------------------
(* A settlement always leaves the flag down. *)
LEMMA SettleFlights ==
  ASSUME NEW c \in Caller, Flights, Settle(c) PROVE Flights'
<1>1. probing' = FALSE /\ flight' = [flight EXCEPT ![c] = "none"]
  BY DEF Settle, Succeeds, Fails, Uncounted, Lands
<1> QED BY <1>1 DEF Flights, FlagMeansFlight

(* _onFailure keeps the counters' meaning.                                    *)
LEMMA FailsCounters ==
  ASSUME NEW c \in Caller, Counters, Fails(c) PROVE Counters'
<1> USE BreakerAssumption DEF Counters, CountsStreak, Undefined
<1>1. CASE state = "half-open"
  BY <1>1 DEF Fails
<1>2. CASE state # "half-open"
  <2>1. CASE Trips(failures + 1)
    BY <1>2, <2>1 DEF Fails, Trips
  <2>2. CASE ~Trips(failures + 1)
    BY <1>2, <2>2 DEF Fails, Trips
  <2> QED BY <2>1, <2>2
<1> QED BY <1>1, <1>2

(* So does every settlement.                                                  *)
LEMMA SettleCounters ==
  ASSUME NEW c \in Caller, Counters, Settle(c) PROVE Counters'
<1> USE BreakerAssumption DEF Counters, CountsStreak, Undefined
<1>1. CASE Succeeds(c)
  BY <1>1 DEF Succeeds
<1>2. CASE Fails(c)
  BY <1>2, FailsCounters
<1>3. CASE Uncounted(c)
  BY <1>3 DEF Uncounted
<1> QED BY <1>1, <1>2, <1>3 DEF Settle

(* An admission may half-open the circuit; it counts nothing.                 *)
LEMMA AdmitIInv ==
  ASSUME NEW c \in Caller, IInv, Admit(c) PROVE IInv'
<1>1. Counters'
  <2>1. state' \in {state, "half-open"} /\ (state' = "closed" <=> state = "closed")
    BY DEF Admit, EntersHalfOpen, IInv, Counters
  <2> QED BY <2>1 DEF Admit, IInv, Counters, CountsStreak
<1>2. CASE flight' = [flight EXCEPT ![c] = "probe"] /\ probing' = TRUE
  BY <1>1, <1>2 DEF IInv, Flights, FlagMeansFlight
<1>3. CASE flight' = [flight EXCEPT ![c] = "normal"] /\ probing' = probing
  BY <1>1, <1>3 DEF IInv, Flights, FlagMeansFlight
<1>4. CASE flight' = flight /\ probing' = probing
  BY <1>1, <1>4 DEF IInv, Flights, FlagMeansFlight
<1> QED BY <1>2, <1>3, <1>4 DEF Admit

(* Every step keeps the invariant.                                            *)
LEMMA NextIInv == IInv /\ [Next]_vars => IInv'
<1> SUFFICES ASSUME IInv, [Next]_vars PROVE IInv'
  OBVIOUS
<1>1. ASSUME NEW c \in Caller, Admit(c) \/ Settle(c) PROVE IInv'
  BY <1>1, AdmitIInv, SettleFlights, SettleCounters DEF IInv
<1>2. CASE Reset
  <2>1. Counters'
    BY <1>2, BreakerAssumption DEF Reset, IInv, Counters, CountsStreak, Undefined
  <2>2. Flights'
    BY <1>2 DEF Reset, IInv, Flights, FlagMeansFlight
  <2> QED BY <2>1, <2>2 DEF IInv
<1>3. CASE Tick
  <2>1. Counters'
    BY <1>3, BreakerAssumption DEF Tick, IInv, Counters, CountsStreak, Undefined
  <2>2. Flights'
    BY <1>3 DEF Tick, IInv, Flights, FlagMeansFlight
  <2> QED BY <2>1, <2>2 DEF IInv
<1>4. CASE Flap
  <2>1. Counters'
    BY <1>4, BreakerAssumption DEF Flap, breakerVars, IInv, Counters, CountsStreak, Undefined
  <2>2. Flights'
    BY <1>4 DEF Flap, breakerVars, IInv, Flights, FlagMeansFlight
  <2> QED BY <2>1, <2>2 DEF IInv
<1>5. UNCHANGED vars => IInv'
  BY DEF vars, breakerVars, IInv, Counters, CountsStreak, Flights, FlagMeansFlight
<1> QED BY <1>1, <1>2, <1>3, <1>4, <1>5 DEF Next, Reject

(* The circuit is closed exactly as long as fewer than Threshold consecutive  *)
(* failures were counted (_onFailure), and the probe's flag is never set      *)
(* without a request in flight that will clear it (call's finally block).     *)
THEOREM TripsExactly == Spec => [](TypeOK /\ TripsAtThreshold /\ FlagMeansFlight)
BY InitIInv, NextIInv, IInvSuffices, PTL DEF Spec
-----------------------------------------------------------------------------
(* While the circuit is open, its stamp is set and says when it was opened     *)
(* last: every way into "open", and every late failure in it, sets both anew.  *)
StampTells == state = "open" => openFor # Undefined /\ rested = openFor

(* Every step keeps it.                                                       *)
LEMMA StampStep ==
  ASSUME IInv, StampTells, [Next]_vars
  PROVE  StampTells'
<1> USE DEF StampTells
<1>1. ASSUME NEW c \in Caller, Admit(c) PROVE StampTells'
  BY <1>1 DEF Admit, EntersHalfOpen
<1>2. ASSUME NEW c \in Caller, Succeeds(c) \/ Uncounted(c) PROVE StampTells'
  BY <1>2 DEF Succeeds, Uncounted
<1>3. ASSUME NEW c \in Caller, Fails(c) PROVE StampTells'
  <2>1. state = "open" => Trips(failures + 1)
    BY BreakerAssumption DEF IInv, Counters, CountsStreak, Trips
  <2> QED BY <1>3, <2>1 DEF Fails, Undefined
<1>4. CASE Reset
  BY <1>4 DEF Reset
<1>5. CASE Tick
  BY <1>5, BreakerAssumption DEF Tick, IInv, Counters, Undefined
<1>6. CASE Flap
  BY <1>6 DEF Flap, breakerVars
<1>7. UNCHANGED vars => StampTells'
  BY DEF vars, breakerVars
<1> QED BY <1>1, <1>2, <1>3, <1>4, <1>5, <1>6, <1>7 DEF Next, Reject, Settle

(* A circuit leaves "open" in three ways: a call finds the timeout over,      *)
(* a request let in before succeeds, or somebody resets it.                   *)
LEMMA LeavesOpen ==
  ASSUME IInv, StampTells, [Next]_vars, state = "open", state' # "open"
  PROVE  \/ state' = "half-open" /\ rested >= ResetTimeout
         \/ state' = "closed" /\ (Reset \/ \E c \in Caller : Succeeds(c))
<1>1. ASSUME NEW c \in Caller, Admit(c)
      PROVE  state' = "half-open" /\ rested >= ResetTimeout
  BY <1>1 DEF Admit, EntersHalfOpen, TimedOut, StampTells
<1>2. ASSUME NEW c \in Caller, Settle(c)
      PROVE  state' = "closed" /\ Succeeds(c)
  BY <1>2 DEF Settle, Succeeds, Fails, Uncounted
<1>3. Reset => state' = "closed"
  BY DEF Reset
<1>4. ~Tick /\ ~Flap /\ ~UNCHANGED vars
  BY DEF Tick, Flap, vars, breakerVars
<1> QED BY <1>1, <1>2, <1>3, <1>4 DEF Next, Reject

(* However the circuit came to be open, by failures in a row, by a failed      *)
(* probe or by the late failure of a call admitted earlier: unless it is       *)
(* closed by a reset or the success of such a call, none is let through before *)
(* a whole ResetTimeout has passed since (call, _onSuccess, _onFailure).       *)
THEOREM OpenRestsWhole == Spec => OpenRests
<1> DEFINE Inv == IInv /\ StampTells
           Leaves == state = "open" /\ state' # "open" =>
             \/ state' = "half-open" /\ rested >= ResetTimeout
             \/ state' = "closed" /\ (Reset \/ \E c \in Caller : Succeeds(c))
<1>1. Init => Inv
  BY InitIInv DEF Init, StampTells
<1>2. Inv /\ [Next]_vars => Inv'
  BY NextIInv, StampStep
<1>3. Inv /\ [Next]_vars => [Leaves]_vars
  BY LeavesOpen
<1> QED BY <1>1, <1>2, <1>3, PTL DEF Spec, OpenRests
=============================================================================
