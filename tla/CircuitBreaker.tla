--------------------------- MODULE CircuitBreaker ---------------------------
(***************************************************************************)
(* The HTTP client's circuit breaker.  Any number of calls are in flight;  *)
(* a call is admitted in one step and settles in another, when the state   *)
(* may have changed any number of times in between.                        *)
(*                                                                         *)
(* openedAt is kept as the time since, capped at resetTimeout.             *)
(***************************************************************************)
EXTENDS Integers, FiniteSets

CONSTANTS
  Caller,       \* users of the breaker; each has at most one call in flight
  Threshold,    \* consecutive failures that open the circuit
  ResetTimeout, \* ticks the circuit stays open
  MaxFailures,  \* bound on the failure counter, which the code never bounds
  MaxResets,    \* bound: uses of reset()
  Flaps         \* bound: how often the upstream goes up or down

ASSUME BreakerAssumption ==
  /\ Threshold \in Nat \ {0} /\ ResetTimeout \in Nat \ {0}
  /\ MaxFailures \in Nat /\ MaxFailures >= Threshold
  /\ MaxResets \in Nat /\ Flaps \in Nat

Undefined == -1

VARIABLES
  state,    \* _state
  failures, \* _failures
  openFor,  \* Date.now() - _openedAt, or Undefined
  probing,  \* _probing
  flight,   \* Caller -> "none", "normal", or "probe" (admitted in half-open)
  upstream, \* "up" or "down"
  resets,   \* reset() calls so far
  flaps,    \* changes of the upstream so far
  streak,   \* history: counted failures since a success or a reset
  rested    \* history: ticks since the circuit was last opened, capped

breakerVars == <<state, failures, openFor, probing>>
vars == <<breakerVars, flight, upstream, resets, flaps, streak, rested>>

(* Types; in particular no count goes past the bound it is capped at. *)
TypeOK ==
  /\ state \in {"closed", "open", "half-open"}
  /\ failures \in 0..MaxFailures
  /\ openFor \in Undefined..ResetTimeout
  /\ probing \in BOOLEAN
  /\ flight \in [Caller -> {"none", "normal", "probe"}]
  /\ upstream \in {"up", "down"}
  /\ resets \in 0..MaxResets /\ flaps \in 0..Flaps
  /\ streak \in 0..MaxFailures
  /\ rested \in 0..ResetTimeout

Init ==
  /\ state = "closed" /\ failures = 0 /\ openFor = Undefined /\ probing = FALSE
  /\ flight = [c \in Caller |-> "none"]
  /\ upstream \in {"up", "down"}
  /\ resets = 0 /\ flaps = 0 /\ streak = 0 /\ rested = 0
-----------------------------------------------------------------------------
(* call(), up to its await. *)
TimedOut == openFor >= ResetTimeout
EntersHalfOpen == state = "open" /\ TimedOut
Rejected == \/ state = "open" /\ ~TimedOut
            \/ state = "half-open" /\ probing

(* A rejected call throws at once and changes nothing. *)
Reject(c) == flight[c] = "none" /\ Rejected /\ UNCHANGED vars

(* One that comes after the timeout meets a half-open circuit, where the      *)
(* flag may still be set.                                                     *)
Admit(c) ==
  /\ flight[c] = "none" /\ ~Rejected
  /\ state' = IF EntersHalfOpen THEN "half-open" ELSE state
  /\ IF state' = "half-open"
     THEN IF probing
          THEN UNCHANGED <<flight, probing>>
          ELSE flight' = [flight EXCEPT ![c] = "probe"] /\ probing' = TRUE
     ELSE flight' = [flight EXCEPT ![c] = "normal"] /\ UNCHANGED probing
  /\ UNCHANGED <<failures, openFor, upstream, resets, flaps, streak, rested>>

(* A call settles: _onSuccess, _onFailure, or neither for an error that      *)
(* isFailure does not count; and the finally block.                          *)
Lands(c) == flight[c] # "none" /\ flight' = [flight EXCEPT ![c] = "none"]

Succeeds_keepsCount(c) ==
  /\ upstream = "up" /\ Lands(c)
  /\ state' = "closed" /\ openFor' = Undefined /\ probing' = FALSE
  /\ streak' = 0
  /\ UNCHANGED <<failures, upstream, resets, flaps, rested>>
Succeeds(c) ==
  /\ upstream = "up" /\ Lands(c)
  /\ state' = "closed" /\ failures' = 0 /\ openFor' = Undefined /\ probing' = FALSE
  /\ streak' = 0
  /\ UNCHANGED <<upstream, resets, flaps, rested>>

Trips(n) == n >= Threshold

Fails_forgetsStamp(c) ==
  /\ upstream = "down" /\ Lands(c)
  /\ probing' = FALSE
  /\ streak' = IF streak < MaxFailures THEN streak + 1 ELSE streak
  /\ IF state = "half-open"
     THEN state' = "open" /\ UNCHANGED <<failures, openFor>>
     ELSE /\ failures' = IF failures < MaxFailures THEN failures + 1 ELSE failures
          /\ IF Trips(failures + 1)
             THEN state' = "open" /\ openFor' = 0
             ELSE UNCHANGED <<state, openFor>>
  /\ rested' = IF state' = "open" THEN 0 ELSE rested
  /\ UNCHANGED <<upstream, resets, flaps>>
Fails(c) ==
  /\ upstream = "down" /\ Lands(c)
  /\ probing' = FALSE
  /\ streak' = IF streak < MaxFailures THEN streak + 1 ELSE streak
  /\ IF state = "half-open"
     THEN state' = "open" /\ openFor' = 0 /\ UNCHANGED failures
     ELSE /\ failures' = IF failures < MaxFailures THEN failures + 1 ELSE failures
          /\ IF Trips(failures + 1)
             THEN state' = "open" /\ openFor' = 0
             ELSE UNCHANGED <<state, openFor>>
  /\ rested' = IF state' = "open" THEN 0 ELSE rested
  /\ UNCHANGED <<upstream, resets, flaps>>

(* A 4xx, say, which a healthy upstream answers too.  The mutant has the      *)
(* finally block as it was before: released outside half-open only.           *)
Uncounted_conditional(c) ==
  /\ Lands(c)
  /\ probing' = IF state # "half-open" THEN FALSE ELSE probing
  /\ UNCHANGED <<state, failures, openFor, upstream, resets, flaps, streak, rested>>
Uncounted(c) ==
  /\ Lands(c)
  /\ probing' = FALSE
  /\ UNCHANGED <<state, failures, openFor, upstream, resets, flaps, streak, rested>>

Reset ==
  /\ resets < MaxResets /\ resets' = resets + 1
  /\ state' = "closed" /\ failures' = 0 /\ openFor' = Undefined /\ probing' = FALSE
  /\ streak' = 0
  /\ UNCHANGED <<flight, upstream, flaps, rested>>

Tick ==
  /\ openFor # Undefined /\ openFor < ResetTimeout
  /\ openFor' = openFor + 1
  /\ rested' = IF rested < ResetTimeout THEN rested + 1 ELSE rested
  /\ UNCHANGED <<state, failures, probing, flight, upstream, resets, flaps, streak>>

Flap ==
  /\ flaps < Flaps /\ flaps' = flaps + 1
  /\ upstream' = IF upstream = "up" THEN "down" ELSE "up"
  /\ UNCHANGED <<breakerVars, flight, resets, streak, rested>>

Settle(c) == Succeeds(c) \/ Fails(c) \/ Uncounted(c)

Next ==
  \/ \E c \in Caller : Reject(c) \/ Admit(c) \/ Settle(c)
  \/ Reset \/ Tick \/ Flap

Spec == Init /\ [][Next]_vars

(* Clients keep calling, every call settles, time passes; and an upstream     *)
(* that is up does not answer all of them with an error of the caller's own.  *)
Fairness ==
  /\ \A c \in Caller : WF_vars(Admit(c)) /\ WF_vars(Settle(c)) /\ SF_vars(Succeeds(c))
  /\ WF_vars(Tick)

FairSpec == Spec /\ Fairness
-----------------------------------------------------------------------------
(* The finally block's comment: a breaker must not reject calls for ever      *)
(* because a probe that nobody runs any more left the flag set.               *)
FlagMeansFlight == probing => \E c \in Caller : flight[c] # "none"

(* However a circuit came to be open, for the first time, by a failed probe   *)
(* or by a late failure, it admits no call for a whole ResetTimeout, unless    *)
(* reset() or the late success of a request let in before closes it again.    *)
OpenRests ==
  [][state = "open" /\ state' # "open" =>
       \/ state' = "half-open" /\ rested >= ResetTimeout
       \/ state' = "closed" /\ (Reset \/ \E c \in Caller : Succeeds(c))]_vars

(* The circuit leaves "closed" only after Threshold consecutive failures, and *)
(* stays closed only below them.                                              *)
TripsAtThreshold == state = "closed" <=> streak < Threshold

(* call's finally block: calls are not rejected for ever, whatever requests   *)
(* settled in between and in whatever order; and once the upstream is up for  *)
(* good the circuit closes for good.                                          *)
Recovers ==
  /\ []<>~Rejected
  /\ <>[](upstream = "up") => <>[](state = "closed")
=============================================================================
