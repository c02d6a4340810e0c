--------------------------- MODULE CircuitBreaker ---------------------------
(***************************************************************************)
(* The thread-safe circuit breaker of runtime/resilience.py, shared by the *)
(* threads and tasks in Callers.  Every method takes the breaker's lock,   *)
(* so one method is one action; the protected function runs between        *)
(* before_call and record_success/record_failure, outside the lock.  Names *)
(* that Idempotency, the other module of this file, has too say Breaker.   *)
(***************************************************************************)
EXTENDS Naturals, FiniteSets

CONSTANTS
    Callers,            \* threads or tasks that call through the breaker
    FailureThreshold,   \* failure_threshold
    SuccessThreshold,   \* success_threshold
    RecoveryTimeout     \* recovery_timeout_seconds, in clock ticks

ASSUME CallersAssumption == IsFiniteSet(Callers)
ASSUME ThresholdAssumption ==
    /\ FailureThreshold \in Nat \ {0}
    /\ SuccessThreshold \in Nat \ {0}
    /\ RecoveryTimeout \in Nat \ {0}

VARIABLES
    state,      \* _state
    failures,   \* _failures, counted up to FailureThreshold (see Bump)
    successes,  \* _successes
    age,        \* clock() - _opened_at, counted up to RecoveryTimeout
    probe,      \* _probe_in_flight
    inFlight,   \* inFlight[c]: "idle", or the state in which c was admitted
    healthy,    \* external: the dependency has recovered for good
    streak      \* history: failures recorded since the last recorded success

breakerVars == <<state, failures, successes, age, probe, inFlight, healthy, streak>>

\* Both counters are only compared with a limit, so they saturate there.
Bump(n, limit) == IF n < limit THEN n + 1 ELSE n

BreakerInit ==
    /\ state = "closed"
    /\ failures = 0
    /\ successes = 0
    /\ age = 0
    /\ probe = FALSE
    /\ inFlight = [c \in Callers |-> "idle"]
    /\ healthy = FALSE
    /\ streak = 0

-----------------------------------------------------------------------------
\* The recovery timeout of an open circuit has passed.
Elapsed == state = "open" /\ age >= RecoveryTimeout

\* The value the property `state' returns, and stores: open turns half-open.
CurrentState == IF Elapsed THEN "half_open" ELSE state

\* What reading `state' leaves in _probe_in_flight.
CurrentProbe == IF Elapsed THEN FALSE ELSE probe

\* Somebody reads the property `state' outside a call.
ReadState ==
    /\ Elapsed
    /\ state' = CurrentState
    /\ probe' = CurrentProbe
    /\ UNCHANGED <<failures, successes, age, inFlight, healthy, streak>>

\* before_call lets c through.  When it raises CircuitOpenError instead,
\* nothing changes: the state it read was open or half-open already.
BeforeCall(c) ==
    /\ inFlight[c] = "idle"
    /\ CurrentState # "open"
    /\ CurrentState = "half_open" => ~CurrentProbe
    /\ state' = CurrentState
    /\ probe' = (CurrentState = "half_open")
    /\ inFlight' = [inFlight EXCEPT ![c] = CurrentState]
    /\ UNCHANGED <<failures, successes, age, healthy, streak>>

\* The successes so far suffice to close a half-open circuit.
EnoughSuccesses(n) == n >= SuccessThreshold

\* record_success while half-open; the mutant forgets _probe_in_flight.
HalfOpenSuccessKeepsProbe ==
    /\ UNCHANGED probe
    /\ IF EnoughSuccesses(successes + 1)
       THEN state' = "closed" /\ failures' = 0 /\ successes' = 0
       ELSE successes' = successes + 1 /\ UNCHANGED <<state, failures>>
HalfOpenSuccess ==
    /\ probe' = FALSE
    /\ IF EnoughSuccesses(successes + 1)
       THEN state' = "closed" /\ failures' = 0 /\ successes' = 0
       ELSE successes' = successes + 1 /\ UNCHANGED <<state, failures>>

\* record_success in the other states; the mutant keeps _failures.
OtherSuccessKeepsFailures == UNCHANGED <<state, failures, successes, probe>>
OtherSuccess == failures' = 0 /\ UNCHANGED <<state, successes, probe>>

\* c's function returned: record_success.
RecordSuccess(c) ==
    /\ inFlight[c] # "idle"
    /\ inFlight' = [inFlight EXCEPT ![c] = "idle"]
    /\ IF state = "half_open" THEN HalfOpenSuccess ELSE OtherSuccess
    /\ streak' = 0
    /\ UNCHANGED <<age, healthy>>

\* c's function raised or was cancelled: record_failure.
RecordFailure(c) ==
    /\ inFlight[c] # "idle"
    /\ ~healthy
    /\ inFlight' = [inFlight EXCEPT ![c] = "idle"]
    /\ probe' = FALSE
    /\ successes' = 0
    /\ failures' = Bump(failures, FailureThreshold)
    /\ IF state = "half_open" \/ failures + 1 >= FailureThreshold
       THEN state' = "open" /\ age' = 0
       ELSE UNCHANGED <<state, age>>
    /\ streak' = Bump(streak, FailureThreshold)
    /\ UNCHANGED healthy

\* External: the clock advances.
BreakerTick ==
    /\ age < RecoveryTimeout
    /\ age' = age + 1
    /\ UNCHANGED <<state, failures, successes, probe, inFlight, healthy, streak>>

\* External: from now on every protected call succeeds.
Heal ==
    /\ ~healthy
    /\ healthy' = TRUE
    /\ UNCHANGED <<state, failures, successes, age, probe, inFlight, streak>>

BreakerNext ==
    \/ ReadState
    \/ \E c \in Callers : BeforeCall(c) \/ RecordSuccess(c) \/ RecordFailure(c)
    \/ BreakerTick
    \/ Heal

BreakerSpec == BreakerInit /\ [][BreakerNext]_breakerVars

\* Callers keep calling, a protected function always ends, time passes.
Fairness ==
    /\ WF_breakerVars(BreakerTick)
    /\ \A c \in Callers :
        /\ WF_breakerVars(BeforeCall(c))
        /\ WF_breakerVars(RecordSuccess(c) \/ RecordFailure(c))

FairSpec == BreakerSpec /\ Fairness

-----------------------------------------------------------------------------
States == {"closed", "open", "half_open"}

\* The callers now running as half-open probes.
Probes == {c \in Callers : inFlight[c] = "half_open"}

(* Type invariant. *)
BreakerTypeOK ==
    /\ state \in States
    /\ failures \in 0..FailureThreshold
    /\ successes \in 0..(SuccessThreshold - 1)
    /\ age \in 0..RecoveryTimeout
    /\ probe \in BOOLEAN
    /\ inFlight \in [Callers -> {"idle", "closed", "half_open"}]
    /\ healthy \in BOOLEAN
    /\ streak \in 0..FailureThreshold

(* The breaker never wedges: a set _probe_in_flight flag, which makes      *)
(* before_call refuse everybody, always belongs to a probe that is still   *)
(* running, and only in the half-open state.  Late results of calls        *)
(* admitted in an earlier state do not leave it set.                       *)
ProbeFlagHeld == probe => state = "half_open" /\ Probes # {}

(* A closed circuit opens only when the last FailureThreshold recorded     *)
(* outcomes, of whichever calls, were all failures: a success recorded in  *)
(* between, a late one too, starts the count again.                        *)
OpensOnFailureStreak ==
    [][state = "closed" /\ state' = "open" => streak' >= FailureThreshold]_breakerVars

(* Once the dependency has recovered and callers keep calling, the circuit *)
(* ends up closed for good, however many calls of earlier states are still *)
(* in flight.                                                              *)
Recovers == healthy ~> [](state = "closed")
=============================================================================
