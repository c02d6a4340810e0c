------------------------- MODULE ResilienceProofs --------------------------
(* The mechanisms of runtime/resilience.py: idempotent execution, for any   *)
(* calls, requests and time to live, and the circuit breaker, for any       *)
(* callers and thresholds.                                                  *)
EXTENDS Idempotency, CircuitBreaker, TLAPS

-----------------------------------------------------------------------------
(* Idempotent execution *)

\* A call in progress still has the record its begin inserted.
HoldsRecord ==
    \A c \in Calls : InProgress(c) => status = "pending" /\ left > 0 /\ digest = DigestOf[c]

\* A settled record holds the outcome of a call with the record's digest.
ProducerMatches == producer # NoCall => DigestOf[producer] = digest

\* What timely handlers keep true.
TimelyInv ==
    TypeOK /\ ~late /\ SingleFlight /\ HoldsRecord /\ ProducerMatches /\ TimelyReplay /\ NoRecordLost

\* The inductive invariant: all of it, until a handler is late.
Inv == TypeOK /\ (~late => TimelyInv)

(* The types are preserved whatever the handlers' timing.                   *)
LEMMA NextType == TypeOK /\ [Next]_vars => TypeOK'
<1>1. SUFFICES ASSUME TypeOK, [Next]_vars PROVE TypeOK'
  OBVIOUS
<1>2. ASSUME NEW c \in Calls, BeginStarted(c) PROVE TypeOK'
  <2>1. left' \in 0..(TTL + 1)
    BY <1>2, IdempotencyAssumption DEF BeginStarted
  <2>2. DigestOf[c] \in Digests
    BY IdempotencyAssumption
  <2>3. call' \in [Calls -> CallStates]
    BY <1>1, <1>2 DEF TypeOK, BeginStarted, CallStates
  <2>4. status' = "pending" /\ digest' = DigestOf[c] /\ producer' = NoCall /\ answer' = answer
       /\ late' = late
    BY <1>2 DEF BeginStarted
  <2>5. QED
    BY <1>1, <2>1, <2>2, <2>3, <2>4 DEF TypeOK
<1>3. ASSUME NEW c \in Calls, BeginAnswered(c) PROVE TypeOK'
  BY <1>1, <1>3 DEF TypeOK, BeginAnswered, CallStates
<1>4. ASSUME NEW c \in Calls, HandlerEnds(c) \/ Cancelled(c) \/ RecordLost(c) PROVE TypeOK'
  BY <1>1, <1>4 DEF TypeOK, HandlerEnds, Cancelled, RecordLost, CallStates
<1>5. ASSUME NEW c \in Calls, Complete(c) \/ Fail(c) PROVE TypeOK'
  BY <1>1, <1>5, IdempotencyAssumption DEF TypeOK, Complete, Fail, CallStates
<1>6. CASE Tick
  BY <1>1, <1>6, IdempotencyAssumption DEF TypeOK, Tick, InProgress
<1>7. CASE Purge
  BY <1>1, <1>7 DEF TypeOK, Purge
<1>8. CASE UNCHANGED vars
  BY <1>1, <1>8 DEF TypeOK, vars
<1>9. QED
  BY <1>1, <1>2, <1>3, <1>4, <1>5, <1>6, <1>7, <1>8 DEF Next, Step

(* begin starts a call only when no other call is in progress: each of them *)
(* has a record in force.                                                   *)
LEMMA BeginStartedInv ==
  ASSUME NEW c \in Calls, TimelyInv, TypeOK', ~late', BeginStarted(c)
  PROVE  TimelyInv'
<1>1. \A d \in Calls : ~InProgress(d)
  BY DEF TimelyInv, HoldsRecord, BeginStarted, Live
<1>2. \A d \in Calls : d # c => call'[d] = call[d]
  BY DEF BeginStarted, TimelyInv, TypeOK
<1>3. call'[c] = "running" /\ answer' = answer
  BY DEF BeginStarted, TimelyInv, TypeOK
<1>4. \A d \in Calls : InProgress(d)' => d = c
  BY <1>1, <1>2 DEF InProgress
<1>5. SingleFlight'
  BY <1>4 DEF SingleFlight
<1>6. HoldsRecord'
  BY <1>4, IdempotencyAssumption DEF HoldsRecord, BeginStarted
<1>7. ProducerMatches'
  BY DEF ProducerMatches, BeginStarted
<1>8. TimelyReplay' /\ NoRecordLost'
  BY <1>2, <1>3 DEF TimelyReplay, ReplayMatchesRequest, NoRecordLost, TimelyInv
<1>9. QED
  BY <1>5, <1>6, <1>7, <1>8 DEF TimelyInv

(* A replayed response is the one of the record whose digest was compared.  *)
LEMMA BeginAnsweredInv ==
  ASSUME NEW c \in Calls, TimelyInv, TypeOK', ~late', BeginAnswered(c)
  PROVE  TimelyInv'
<1>1. /\ \A d \in Calls : d # c => call'[d] = call[d] /\ answer'[d] = answer[d]
      /\ call'[c] \in {"conflict", "replayed", "refused"}
  BY DEF BeginAnswered, TimelyInv, TypeOK
<1>2. \A d \in Calls : InProgress(d)' => InProgress(d)
  BY <1>1 DEF InProgress
<1>3. SingleFlight' /\ HoldsRecord' /\ ProducerMatches'
  BY <1>2 DEF SingleFlight, HoldsRecord, ProducerMatches, BeginAnswered, TimelyInv
<1>4. call'[c] = "replayed" => answer'[c] \in Calls /\ DigestOf[answer'[c]] = DigestOf[c]
  BY DEF BeginAnswered, TimelyInv, TypeOK, ProducerMatches, Conflicts
<1>5. TimelyReplay' /\ NoRecordLost'
  BY <1>1, <1>4 DEF TimelyReplay, ReplayMatchesRequest, NoRecordLost, TimelyInv
<1>6. QED
  BY <1>3, <1>5 DEF TimelyInv

(* The end of a handler changes nothing but the call.                       *)
LEMMA HandlerInv ==
  ASSUME NEW c \in Calls, TimelyInv, TypeOK', ~late', HandlerEnds(c) \/ Cancelled(c)
  PROVE  TimelyInv'
<1>1. /\ \A d \in Calls : d # c => call'[d] = call[d]
      /\ call'[c] \in {"returned", "raised", "cancelled"}
      /\ InProgress(c)
      /\ UNCHANGED <<status, digest, left, producer, answer>>
  BY DEF HandlerEnds, Cancelled, InProgress, TimelyInv, TypeOK
<1>2. \A d \in Calls : InProgress(d)' => InProgress(d)
  BY <1>1 DEF InProgress
<1>3. SingleFlight' /\ HoldsRecord' /\ ProducerMatches'
  BY <1>1, <1>2 DEF SingleFlight, HoldsRecord, ProducerMatches, TimelyInv
<1>4. TimelyReplay' /\ NoRecordLost'
  BY <1>1 DEF TimelyReplay, ReplayMatchesRequest, NoRecordLost, TimelyInv
<1>5. QED
  BY <1>3, <1>4 DEF TimelyInv

(* complete and fail settle the call's own record; nobody else is running.  *)
LEMMA SettleInv ==
  ASSUME NEW c \in Calls, TimelyInv, TypeOK', ~late', Complete(c) \/ Fail(c)
  PROVE  TimelyInv'
<1>1. /\ \A d \in Calls : d # c => call'[d] = call[d] /\ answer'[d] = answer[d]
      /\ call'[c] \in {"done", "failed"}
      /\ InProgress(c)
      /\ producer' = c /\ digest' = digest
  BY DEF Complete, Fail, InProgress, TimelyInv, TypeOK
<1>2. \A d \in Calls : ~InProgress(d)'
  BY <1>1 DEF InProgress, SingleFlight, TimelyInv
<1>3. SingleFlight' /\ HoldsRecord'
  BY <1>2 DEF SingleFlight, HoldsRecord
<1>4. ProducerMatches'
  BY <1>1 DEF ProducerMatches, HoldsRecord, TimelyInv
<1>5. TimelyReplay' /\ NoRecordLost'
  BY <1>1 DEF TimelyReplay, ReplayMatchesRequest, NoRecordLost, TimelyInv
<1>6. QED
  BY <1>3, <1>4, <1>5 DEF TimelyInv

(* A record that has expired belongs to no call in progress.                *)
LEMMA PurgeInv ==
  ASSUME TimelyInv, TypeOK', Purge, ~late'
  PROVE  TimelyInv'
<1>1. UNCHANGED <<call, answer>> /\ producer' = NoCall /\ status' = "absent" /\ left = 0
  BY DEF Purge
<1>2. \A c \in Calls : ~InProgress(c)
  BY <1>1 DEF HoldsRecord, TimelyInv
<1>3. SingleFlight' /\ HoldsRecord'
  BY <1>1, <1>2 DEF SingleFlight, HoldsRecord, InProgress
<1>4. ProducerMatches' /\ TimelyReplay' /\ NoRecordLost'
  BY <1>1, IdempotencyAssumption
     DEF ProducerMatches, TimelyReplay, ReplayMatchesRequest, NoRecordLost, TimelyInv
<1>5. QED
  BY <1>3, <1>4 DEF TimelyInv

(* The clock does not overtake a call in progress.                          *)
LEMMA TimelyTickInv ==
  ASSUME TimelyInv, TypeOK', Tick, ~late'
  PROVE  TimelyInv'
<1>1. /\ UNCHANGED <<status, digest, producer, call, answer>>
      /\ left' = left - 1
      /\ left \in Nat /\ left > 0
  BY DEF Tick, TimelyInv, TypeOK
<1>2. \A c \in Calls : InProgress(c) => left > 1
  <2>1. ~(left = 1 /\ \E c \in Calls : InProgress(c))
    BY Zenon DEF Tick
  <2>2. QED
    BY <1>1, <2>1
<1>3. SingleFlight' /\ ProducerMatches' /\ TimelyReplay' /\ NoRecordLost'
  BY <1>1 DEF SingleFlight, InProgress, ProducerMatches, TimelyReplay, ReplayMatchesRequest,
              NoRecordLost, TimelyInv
<1>4. HoldsRecord'
  BY <1>1, <1>2 DEF HoldsRecord, InProgress, TimelyInv
<1>5. QED
  BY <1>3, <1>4 DEF TimelyInv

(* Every step preserves the inductive invariant.  Once a handler is late it *)
(* stays late, so the timely part is needed before the step too.            *)
LEMMA NextInv == Inv /\ [Next]_vars => Inv'
<1>1. SUFFICES ASSUME Inv, [Next]_vars, ~late' PROVE TypeOK' /\ TimelyInv'
  BY NextType DEF Inv
<1>2. TypeOK'
  BY <1>1, NextType DEF Inv
<1>3. late' = late \/ Tick
  BY <1>1 DEF Next, Step, BeginStarted, BeginAnswered, HandlerEnds, Cancelled, Complete, Fail,
              RecordLost, Purge, vars
<1>4. TimelyInv
  <2>1. late => late'
    BY <1>3 DEF Tick
  <2>2. QED
    BY <1>1, <2>1 DEF Inv
<1>5. ASSUME NEW c \in Calls, RecordLost(c) PROVE FALSE
  BY <1>4, <1>5 DEF RecordLost, Found, TimelyInv, HoldsRecord, InProgress
<1>6. ASSUME NEW c \in Calls,
             BeginStarted(c) \/ BeginAnswered(c) \/ HandlerEnds(c) \/ Cancelled(c)
             \/ Complete(c) \/ Fail(c)
      PROVE  TimelyInv'
  BY <1>1, <1>2, <1>4, <1>6, BeginStartedInv, BeginAnsweredInv, HandlerInv, SettleInv
<1>7. CASE Tick \/ Purge
  BY <1>1, <1>2, <1>4, <1>7, TimelyTickInv, PurgeInv
<1>8. CASE UNCHANGED vars
  <2>1. SingleFlight' /\ HoldsRecord' /\ ProducerMatches' /\ TimelyReplay' /\ NoRecordLost'
    BY <1>4, <1>8 DEF TimelyInv, SingleFlight, HoldsRecord, InProgress, ProducerMatches,
                      TimelyReplay, ReplayMatchesRequest, NoRecordLost, vars
  <2>2. QED
    BY <1>1, <1>2, <2>1 DEF TimelyInv
<1>9. QED
  BY <1>1, <1>2, <1>5, <1>6, <1>7, <1>8 DEF Next, Step

(* The inductive invariant holds initially. *)
LEMMA InitInv == Init => Inv
<1>1. SUFFICES ASSUME Init PROVE Inv
  OBVIOUS
<1>2. TypeOK
  <2>1. late \in BOOLEAN
    BY <1>1, Zenon DEF Init
  <2>2. QED
    BY <1>1, <2>1, IdempotencyAssumption DEF Init, TypeOK, CallStates
<1>3. SingleFlight /\ HoldsRecord /\ ProducerMatches /\ TimelyReplay /\ NoRecordLost
  BY <1>1 DEF Init, SingleFlight, HoldsRecord, InProgress, ProducerMatches, TimelyReplay,
              ReplayMatchesRequest, NoRecordLost
<1>4. QED
  BY <1>1, <1>2, <1>3 DEF Init, Inv, TimelyInv

(* The types hold whatever the timing of the handlers. *)
THEOREM TypeCorrect == Spec => []TypeOK
<1>1. Inv => TypeOK
  BY DEF Inv
<1>2. QED
  BY <1>1, InitInv, NextInv, PTL DEF Spec

(* As long as handlers end within ttl_seconds, then for any number of calls *)
(* of a key at most one handler runs at a time, a replay answers an         *)
(* identical request, and no call whose handler ran loses its record.       *)
THEOREM TimelySafe == Spec => [](SingleFlight /\ TimelyReplay /\ NoRecordLost)
<1>1. Inv => SingleFlight /\ TimelyReplay /\ NoRecordLost
  BY DEF Inv, TimelyInv, SingleFlight, TimelyReplay, NoRecordLost
<1>2. QED
  BY <1>1, InitInv, NextInv, PTL DEF Spec

(* A timely replay answers an identical request.                            *)
THEOREM TimelyAnswers == Spec => []TimelyReplay
  BY TimelySafe, PTL

(* With timely handlers nobody is told that the record is gone.             *)
THEOREM TimelyRecords == Spec => []NoRecordLost
  BY TimelySafe, PTL

(* Whatever the timing, a completed record in force is not replaced.        *)
THEOREM CompletedStays == Spec => CompletedIsFinal
<1>1. ASSUME TypeOK, [Next]_vars, status = "completed", left > 0
      PROVE  status' = "completed" /\ producer' = producer
  <2>1. ~Purge /\ \A c \in Calls : ~BeginStarted(c) /\ ~Complete(c) /\ ~Fail(c)
    BY <1>1 DEF Purge, BeginStarted, Live, Complete, Fail, Found
  <2>2. QED
    BY <1>1, <2>1 DEF Next, Step, BeginAnswered, HandlerEnds, Cancelled, RecordLost, Tick, vars
<1>2. TypeOK /\ [Next]_vars =>
        [status = "completed" /\ left > 0 => status' = "completed" /\ producer' = producer]_vars
  BY <1>1
<1>3. QED
  BY <1>2, TypeCorrect, PTL DEF Spec, CompletedIsFinal

-----------------------------------------------------------------------------
(* The circuit breaker *)

\* While the circuit is closed, the counter is the true failure streak.
CountsStreak == state = "closed" => failures = streak

BreakerInv == BreakerTypeOK /\ ProbeFlagHeld /\ CountsStreak

(* The initial state satisfies the inductive invariant. *)
LEMMA BreakerInitInv == BreakerInit => BreakerInv
<1>1. SUFFICES ASSUME BreakerInit PROVE BreakerInv
  OBVIOUS
<1>2. /\ failures \in 0..FailureThreshold
      /\ successes \in 0..(SuccessThreshold - 1)
      /\ age \in 0..RecoveryTimeout
      /\ streak \in 0..FailureThreshold
  BY <1>1, ThresholdAssumption DEF BreakerInit
<1>3. probe \in BOOLEAN /\ healthy \in BOOLEAN
  BY <1>1, Zenon DEF BreakerInit
<1>4. state \in States /\ inFlight \in [Callers -> {"idle", "closed", "half_open"}]
  BY <1>1 DEF BreakerInit, States
<1>5. QED
  BY <1>1, <1>2, <1>3, <1>4, Zenon DEF BreakerInit, BreakerInv, BreakerTypeOK,
    ProbeFlagHeld, CountsStreak

(* Reading the property `state' preserves it: no probe flag survives the    *)
(* turn to half-open.                                                       *)
LEMMA ReadStateInv == BreakerInv /\ ReadState => BreakerInv'
  BY DEF BreakerInv, BreakerTypeOK, ProbeFlagHeld, CountsStreak, States,
    ReadState, Elapsed, CurrentState, CurrentProbe

(* before_call preserves it: whoever sets the flag is itself a probe.       *)
LEMMA BeforeCallInv ==
  ASSUME NEW c \in Callers, BreakerInv, BeforeCall(c)
  PROVE  BreakerInv'
<1>1. CurrentState \in {"closed", "half_open"}
  BY DEF BreakerInv, BreakerTypeOK, States, BeforeCall,
    CurrentState, Elapsed
<1>2. BreakerTypeOK'
  BY <1>1 DEF BreakerInv, BreakerTypeOK, States, BeforeCall
<1>3. ProbeFlagHeld'
  <2>1. SUFFICES ASSUME probe' PROVE state' = "half_open" /\ Probes' # {}
    BY DEF ProbeFlagHeld
  <2>2. CurrentState = "half_open" /\ state' = "half_open"
    BY <2>1 DEF BeforeCall
  <2>3. inFlight'[c] = "half_open"
    BY <2>2 DEF BeforeCall, BreakerInv, BreakerTypeOK
  <2>4. c \in Probes'
    BY <2>3 DEF Probes
  <2>5. QED
    BY <2>2, <2>4
<1>4. CountsStreak'
  BY DEF BreakerInv, BreakerTypeOK, CountsStreak, BeforeCall,
    CurrentState, Elapsed, States
<1>5. QED
  BY <1>2, <1>3, <1>4 DEF BreakerInv

(* record_success preserves it, for late results too.                       *)
LEMMA RecordSuccessInv ==
  ASSUME NEW c \in Callers, BreakerInv, RecordSuccess(c)
  PROVE  BreakerInv'
<1>1. CASE state = "half_open"
  <2>0. /\ failures' \in 0..FailureThreshold
        /\ successes' \in 0..(SuccessThreshold - 1)
        /\ age' \in 0..RecoveryTimeout
        /\ streak' \in 0..FailureThreshold
        /\ state' \in States
        /\ inFlight' \in [Callers -> {"idle", "closed", "half_open"}]
    BY <1>1, ThresholdAssumption
    DEF BreakerInv, BreakerTypeOK, States, RecordSuccess,
      HalfOpenSuccess, EnoughSuccesses
  <2>1. BreakerTypeOK'
    BY <1>1, <2>0, Zenon DEF BreakerInv, BreakerTypeOK, RecordSuccess,
      HalfOpenSuccess
  <2>2. ProbeFlagHeld'
    BY <1>1 DEF RecordSuccess, HalfOpenSuccess, ProbeFlagHeld
  <2>3. CountsStreak'
    BY <1>1 DEF RecordSuccess, HalfOpenSuccess, CountsStreak
  <2>4. QED
    BY <2>1, <2>2, <2>3 DEF BreakerInv
<1>2. CASE state # "half_open"
  <2>1. BreakerTypeOK'
    BY <1>2, ThresholdAssumption DEF BreakerInv, BreakerTypeOK, States, RecordSuccess,
      OtherSuccess
  <2>2. ~probe /\ probe' = probe
    BY <1>2 DEF BreakerInv, BreakerTypeOK, ProbeFlagHeld, RecordSuccess,
      OtherSuccess
  <2>3. ProbeFlagHeld'
    BY <2>2 DEF ProbeFlagHeld
  <2>4. CountsStreak'
    BY <1>2 DEF RecordSuccess, OtherSuccess, CountsStreak
  <2>5. QED
    BY <2>1, <2>3, <2>4 DEF BreakerInv
<1>3. QED
  BY <1>1, <1>2

(* record_failure preserves it.                                             *)
LEMMA RecordFailureInv ==
  ASSUME NEW c \in Callers, BreakerInv, RecordFailure(c)
  PROVE  BreakerInv'
<1>0. /\ failures' \in 0..FailureThreshold
      /\ successes' \in 0..(SuccessThreshold - 1)
      /\ age' \in 0..RecoveryTimeout
      /\ streak' \in 0..FailureThreshold
      /\ state' \in States
      /\ inFlight' \in [Callers -> {"idle", "closed", "half_open"}]
  BY ThresholdAssumption DEF BreakerInv, BreakerTypeOK, States, RecordFailure, Bump
<1>1. BreakerTypeOK'
  BY <1>0, Zenon DEF BreakerInv, BreakerTypeOK, RecordFailure
<1>2. ProbeFlagHeld'
  BY DEF RecordFailure, ProbeFlagHeld
<1>3. CountsStreak'
  BY DEF BreakerInv, BreakerTypeOK, States, RecordFailure, CountsStreak,
    Bump
<1>4. QED
  BY <1>1, <1>2, <1>3 DEF BreakerInv

(* Every step preserves the inductive invariant. *)
LEMMA BreakerNextInv == BreakerInv /\ [BreakerNext]_breakerVars => BreakerInv'
<1>1. SUFFICES ASSUME BreakerInv, [BreakerNext]_breakerVars PROVE BreakerInv'
  OBVIOUS
<1>2. CASE ReadState
  BY <1>1, <1>2, ReadStateInv
<1>3. ASSUME NEW c \in Callers,
             BeforeCall(c) \/ RecordSuccess(c) \/ RecordFailure(c)
      PROVE  BreakerInv'
  BY <1>1, <1>3, BeforeCallInv, RecordSuccessInv, RecordFailureInv
<1>4. CASE BreakerTick
  BY <1>1, <1>4, ThresholdAssumption
  DEF BreakerInv, BreakerTypeOK, ProbeFlagHeld, CountsStreak, Probes,
    States, BreakerTick
<1>5. CASE Heal
  BY <1>1, <1>5 DEF BreakerInv, BreakerTypeOK, ProbeFlagHeld, CountsStreak,
    Probes, States, Heal
<1>6. CASE UNCHANGED breakerVars
  BY <1>1, <1>6 DEF BreakerInv, BreakerTypeOK, ProbeFlagHeld, CountsStreak,
    Probes, States, breakerVars
<1>7. QED
  BY <1>1, <1>2, <1>3, <1>4, <1>5, <1>6 DEF BreakerNext

(* The inductive invariant holds throughout every behaviour. *)
LEMMA BreakerSpecInv == BreakerSpec => []BreakerInv
  BY BreakerInitInv, BreakerNextInv, PTL DEF BreakerSpec

(* The types hold in every reachable state. *)
THEOREM BreakerTypeCorrect == BreakerSpec => []BreakerTypeOK
<1>1. BreakerInv => BreakerTypeOK
  BY DEF BreakerInv
<1>2. QED
  BY <1>1, BreakerSpecInv, PTL

(* For any callers and thresholds, the half-open flag that makes            *)
(* before_call refuse everybody always belongs to a running probe.          *)
THEOREM NeverWedged == BreakerSpec => []ProbeFlagHeld
<1>1. BreakerInv => ProbeFlagHeld
  BY DEF BreakerInv
<1>2. QED
  BY <1>1, BreakerSpecInv, PTL

(* A closed circuit opens only on failure_threshold failures in a row.      *)
THEOREM OpensOnStreak == BreakerSpec => OpensOnFailureStreak
<1>1. ASSUME BreakerInv, [BreakerNext]_breakerVars, state = "closed", state' = "open"
      PROVE  streak' >= FailureThreshold
  <2>1. ~UNCHANGED breakerVars /\ ~ReadState /\ ~BreakerTick /\ ~Heal
    BY <1>1 DEF breakerVars, ReadState, Elapsed, BreakerTick, Heal
  <2>2. PICK c \in Callers : BeforeCall(c) \/ RecordSuccess(c) \/ RecordFailure(c)
    BY <1>1, <2>1 DEF BreakerNext
  <2>3. RecordFailure(c)
    BY <1>1, <2>2 DEF BeforeCall, CurrentState, Elapsed,
      RecordSuccess, HalfOpenSuccess, OtherSuccess
  <2>4. failures = streak /\ failures + 1 >= FailureThreshold
    BY <1>1, <2>3 DEF BreakerInv, CountsStreak, RecordFailure
  <2>5. QED
    BY <1>1, <2>3, <2>4, ThresholdAssumption DEF BreakerInv, BreakerTypeOK, RecordFailure,
      Bump
<1>2. BreakerInv /\ [BreakerNext]_breakerVars =>
        [state = "closed" /\ state' = "open" => streak' >= FailureThreshold]_breakerVars
  BY <1>1
<1>3. QED
  BY <1>2, BreakerSpecInv, PTL DEF BreakerSpec, OpensOnFailureStreak
=============================================================================
