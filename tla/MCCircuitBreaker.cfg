\* Three callers, so that a call of an earlier state can still be in flight
\* while a probe runs and a third caller asks for admission.
SPECIFICATION FairSpec
CONSTANTS
    Callers = {c1, c2, c3}
    FailureThreshold = 2
    SuccessThreshold = 2
    RecoveryTimeout = 2
INVARIANTS
    ProbeFlagHeld
PROPERTIES
    OpensOnFailureStreak
    Recovers
