\* Four calls of two requests under one key; records live for two ticks and
\* a handler may outlive its record.
SPECIFICATION Spec
CONSTANTS
    k1 = k1
    k2 = k2
    k3 = k3
    k4 = k4
    pay = pay
    refund = refund
    NoCall = NoCall
    NoDigest = NoDigest
    Calls = {k1, k2, k3, k4}
    Digests = {pay, refund}
    DigestOf <- Paired
    TTL = 2
INVARIANTS
    SingleFlight
    TimelyReplay
    NoRecordLost
PROPERTY CompletedIsFinal
CHECK_DEADLOCK FALSE
