\* Two workers with their own ids over PostgreSQL; batches of two, leases of one tick, so that
\* a lease can run out in the middle of a batch.
SPECIFICATION Spec
CONSTANTS
    Backend = "postgres"
    w1 = w1
    w2 = w2
    siem = siem
    lake = lake
    NoOwner = NoOwner
    AnyDestination = AnyDestination
    Submissions <- MCSubmissions
    Destinations = {siem, lake}
    Handled = {siem}
    Workers = {w1, w2}
    WorkerId <- OwnIds
    MaxDeliveryAttempts = 2
    RetryAttempts = 2
    LeaseSeconds = 1
    Delays = {0, 1}
    BatchLimit = 2
    MaxCrashes = 1
INVARIANTS
    TypeOK
    LeaseExclusive
    DeadLettersAgree
    AcceptedIsStored
    OnlyFailuresMoved
PROPERTIES
    LedgerSpec
