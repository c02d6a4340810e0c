\* One event with a handler and one without, under timely workers that share a worker_id,
\* over SQLite; a worker may crash once, and its leases then run out.
SPECIFICATION TimelySpec
CONSTANTS
    Backend = "sqlite"
    w1 = w1
    w2 = w2
    siem = siem
    lake = lake
    NoOwner = NoOwner
    AnyDestination = AnyDestination
    Submissions <- LiveSubmissions
    Destinations = {siem, lake}
    Handled = {siem}
    Workers = {w1, w2}
    WorkerId <- SharedId
    MaxDeliveryAttempts = 2
    RetryAttempts = 1
    LeaseSeconds = 1
    Delays = {1}
    BatchLimit = 2
    MaxCrashes = 1
PROPERTY Settles
