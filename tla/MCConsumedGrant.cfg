\* One broker over PostgreSQL, whose grants an integration consumes.
SPECIFICATION Spec
CONSTANTS
    c1 = c1
    c2 = c2
    c3 = c3
    pay = pay
    ship = ship
    NoGrant = NoGrant
    NoOffer = NoOffer
    Brokers = {b1}
    Checkpoints = {c1, c2}
    Actions = {pay}
    ActionOf <- SameAction
    People = {ann, bob}
    Approvers = {ann, bob}
    Requester = bob
    CheckpointTTL = 1
    GrantTTLs = {1}
    Consumable = TRUE
    Horizon = 2
    MaxFaults = 0
INVARIANT ConsumedIsSpent
