\* Two brokers over one repository decide the same request.
SPECIFICATION Spec
CONSTANTS
    c1 = c1
    c2 = c2
    c3 = c3
    pay = pay
    ship = ship
    NoGrant = NoGrant
    NoOffer = NoOffer
    Brokers = {b1, b2}
    Checkpoints = {c1, c2}
    Actions = {pay}
    ActionOf <- SameAction
    People = {ann, bob}
    Approvers = {ann, bob}
    Requester = bob
    CheckpointTTL = 1
    GrantTTLs = {1}
    Consumable = FALSE
    Horizon = 2
    MaxFaults = 0
SYMMETRY BrokerSymmetry
INVARIANT DecidedOnce
