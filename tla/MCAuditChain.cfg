\* Three events of two writers in two chains, with two faults, over each of
\* the four stores.
SPECIFICATION Spec
CONSTANTS
    NoChain = NoChain
    Writers = {w1, w2}
    Chains = {run1, run2}
    Frail = {2}
    MaxEvents = 3
    MaxFaults = 2
SYMMETRY WriterChainSymmetry
INVARIANTS
    IntactVerifies
    AcknowledgedVerified
    HarmEvident
PROPERTY TrailSpec
CHECK_DEADLOCK FALSE
