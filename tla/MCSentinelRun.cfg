\* run() and arun(): two calls of a tool that costs one and needs approval.
SPECIFICATION Spec
CONSTANTS
    pay = pay
    None = None
    Calls = {c1, c2}
    Tools = {pay}
    Cost <- Prices
    Allowed = {pay}
    Protected = {pay}
    Authorizer <- Asking
    MaxSteps = 2
    MaxCalls = 2
    MaxCost = 2
    Modes = {"run", "arun"}
    Timed = TRUE
    Strict = TRUE
    Closed = TRUE
    MaxFaults = 1
INVARIANTS
    BudgetKept
    ExecutionAudited
    EveryStartEnds
    ResultMatchesLog
SYMMETRY CallSymmetry
