\* Two users, at most two opportunities in two currencies, one value and one cost.
SPECIFICATION Spec
CONSTANTS
    o1 = o1
    o2 = o2
    o3 = o3
    crm = crm
    usd = usd
    eur = eur
    None = None
    Users = {u1, u2}
    Opps = {o1, o2, o3}
    SourceOf <- OneSource
    AgentOf <- OneAgent
    CurrencyOf <- TwoCurrencies
    Agents = {crm}
    Currencies = {usd, eur}
    Default = usd
    Evidence = {e1}
    Bills = {b1}
    Page = 2
    InputStages = {"forecast", "realized"}
    MaxRevision <- OneDevelops
SYMMETRY UserSymmetry
INVARIANTS
    HistoryIsPath
    RealizedWasBegun
    SummaryComplete
    ValueWithItsCosts
PROPERTY NoLostTransition
