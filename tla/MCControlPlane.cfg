\* Two administrators and one agent of a production environment, fed from
\* staging; the service's signing key may be rotated.
SPECIFICATION Spec
CONSTANTS
    prod = prod
    staging = staging
    v1 = v1
    v2 = v2
    strict = strict
    lax = lax
    old = old
    new = new
    a1 = a1
    a2 = a2
    NoBundle = NoBundle
    NoVersion = NoVersion
    NoRollout = NoRollout
    NoRevision = NoRevision
    Admins = {a1, a2}
    Agents = {g1}
    Environments = {staging, prod}
    EnvOf <- MCEnvOf
    Managed = {prod}
    Versions = {v1, v2}
    Publications <- MCPublications
    Promotions <- MCPromotions
    Keys = {old, new}
    SignerSets = {{old, new}, {new}}
    AgentKey = old
    RequireSigned = TRUE
    AllowStale = FALSE
    MaxStale = 1
    RequestTicks = 1
    MaxUpdates = 2
    MaxRevision = 3
SYMMETRY AdminSymmetry
INVARIANT OnePolicyPerVersion
PROPERTIES
    NoLostActivation
    BoundedStaleness
