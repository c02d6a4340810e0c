\* One user, two groups of which list_groups shows one, one role and its binding; two
\* administrators and one request, over the PostgreSQL store.
SPECIFICATION Spec
CONSTANTS
    ops = ops
    owner = owner
    prod = prod
    AnyEnv = AnyEnv
    None = None
    Users = {ann}
    Groups = {g1, g2}
    Names = {ops, dev}
    Roles = {owner}
    Perms = {write}
    NameRank <- OpsFirst
    PageLimit = 1
    Covers <- CoversAll
    Bindings = {b1}
    BindingOf <- Bound
    Mapped <- NoMapping
    Actions = {deploy}
    Environments = {prod}
    Backend = "postgres"
    Admins = {a1, a2}
    Requests = {q}
    MaxChanges = 2
SYMMETRY IdentitySymmetry
INVARIANTS
    TypeOK
    PrincipalJustified
    RevocationEffective
    CalmDecisionExact
PROPERTY NoLostUpdate
