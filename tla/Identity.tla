------------------------------- MODULE Identity -------------------------------
(***************************************************************************)
(* The identity store of enterprise/identity.py and enterprise/postgres.py *)
(* for one organization: SCIM users and groups, RBAC roles and bindings,   *)
(* administrators who change them through the API, and requests that build *)
(* a principal (principal_for) and decide on an action with the            *)
(* DynamicRBACAuthorizer.  Every statement is a transaction of its own:    *)
(* replace_user, create_group and replace_group read before they write,    *)
(* and principal_for and authorizer() read in several statements while     *)
(* administrators go on.                                                   *)
(***************************************************************************)
EXTENDS Naturals, FiniteSets

CONSTANTS
    Users, Groups,   \* ids
    Names,           \* displayNames of groups, which bindings refer to
    NameRank,        \* NameRank[n]: where n comes in their order
    Roles, Perms,
    Covers,          \* Covers[p]: the actions that match permission entry p
    Bindings,        \* bindings that administrators make, told apart by
    BindingOf,       \*   BindingOf[b]: role, subject, group, environment
    Mapped,          \* role_mapping of principal_for
    Actions, Environments,
    AnyEnv,          \* the environment "*"
    Backend,         \* the store: "sqlite" or "postgres"
    PageLimit,       \* rows PostgreSQL lists at most: 500
    Admins, Requests,
    MaxChanges,      \* bound: statements of administrators
    None

UserRows == [active : BOOLEAN, revision : Nat]
GroupRows == [name : Names, members : SUBSET Users]
GroupNames == [group : Groups, name : Names]
Targets ==
    [role : Roles, subject : Users \cup {None}, group : Names \cup {None},
     environment : Environments \cup {AnyEnv}]

ASSUME IdentityAssumption ==
    /\ Covers \in [Perms -> SUBSET Actions]
    /\ BindingOf \in [Bindings -> Targets]
    /\ \A b \in Bindings : (BindingOf[b].subject = None) # (BindingOf[b].group = None)
    /\ Mapped \in [Names -> SUBSET Roles]
    /\ Backend \in {"sqlite", "postgres"}
    /\ PageLimit \in Nat \ {0}
    /\ NameRank \in [Names -> Nat] /\ IsFiniteSet(Groups)
    /\ MaxChanges \in Nat
    /\ None \notin Users \cup Names \cup UserRows \cup GroupRows \cup GroupNames
    /\ \A perms \in SUBSET Perms : perms # None

VARIABLES
    user,      \* user[u]: the scim_users row, or None
    group,     \* group[g]: the scim_groups row with its members, or None
    role,      \* role[r]: the permissions of r, or None
    bound,     \* the bindings on record
    admin,     \* admin[a]: the call a is in the middle of
    request,   \* request[q]: where request q is
    life,      \* history: how often a user was created
    since,     \* history: since[q]: what was on record at some time since q began
    changes

store == <<user, group, role, bound>>
vars == <<store, admin, request, life, since, changes>>

Idle == [op |-> "idle"]

\* What a request may rely on: the users active, the names groups have, who is
\* in which group, what roles permit, and the bindings; calm until it changes.
Held ==
    [active |-> {u \in Users : user[u] # None /\ user[u].active},
     named |-> {x \in Groups \X Names : group[x[1]] # None /\ group[x[1]].name = x[2]},
     members |-> {x \in Groups \X Users : group[x[1]] # None /\ x[2] \in group[x[1]].members},
     permits |-> {x \in Roles \X Perms : role[x[1]] # None /\ x[2] \in role[x[1]]},
     bound |-> bound,
     calm |-> TRUE]

Also(h, k) ==
    [active |-> h.active \cup k.active, named |-> h.named \cup k.named,
     members |-> h.members \cup k.members, permits |-> h.permits \cup k.permits,
     bound |-> h.bound \cup k.bound, calm |-> FALSE]
Nothing ==
    [active |-> {}, named |-> {}, members |-> {}, permits |-> {}, bound |-> {}, calm |-> TRUE]

\* The unique and foreign keys of the tables.
References ==
    /\ \A g \in Groups : group[g] # None =>
        /\ \A u \in group[g].members : user[u] # None
        /\ \A h \in Groups \ {g} : group[h] # None => group[g].name # group[h].name
    /\ \A b \in bound : role[BindingOf[b].role] # None

\* Any store that earlier administration may have left.
Init ==
    /\ user \in [Users -> [active : BOOLEAN, revision : {1}] \cup {None}]
    /\ group \in [Groups -> GroupRows \cup {None}]
    /\ role \in [Roles -> (SUBSET Perms) \cup {None}]
    /\ bound \in SUBSET Bindings
    /\ References
    /\ admin = [a \in Admins |-> Idle]
    /\ request = [q \in Requests |-> Idle]
    /\ life = [u \in Users |-> 0]
    /\ since = [q \in Requests |-> Nothing]
    /\ changes = 0

\* A committed change, which the requests under way may or may not see.
Commit ==
    /\ changes < MaxChanges
    /\ changes' = changes + 1
    /\ since' = [q \in Requests |-> IF request[q] = Idle THEN since[q] ELSE Also(since[q], Held')]
    /\ UNCHANGED request

-----------------------------------------------------------------------------
(* Users *)

CreateUser(u, active) ==
    /\ user[u] = None
    /\ user' = [user EXCEPT ![u] = [active |-> active, revision |-> 1]]
    /\ life' = [life EXCEPT ![u] = @ + 1]
    /\ UNCHANGED <<group, role, bound, admin>>
    /\ Commit

\* replace_user reads the user ...
BeginReplaceUser(a, u, active) ==
    /\ admin[a] = Idle
    /\ changes < MaxChanges
    /\ user[u] # None
    /\ admin' = [admin EXCEPT ![a] = [op |-> "user", user |-> u, active |-> active,
                                      read |-> user[u], life |-> life[u]]]
    /\ UNCHANGED <<store, request, life, since, changes>>

\* ... and updates it: in PostgreSQL at the revision it has read.  The mutant
\* leaves the revision out of the WHERE clause.
AnyRevision(j) == user[j.user] # None
SameRevision(j) ==
    user[j.user] # None /\ (Backend = "postgres" => user[j.user].revision = j.read.revision)

ReplaceUser(a) ==
    /\ admin[a].op = "user"
    /\ SameRevision(admin[a])
    /\ user' = [user EXCEPT ![admin[a].user] =
                   [active |-> admin[a].active, revision |-> @.revision + 1]]
    /\ admin' = [admin EXCEPT ![a] = Idle]
    /\ UNCHANGED <<group, role, bound, life>>
    /\ Commit

\* "SCIM user revision conflict"; SQLite reports an update of no row as done.
ReplaceUserFails(a) ==
    /\ admin[a].op = "user"
    /\ ~SameRevision(admin[a])
    /\ admin' = [admin EXCEPT ![a] = Idle]
    /\ UNCHANGED <<store, request, life, since, changes>>

\* The rows of scim_group_members go with the user; the mutant lacks the
\* cascade.
MembersKept(u) == group
MembersWithout(u) ==
    [g \in Groups |-> IF group[g] = None THEN None
                      ELSE [group[g] EXCEPT !.members = @ \ {u}]]

DeleteUser(u) ==
    /\ user[u] # None
    /\ user' = [user EXCEPT ![u] = None]
    /\ group' = MembersWithout(u)
    /\ UNCHANGED <<role, bound, admin, life>>
    /\ Commit

-----------------------------------------------------------------------------
(* Groups *)

\* create_group and replace_group list the users before they write, in
\* PostgreSQL one page of them (which users are on it depends on their names);
\* the latter also looks whether the group is there.
BeginGroup(a, op, g, name, members) ==
    /\ admin[a] = Idle
    /\ changes < MaxChanges
    /\ op = "replace" => group[g] # None
    /\ \A u \in members : user[u] # None
    /\ Backend = "postgres" => Cardinality(members) <= PageLimit
    /\ admin' = [admin EXCEPT ![a] = [op |-> op, group |-> g, name |-> name, members |-> members]]
    /\ UNCHANGED <<store, request, life, since, changes>>

NameFree(j) == \A g \in Groups \ {j.group} : group[g] # None => group[g].name # j.name

\* The foreign key of scim_group_members.
MembersExist(j) == \A u \in j.members : user[u] # None

\* The group's row and its members are written in one transaction.
WriteGroup(a) ==
    /\ admin[a].op \in {"create", "replace"}
    /\ (group[admin[a].group] = None) = (admin[a].op = "create")
    /\ NameFree(admin[a])
    /\ MembersExist(admin[a])
    /\ group' = [group EXCEPT ![admin[a].group] =
                    [name |-> admin[a].name, members |-> admin[a].members]]
    /\ admin' = [admin EXCEPT ![a] = Idle]
    /\ UNCHANGED <<user, role, bound, life>>
    /\ Commit

\* A unique or foreign key violation or a missing group rolls all of it back.
WriteGroupFails(a) ==
    /\ admin[a].op \in {"create", "replace"}
    /\ ~ /\ (group[admin[a].group] = None) = (admin[a].op = "create")
         /\ NameFree(admin[a])
         /\ MembersExist(admin[a])
    /\ admin' = [admin EXCEPT ![a] = Idle]
    /\ UNCHANGED <<store, request, life, since, changes>>

DeleteGroup(g) ==
    /\ group[g] # None
    /\ group' = [group EXCEPT ![g] = None]
    /\ UNCHANGED <<user, role, bound, admin, life>>
    /\ Commit

-----------------------------------------------------------------------------
(* Roles and bindings *)

SaveRole(r, perms) ==
    /\ role' = [role EXCEPT ![r] = perms]
    /\ UNCHANGED <<user, group, bound, admin, life>>
    /\ Commit

\* The bindings of a role go with it.
DeleteRole(r) ==
    /\ role[r] # None
    /\ role' = [role EXCEPT ![r] = None]
    /\ bound' = {b \in bound : BindingOf[b].role # r}
    /\ UNCHANGED <<user, group, admin, life>>
    /\ Commit

\* save_binding; the foreign key wants the role.
SaveBinding(b) ==
    /\ b \notin bound
    /\ role[BindingOf[b].role] # None
    /\ bound' = bound \cup {b}
    /\ UNCHANGED <<user, group, role, admin, life>>
    /\ Commit

DeleteBinding(b) ==
    /\ b \in bound
    /\ bound' = bound \ {b}
    /\ UNCHANGED <<user, group, role, admin, life>>
    /\ Commit

-----------------------------------------------------------------------------
(* Requests *)

Goes(q, r) ==
    /\ request' = [request EXCEPT ![q] = r]
    /\ UNCHANGED <<store, admin, life, since, changes>>

Refused(q) ==
    /\ request' = [request EXCEPT ![q] = Idle]
    /\ since' = [since EXCEPT ![q] = Nothing]
    /\ UNCHANGED <<store, admin, life, changes>>

\* principal_for: get_user, which must be active; the mutant does not look.
Served(u) == user[u] # None
Active(u) == user[u] # None /\ user[u].active

\* A request for an action in an environment, with the id of a user.
GetUser(q, u, action, env) ==
    /\ request[q] = Idle
    /\ Active(u)
    /\ request' = [request EXCEPT ![q] = [op |-> "user", user |-> u, action |-> action,
                                          environment |-> env]]
    /\ since' = [since EXCEPT ![q] = Held]
    /\ UNCHANGED <<store, admin, life, changes>>

\* "SCIM user is inactive", or not found.
NotServed(q, u) == request[q] = Idle /\ ~Active(u) /\ UNCHANGED vars

\* The first page of list_groups, by display_name; SQLite lists all groups.
OnPage(g) ==
    Backend = "postgres" =>
        Cardinality({h \in Groups : /\ group[h] # None
                                    /\ NameRank[group[h].name] < NameRank[group[g].name]})
            < PageLimit

\* list_groups: the ids first ...
ListGroups(q) ==
    /\ request[q].op = "user"
    /\ Goes(q, [op |-> "groups", user |-> request[q].user, action |-> request[q].action,
                environment |-> request[q].environment,
                left |-> {g \in Groups : group[g] # None /\ OnPage(g)}, row |-> None, names |-> {}])

\* ... then get_group for each, whose row and members are two statements; a
\* group that is gone fails the call.
GetGroupRow(q, g) ==
    /\ request[q].op = "groups"
    /\ request[q].row = None
    /\ g \in request[q].left
    /\ IF group[g] = None THEN Refused(q)
       ELSE Goes(q, [request[q] EXCEPT !.row = [group |-> g, name |-> group[g].name]])

GetGroupMembers(q) ==
    /\ request[q].op = "groups"
    /\ request[q].row # None
    /\ LET g == request[q].row.group IN
        Goes(q, [request[q] EXCEPT
                   !.left = @ \ {g}, !.row = None,
                   !.names = IF group[g] # None /\ request[q].user \in group[g].members
                             THEN @ \cup {request[q].row.name} ELSE @])

\* authorizer() loads the roles; what they permit and what is bound counts
\* from here on.
ReadRoles(q) ==
    /\ request[q].op = "groups"
    /\ request[q].left = {}
    /\ request' = [request EXCEPT ![q] =
                      [op |-> "roles", user |-> request[q].user, action |-> request[q].action,
                       environment |-> request[q].environment, names |-> request[q].names,
                       roles |-> role]]
    /\ since' = [since EXCEPT ![q] = [@ EXCEPT !.permits = Held.permits, !.bound = Held.bound]]
    /\ UNCHANGED <<store, admin, life, changes>>

\* effective_roles: the mapped roles of the groups, and the bindings of the
\* subject and of its groups in the environment; the mutant forgets the
\* bindings of groups.
EffectiveOfSubject(subject, names, environment, bindings) ==
    (UNION {Mapped[n] : n \in names})
    \cup {BindingOf[b].role : b \in {c \in bindings :
            /\ BindingOf[c].environment \in {AnyEnv, environment}
            /\ BindingOf[c].subject = subject}}
Effective(subject, names, environment, bindings) ==
    (UNION {Mapped[n] : n \in names})
    \cup {BindingOf[b].role : b \in {c \in bindings :
            /\ BindingOf[c].environment \in {AnyEnv, environment}
            /\ BindingOf[c].subject = subject \/ BindingOf[c].group \in names}}

\* authorize: some permission of an effective role matches, or default_deny;
\* the mutant takes any role.
AuthorizeAnyRole(roles, effective, action) ==
    \E r \in Roles : roles[r] # None /\ \E p \in roles[r] : action \in Covers[p]
Authorize(roles, effective, action) ==
    \E r \in effective : roles[r] # None /\ \E p \in roles[r] : action \in Covers[p]

\* authorizer() loads the bindings; one of a role that was not there yet when
\* the roles were read is a ValueError.  Otherwise the request is decided.
ReadBindings(q) ==
    /\ request[q].op = "roles"
    /\ IF \E b \in bound : request[q].roles[BindingOf[b].role] = None
       THEN Refused(q)
       ELSE Goes(q, [op |-> "decided", user |-> request[q].user, action |-> request[q].action,
                     environment |-> request[q].environment, names |-> request[q].names,
                     granted |-> Authorize(request[q].roles,
                                    Effective(request[q].user, request[q].names,
                                              request[q].environment, bound),
                                    request[q].action)])

Answer(q) == request[q].op = "decided" /\ Refused(q)

AdminStep ==
    \/ \E u \in Users :
        \/ DeleteUser(u)
        \/ \E active \in BOOLEAN :
            CreateUser(u, active) \/ \E a \in Admins : BeginReplaceUser(a, u, active)
    \/ \E a \in Admins :
        \/ ReplaceUser(a) \/ ReplaceUserFails(a) \/ WriteGroup(a) \/ WriteGroupFails(a)
        \/ \E op \in {"create", "replace"}, g \in Groups, n \in Names, m \in SUBSET Users :
            BeginGroup(a, op, g, n, m)
    \/ \E g \in Groups : DeleteGroup(g)
    \/ \E r \in Roles : DeleteRole(r) \/ \E perms \in SUBSET Perms : SaveRole(r, perms)
    \/ \E b \in Bindings : SaveBinding(b) \/ DeleteBinding(b)

RequestStep(q) ==
    \/ \E u \in Users, action \in Actions, env \in Environments : GetUser(q, u, action, env)
    \/ \E u \in Users : NotServed(q, u)
    \/ ListGroups(q) \/ GetGroupMembers(q)
    \/ \E g \in Groups : GetGroupRow(q, g)
    \/ ReadRoles(q) \/ ReadBindings(q) \/ Answer(q)

Next == AdminStep \/ \E q \in Requests : RequestStep(q)

Spec == Init /\ [][Next]_vars

-----------------------------------------------------------------------------
UserJobs == [op : {"user"}, user : Users, active : BOOLEAN, read : UserRows, life : Nat]
GroupJobs == [op : {"create", "replace"}, group : Groups, name : Names, members : SUBSET Users]
AdminJobs == {Idle} \cup UserJobs \cup GroupJobs

RoleTables == [Roles -> (SUBSET Perms) \cup {None}]
AtUser == [op : {"user"}, user : Users, action : Actions, environment : Environments]
AtGroups ==
    [op : {"groups"}, user : Users, action : Actions, environment : Environments,
     left : SUBSET Groups, row : GroupNames \cup {None}, names : SUBSET Names]
AtRoles ==
    [op : {"roles"}, user : Users, action : Actions, environment : Environments,
     names : SUBSET Names, roles : RoleTables]
Decided ==
    [op : {"decided"}, user : Users, action : Actions, environment : Environments,
     names : SUBSET Names, granted : BOOLEAN]
RequestStates == {Idle} \cup AtUser \cup AtGroups \cup AtRoles \cup Decided
Histories ==
    [active : SUBSET Users, named : SUBSET (Groups \X Names), members : SUBSET (Groups \X Users),
     permits : SUBSET (Roles \X Perms), bound : SUBSET Bindings, calm : BOOLEAN]

(* Type invariant, with the references between the tables: the members of  *)
(* a group are users, a bound role exists, and no two groups have one name *)
(* (the constraints of identity.py:612 and 0002_identity.sql), whatever    *)
(* happens between the check of a group's members and its write.           *)
TypeOK ==
    /\ user \in [Users -> UserRows \cup {None}]
    /\ group \in [Groups -> GroupRows \cup {None}]
    /\ role \in RoleTables
    /\ bound \in SUBSET Bindings
    /\ admin \in [Admins -> AdminJobs]
    /\ request \in [Requests -> RequestStates]
    /\ life \in [Users -> Nat]
    /\ since \in [Requests -> Histories]
    /\ changes \in Nat
    /\ References

(* A principal is made of what was on record while principal_for ran: its  *)
(* user was active, and for each of its groups some group had the name and *)
(* the user was a member, however the reads interleave with the changes of *)
(* administrators.  Who was deactivated or removed before is not served.   *)
PrincipalJustified ==
    \A q \in Requests : request[q].op \in {"roles", "decided"} =>
        /\ request[q].user \in since[q].active
        /\ \A n \in request[q].names : \E g \in Groups :
            <<g, n>> \in since[q].named /\ <<g, request[q].user>> \in since[q].members

(* "This avoids stale authorization decisions after SCIM/RBAC              *)
(* administration changes" (identity.py:1013): a request is granted only   *)
(* by a permission that a role had, and by a binding that was in force for *)
(* the principal and the environment, at some time since the decision      *)
(* began; what was revoked before never grants.                            *)
RevocationEffective ==
    \A q \in Requests : request[q].op = "decided" /\ request[q].granted =>
        \E r \in Roles :
            /\ \E p \in Perms : <<r, p>> \in since[q].permits /\ request[q].action \in Covers[p]
            /\ \/ \E n \in request[q].names : r \in Mapped[n]
               \/ \E b \in since[q].bound :
                   /\ BindingOf[b].role = r
                   /\ BindingOf[b].environment \in {AnyEnv, request[q].environment}
                   /\ \/ BindingOf[b].subject = request[q].user
                      \/ BindingOf[b].group \in request[q].names

\* All groups are on one page of list_groups.
GroupsFit ==
    Backend = "postgres" => Cardinality({g \in Groups : group[g] # None}) <= PageLimit

(* A request during which nothing changed is decided exactly by what is on *)
(* record: it has the groups the user is in, provided that list_groups     *)
(* shows them all (limit=500, enterprise/postgres.py:977), and is granted  *)
(* if and only if one of its roles permits the action.                     *)
CalmDecisionExact ==
    \A q \in Requests : request[q].op = "decided" /\ since[q].calm =>
        /\ GroupsFit => request[q].names =
            {group[g].name : g \in {h \in Groups : group[h] # None /\ request[q].user \in group[h].members}}
        /\ request[q].granted <=>
            \E r \in Roles :
                /\ role[r] # None /\ \E p \in role[r] : request[q].action \in Covers[p]
                /\ \/ \E n \in request[q].names : r \in Mapped[n]
                   \/ \E b \in bound :
                       /\ BindingOf[b].role = r
                       /\ BindingOf[b].environment \in {AnyEnv, request[q].environment}
                       /\ \/ BindingOf[b].subject = request[q].user
                          \/ BindingOf[b].group \in request[q].names

(* A PostgreSQL replace_user replaces the very row it has read, unless the *)
(* user was deleted and created again in between: it never undoes a        *)
(* deactivation that committed after its read (postgres.py:656).           *)
NoLostUpdate ==
    [][\A a \in Admins :
        /\ ReplaceUser(a)
        /\ Backend = "postgres"
        /\ admin[a].life = life[admin[a].user]
        => user[admin[a].user] = admin[a].read]_vars
=============================================================================
