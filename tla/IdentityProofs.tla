---------------------------- MODULE IdentityProofs ----------------------------
(***************************************************************************)
(* Proofs about Identity, for any users, groups, roles, bindings and role  *)
(* mapping, any number of administrators and requests, and either store.   *)
(* A request carries what it has read in earlier statements.  The          *)
(* inductive invariant says that all of it, and all that is on record now, *)
(* was on record at some time since the request began, and that what a     *)
(* calm request has read is what is on record now.                         *)
(***************************************************************************)
EXTENDS Identity, FiniteSetTheorems, TLAPS

\* What a replace_user has read is the row, or an earlier state of it, unless
\* the user was deleted and created again.
Lags(j) ==
    /\ j.life <= life[j.user]
    /\ j.life = life[j.user] /\ user[j.user] # None =>
        /\ j.read.revision <= user[j.user].revision
        /\ j.read.revision = user[j.user].revision => user[j.user] = j.read

ReadsLag == \A a \in Admins : admin[a].op = "user" => Lags(admin[a])

\* History h has all that k has.
Includes(h, k) ==
    /\ k.active \subseteq h.active
    /\ k.named \subseteq h.named
    /\ k.members \subseteq h.members
    /\ k.permits \subseteq h.permits
    /\ k.bound \subseteq h.bound

\* What is on record now is part of every request's history.
SinceGrows == \A q \in Requests : request[q].op # "idle" => Includes(since[q], Held)

\* In history h somebody had role r, which permits the action of request s.
GrantedBy(s, h) ==
    \E r \in Roles :
        /\ \E p \in Perms : <<r, p>> \in h.permits /\ s.action \in Covers[p]
        /\ \/ \E n \in s.names : r \in Mapped[n]
           \/ \E b \in h.bound :
               /\ BindingOf[b].role = r
               /\ BindingOf[b].environment \in {AnyEnv, s.environment}
               /\ \/ BindingOf[b].subject = s.user
                  \/ BindingOf[b].group \in s.names

\* What request s has read so far is part of history h.
NamesJustified(s, h) ==
    \A n \in s.names : \E g \in Groups : <<g, n>> \in h.named /\ <<g, s.user>> \in h.members

Justified(s, h) ==
    /\ s.op # "idle" => s.user \in h.active
    /\ s.op = "groups" /\ s.row # None => <<s.row.group, s.row.name>> \in h.named
    /\ s.op \in {"groups", "roles", "decided"} => NamesJustified(s, h)
    /\ s.op = "roles" => \A r \in Roles : s.roles[r] # None =>
                            \A p \in s.roles[r] : <<r, p>> \in h.permits
    /\ s.op = "decided" /\ s.granted => GrantedBy(s, h)

RequestsJustified == \A q \in Requests : Justified(request[q], since[q])

\* The names of the groups in S that u is a member of.
NamesIn(S, u) == {group[g].name : g \in {h \in S : group[h] # None /\ u \in group[h].members}}

\* The roles of table t and the bindings in B grant request s.
Grants(s, t, B) ==
    \E r \in Roles :
        /\ t[r] # None /\ \E p \in t[r] : s.action \in Covers[p]
        /\ \/ \E n \in s.names : r \in Mapped[n]
           \/ \E b \in B :
               /\ BindingOf[b].role = r
               /\ BindingOf[b].environment \in {AnyEnv, s.environment}
               /\ \/ BindingOf[b].subject = s.user
                  \/ BindingOf[b].group \in s.names

\* What request s has read so far is what is on record now.
Exact(s) ==
    /\ s.op = "groups" =>
        /\ \A g \in s.left : group[g] # None
        /\ s.row # None => s.row.group \in s.left /\ s.row.name = group[s.row.group].name
        /\ GroupsFit => s.names = NamesIn(Groups \ s.left, s.user)
    /\ s.op \in {"roles", "decided"} /\ GroupsFit => s.names = NamesIn(Groups, s.user)
    /\ s.op = "roles" => s.roles = role
    /\ s.op = "decided" => (s.granted <=> Grants(s, role, bound))

CalmExact == \A q \in Requests : since[q].calm => Exact(request[q])

RequestInv == SinceGrows /\ RequestsJustified /\ CalmExact

Inv == TypeOK /\ ReadsLag /\ RequestInv

-----------------------------------------------------------------------------
(* Lemmas about jobs, requests and histories. *)

(* The operation of an administrator's job tells what it is.               *)
LEMMA JobKinds ==
  ASSUME NEW j \in AdminJobs
  PROVE  /\ j.op = "user" => j \in UserJobs
         /\ j.op \in {"create", "replace"} => j \in GroupJobs
<1>1. CASE j = Idle
  BY <1>1 DEF Idle
<1>2. CASE j \in UserJobs
  BY <1>2 DEF UserJobs
<1>3. CASE j \in GroupJobs
  BY <1>3 DEF GroupJobs
<1> QED
  BY <1>1, <1>2, <1>3 DEF AdminJobs

(* The operation of a request tells where it is.                           *)
LEMMA RequestKinds ==
  ASSUME NEW s \in RequestStates
  PROVE  /\ s.op \in {"idle", "user", "groups", "roles", "decided"}
         /\ s.op = "idle" <=> s = Idle
         /\ s.op = "user" => s \in AtUser
         /\ s.op = "groups" => s \in AtGroups
         /\ s.op = "roles" => s \in AtRoles
         /\ s.op = "decided" => s \in Decided
<1>1. CASE s = Idle
  BY <1>1 DEF Idle
<1>2. CASE s \in AtUser
  BY <1>2 DEF AtUser, Idle
<1>3. CASE s \in AtGroups
  BY <1>3 DEF AtGroups, Idle
<1>4. CASE s \in AtRoles
  BY <1>4 DEF AtRoles, Idle
<1>5. CASE s \in Decided
  BY <1>5 DEF Decided, Idle
<1> QED
  BY <1>1, <1>2, <1>3, <1>4, <1>5 DEF RequestStates

(* What is on record is a history, and part of itself.                     *)
LEMMA HeldHistory ==
  ASSUME bound \in SUBSET Bindings
  PROVE  Held \in Histories /\ Includes(Held, Held)
<1>1. Held \in Histories
  BY DEF Held, Histories
<1>2. Includes(Held, Held)
  BY DEF Includes
<1> QED
  BY <1>1, <1>2

(* A history together with what is on record is a history that has both.   *)
LEMMA AlsoHistory ==
  ASSUME NEW h \in Histories, NEW k \in Histories
  PROVE  /\ Also(h, k) \in Histories
         /\ Includes(Also(h, k), h) /\ Includes(Also(h, k), k)
         /\ ~Also(h, k).calm
<1>1. Also(h, k) \in Histories
  BY DEF Also, Histories
<1> QED
  BY <1>1 DEF Also, Includes, Histories

(* What is justified by a history is justified by a longer one.            *)
LEMMA JustifiedLonger ==
  ASSUME NEW s, NEW h, NEW k, Justified(s, h), Includes(k, h)
  PROVE  Justified(s, k)
<1>1. /\ s.op # "idle" => s.user \in k.active
      /\ s.op = "groups" /\ s.row # None => <<s.row.group, s.row.name>> \in k.named
  BY DEF Justified, Includes
<1>2. s.op \in {"groups", "roles", "decided"} => NamesJustified(s, k)
  BY DEF Justified, Includes, NamesJustified
<1>3. s.op = "roles" => \A r \in Roles : s.roles[r] # None =>
                            \A p \in s.roles[r] : <<r, p>> \in k.permits
  BY DEF Justified, Includes
<1>4. s.op = "decided" /\ s.granted => GrantedBy(s, k)
  BY DEF Justified, Includes, GrantedBy
<1> QED
  BY <1>1, <1>2, <1>3, <1>4 DEF Justified

(* authorize over effective_roles decides as Grants says: by a role of the *)
(* mapping or of a binding for the user or one of the groups.              *)
LEMMA AuthorizeMeans ==
  ASSUME NEW s, NEW t \in RoleTables, NEW B \in SUBSET Bindings, s.names \in SUBSET Names
  PROVE  Authorize(t, Effective(s.user, s.names, s.environment, B), s.action) <=> Grants(s, t, B)
<1> DEFINE E == Effective(s.user, s.names, s.environment, B)
<1>1. ASSUME NEW r
      PROVE  r \in E <=> /\ r \in Roles
                         /\ \/ \E n \in s.names : r \in Mapped[n]
                            \/ \E b \in B :
                                /\ BindingOf[b].role = r
                                /\ BindingOf[b].environment \in {AnyEnv, s.environment}
                                /\ \/ BindingOf[b].subject = s.user
                                   \/ BindingOf[b].group \in s.names
  <2>1. \A n \in s.names : Mapped[n] \in SUBSET Roles
    BY IdentityAssumption
  <2>2. \A b \in B : BindingOf[b].role \in Roles
    BY IdentityAssumption DEF Targets
  <2> DEFINE M == UNION {Mapped[n] : n \in s.names}
             P == {BindingOf[b].role : b \in {c \in B :
                     /\ BindingOf[c].environment \in {AnyEnv, s.environment}
                     /\ BindingOf[c].subject = s.user \/ BindingOf[c].group \in s.names}}
  <2>3. r \in M <=> \E n \in s.names : r \in Mapped[n]
    OBVIOUS
  <2>4. r \in P <=> \E b \in B : /\ BindingOf[b].role = r
                                 /\ BindingOf[b].environment \in {AnyEnv, s.environment}
                                 /\ \/ BindingOf[b].subject = s.user
                                    \/ BindingOf[b].group \in s.names
    OBVIOUS
  <2>5. E = M \cup P
    BY DEF Effective
  <2> HIDE DEF M, P, E
  <2> QED
    BY <2>1, <2>2, <2>3, <2>4, <2>5
<1> HIDE DEF E
<1> QED
  BY <1>1 DEF Authorize, Grants, E

(* A request that has not begun needs nothing.                             *)
LEMMA IdleRequest ==
  ASSUME NEW h
  PROVE  Idle \in RequestStates /\ Justified(Idle, h) /\ Exact(Idle)
  BY DEF Idle, RequestStates, Justified, Exact

-----------------------------------------------------------------------------
(* The three kinds of steps: a committed change, a step of an administrator *)
(* that changes no table, and a step of a request.                          *)

(* A committed change becomes part of the histories of the requests under   *)
(* way, which are no longer calm.                                           *)
LEMMA CommitRequests ==
  ASSUME TypeOK, RequestInv, bound' \in SUBSET Bindings, Commit
  PROVE  /\ since' \in [Requests -> Histories]
         /\ request' \in [Requests -> RequestStates]
         /\ changes' \in Nat
         /\ RequestInv'
<1>1. Held' \in Histories /\ Includes(Held', Held')
  <2>1. Held' \in Histories
    BY DEF Held, Histories
  <2> QED
    BY <2>1 DEF Includes
<1>2. ASSUME NEW q \in Requests
      PROVE  /\ request'[q] = request[q]
             /\ request[q] \in RequestStates
             /\ since[q] \in Histories
             /\ since'[q] = IF request[q] = Idle THEN since[q] ELSE Also(since[q], Held')
  BY DEF TypeOK, Commit
<1>3. ASSUME NEW q \in Requests
      PROVE  /\ since'[q] \in Histories
             /\ Justified(request[q], since'[q])
             /\ request[q].op # "idle" => Includes(since'[q], Held') /\ ~since'[q].calm
  <2>1. CASE request[q] = Idle
    BY <1>2, <2>1, IdleRequest DEF Idle
  <2>2. CASE request[q] # Idle
    <3>1. since'[q] = Also(since[q], Held')
      BY <1>2, <2>2
    <3>2. Justified(request[q], since[q])
      BY DEF RequestInv, RequestsJustified
    <3> QED
      BY <1>1, <1>2, <3>1, <3>2, AlsoHistory, JustifiedLonger
  <2> QED
    BY <2>1, <2>2
<1>4. SinceGrows'
  BY <1>2, <1>3 DEF SinceGrows
<1>5. RequestsJustified'
  BY <1>2, <1>3 DEF RequestsJustified
<1>6. CalmExact'
  <2>1. SUFFICES ASSUME NEW q \in Requests, since'[q].calm PROVE Exact(request[q])'
    BY DEF CalmExact
  <2>2. request'[q] = Idle
    BY <1>2, <1>3, <2>1, RequestKinds
  <2> QED
    BY <2>2 DEF Exact, Idle
<1>7. /\ since' \in [Requests -> Histories]
      /\ request' \in [Requests -> RequestStates]
      /\ changes' \in Nat
  BY <1>2, <1>3 DEF Commit, TypeOK
<1> QED
  BY <1>4, <1>5, <1>6, <1>7 DEF RequestInv

(* While tables, requests and histories stay, so does what is said of them. *)
LEMMA RequestsSame ==
  ASSUME RequestInv, UNCHANGED <<store, request, since>>
  PROVE  RequestInv'
<1>1. user' = user /\ group' = group /\ role' = role /\ bound' = bound
  BY DEF store
<1>2. Held' = Held
  BY <1>1 DEF Held
<1>3. SinceGrows' /\ RequestsJustified'
  BY <1>2 DEF RequestInv, SinceGrows, RequestsJustified
<1>4. CalmExact'
  BY <1>1 DEF RequestInv, CalmExact, Exact, GroupsFit, NamesIn, Grants
<1> QED
  BY <1>3, <1>4 DEF RequestInv

(* A step of request q that leaves it at s with history h.                  *)
LEMMA RequestMoves ==
  ASSUME Inv, NEW q \in Requests, NEW s \in RequestStates, NEW h \in Histories,
         request' = [request EXCEPT ![q] = s],
         since' = [since EXCEPT ![q] = h],
         UNCHANGED <<store, admin, life, changes>>,
         s.op # "idle" => Includes(h, Held),
         Justified(s, h),
         h.calm => Exact(s)
  PROVE  Inv'
<1>1. user' = user /\ group' = group /\ role' = role /\ bound' = bound
  BY DEF store
<1>2. Held' = Held
  BY <1>1 DEF Held
<1>3. \A p \in Requests : /\ request'[p] = IF p = q THEN s ELSE request[p]
                          /\ since'[p] = IF p = q THEN h ELSE since[p]
  BY DEF Inv, TypeOK
<1>4. TypeOK'
  BY <1>1 DEF Inv, TypeOK, References
<1>5. ReadsLag'
  BY <1>1 DEF Inv, ReadsLag, Lags
<1>6. SinceGrows'
  BY <1>2, <1>3 DEF Inv, RequestInv, SinceGrows
<1>7. RequestsJustified'
  BY <1>3 DEF Inv, RequestInv, RequestsJustified
<1>8. CalmExact'
  <2>1. \A p \in Requests : since'[p].calm => Exact(request'[p])
    BY <1>3 DEF Inv, RequestInv, CalmExact
  <2> QED
    BY <1>1, <2>1 DEF CalmExact, Exact, GroupsFit, NamesIn, Grants
<1> QED
  BY <1>4, <1>5, <1>6, <1>7, <1>8 DEF Inv, RequestInv

(* The same when the history stays.                                         *)
LEMMA RequestGoes ==
  ASSUME Inv, NEW q \in Requests, NEW s \in RequestStates, Goes(q, s),
         request[q].op # "idle",
         Justified(s, since[q]),
         since[q].calm => Exact(s)
  PROVE  Inv'
<1>1. since[q] \in Histories /\ since' = [since EXCEPT ![q] = since[q]]
  BY DEF Goes, Inv, TypeOK
<1>2. Includes(since[q], Held)
  BY DEF Inv, RequestInv, SinceGrows
<1> QED
  BY <1>1, <1>2, RequestMoves DEF Goes

(* A request that ends, refused or answered.                                *)
LEMMA RequestEnds ==
  ASSUME Inv, NEW q \in Requests, Refused(q)
  PROVE  Inv'
<1>1. Nothing \in Histories
  BY DEF Nothing, Histories
<1>2. Idle.op = "idle"
  BY DEF Idle
<1> QED
  BY <1>1, <1>2, IdleRequest, RequestMoves DEF Refused

-----------------------------------------------------------------------------
(* Users *)

(* A deleted user that is created again has lived once more.                *)
LEMMA CreateUserInv ==
  ASSUME Inv, NEW u \in Users, NEW active \in BOOLEAN, CreateUser(u, active)
  PROVE  Inv'
<1>1. /\ user' \in [Users -> UserRows \cup {None}]
      /\ life' \in [Users -> Nat]
      /\ UNCHANGED <<group, role, bound, admin>>
  BY DEF Inv, TypeOK, CreateUser, UserRows
<1>2. \A v \in Users : user[v] # None => user'[v] # None
  BY IdentityAssumption DEF Inv, TypeOK, CreateUser, UserRows
<1>3. References'
  <2>1. \A g \in Groups : group[g] # None => group[g].members \in SUBSET Users
    BY DEF Inv, TypeOK, GroupRows
  <2> QED
    BY <1>1, <1>2, <2>1 DEF Inv, TypeOK, References
<1>4. RequestInv' /\ since' \in [Requests -> Histories]
      /\ request' \in [Requests -> RequestStates] /\ changes' \in Nat
  BY <1>1, CommitRequests DEF Inv, TypeOK, CreateUser
<1>5. ReadsLag'
  <2>1. SUFFICES ASSUME NEW a \in Admins, admin[a].op = "user" PROVE Lags(admin[a])'
    BY <1>1 DEF ReadsLag
  <2>2. admin[a] \in UserJobs
    BY <2>1, JobKinds DEF Inv, TypeOK
  <2>3. Lags(admin[a]) /\ admin[a].user \in Users /\ admin[a].life \in Nat
    BY <2>1, <2>2 DEF Inv, ReadsLag, UserJobs
  <2>4. CASE admin[a].user = u
    <3>1. life'[u] = life[u] + 1 /\ life[u] \in Nat
      BY DEF CreateUser, Inv, TypeOK
    <3> QED
      BY <1>1, <2>3, <2>4, <3>1 DEF Lags
  <2>5. CASE admin[a].user # u
    <3>1. user'[admin[a].user] = user[admin[a].user] /\ life'[admin[a].user] = life[admin[a].user]
      BY <2>3, <2>5 DEF CreateUser, Inv, TypeOK
    <3> QED
      BY <1>1, <2>3, <3>1 DEF Lags
  <2> QED
    BY <2>4, <2>5
<1> QED
  BY <1>1, <1>3, <1>4, <1>5 DEF Inv, TypeOK

(* replace_user remembers the row as it is.                                 *)
LEMMA BeginReplaceUserInv ==
  ASSUME Inv, NEW a \in Admins, NEW u \in Users, NEW active \in BOOLEAN,
         BeginReplaceUser(a, u, active)
  PROVE  Inv'
<1> DEFINE j == [op |-> "user", user |-> u, active |-> active, read |-> user[u], life |-> life[u]]
<1>1. j \in AdminJobs
  BY DEF Inv, TypeOK, BeginReplaceUser, AdminJobs, UserJobs
<1>2. admin' = [admin EXCEPT ![a] = j] /\ UNCHANGED <<user, group, role, bound, request, life, since, changes>>
  BY DEF BeginReplaceUser, store
<1>3. Lags(j)
  <2>1. user[u] \in UserRows /\ life[u] \in Nat
    BY DEF Inv, TypeOK, BeginReplaceUser
  <2> QED
    BY <2>1 DEF Lags, UserRows
<1> HIDE DEF j
<1>4. TypeOK'
  BY <1>1, <1>2 DEF Inv, TypeOK, References
<1>5. ReadsLag'
  <2>1. \A b \in Admins : admin'[b] = IF b = a THEN j ELSE admin[b]
    BY <1>2 DEF Inv, TypeOK
  <2>2. \A b \in Admins : admin'[b].op = "user" => Lags(admin'[b])
    BY <1>3, <2>1 DEF Inv, ReadsLag
  <2> QED
    BY <1>2, <2>2 DEF ReadsLag, Lags
<1>6. RequestInv'
  BY <1>2, RequestsSame DEF Inv, store
<1> QED
  BY <1>4, <1>5, <1>6 DEF Inv

(* The update increases the revision, so that no other job has read it.     *)
LEMMA ReplaceUserInv ==
  ASSUME Inv, NEW a \in Admins, ReplaceUser(a)
  PROVE  Inv'
<1> DEFINE u == admin[a].user
<1>1. admin[a] \in UserJobs
  BY JobKinds DEF Inv, TypeOK, ReplaceUser
<1>2. u \in Users /\ admin[a].active \in BOOLEAN /\ user[u] \in UserRows
  BY <1>1 DEF UserJobs, Inv, TypeOK, ReplaceUser, SameRevision
<1>3. user' = [user EXCEPT ![u] = [active |-> admin[a].active, revision |-> user[u].revision + 1]]
      /\ UNCHANGED <<group, role, bound, life>>
  BY <1>2 DEF ReplaceUser, Inv, TypeOK
<1>4. admin' \in [Admins -> AdminJobs] /\ \A b \in Admins : admin'[b] = IF b = a THEN Idle ELSE admin[b]
  BY DEF ReplaceUser, Inv, TypeOK, AdminJobs
<1>5. user[u].revision \in Nat
  BY <1>2 DEF UserRows
<1> HIDE DEF u
<1>6. /\ user'[u] = [active |-> admin[a].active, revision |-> user[u].revision + 1]
      /\ \A v \in Users : v # u => user'[v] = user[v]
      /\ user'[u] \in UserRows
      /\ user' \in [Users -> UserRows \cup {None}]
  BY <1>2, <1>3, <1>5 DEF Inv, TypeOK, UserRows
<1>7. \A v \in Users : user[v] # None => user'[v] # None
  BY <1>2, <1>6, IdentityAssumption
<1>8. References'
  <2>1. \A g \in Groups : group[g] # None => group[g].members \in SUBSET Users
    BY DEF Inv, TypeOK, GroupRows
  <2> QED
    BY <1>3, <1>7, <2>1 DEF Inv, TypeOK, References
<1>9. RequestInv' /\ since' \in [Requests -> Histories]
      /\ request' \in [Requests -> RequestStates] /\ changes' \in Nat
  BY <1>3, CommitRequests DEF Inv, TypeOK, ReplaceUser
<1>10. ReadsLag'
  <2>1. SUFFICES ASSUME NEW b \in Admins, admin'[b].op = "user" PROVE Lags(admin[b])'
    BY DEF ReadsLag
  <2>2. admin'[b] = admin[b] /\ admin[b] \in UserJobs /\ Lags(admin[b])
    BY <1>4, <2>1, JobKinds DEF Idle, Inv, TypeOK, ReadsLag
  <2>3. admin[b].user \in Users /\ admin[b].read \in UserRows /\ admin[b].read.revision \in Nat
    BY <2>2 DEF UserJobs, UserRows
  <2>4. CASE admin[b].user = u
    <3>1. user[u] # None
      BY <1>2, IdentityAssumption
    <3>2. admin[b].life <= life[u]
          /\ (admin[b].life = life[u] => admin[b].read.revision < user'[u].revision)
      BY <1>2, <1>5, <1>6, <2>2, <2>3, <2>4, <3>1 DEF Lags
    <3>3. user'[u].revision \in Nat
      BY <1>6 DEF UserRows
    <3> QED
      BY <1>3, <2>2, <2>3, <2>4, <3>2, <3>3 DEF Lags
  <2>5. CASE admin[b].user # u
    BY <1>3, <1>6, <2>2, <2>3, <2>5 DEF Lags
  <2> QED
    BY <2>4, <2>5
<1> QED
  BY <1>3, <1>4, <1>6, <1>8, <1>9, <1>10 DEF Inv, TypeOK

(* An administrator who gives up changes nothing else.                      *)
LEMMA GiveUpInv ==
  ASSUME Inv, NEW a \in Admins, admin' = [admin EXCEPT ![a] = Idle],
         UNCHANGED <<store, request, life, since, changes>>
  PROVE  Inv'
<1>1. UNCHANGED <<user, group, role, bound>>
  BY DEF store
<1>2. admin' \in [Admins -> AdminJobs] /\ \A b \in Admins : admin'[b] = IF b = a THEN Idle ELSE admin[b]
  BY DEF Inv, TypeOK, AdminJobs
<1>3. TypeOK'
  BY <1>1, <1>2 DEF Inv, TypeOK, References
<1>4. ReadsLag'
  BY <1>1, <1>2 DEF Inv, ReadsLag, Lags, Idle
<1>5. RequestInv'
  BY RequestsSame DEF Inv
<1> QED
  BY <1>3, <1>4, <1>5 DEF Inv

(* A deleted user takes its memberships along.                              *)
LEMMA DeleteUserInv ==
  ASSUME Inv, NEW u \in Users, DeleteUser(u)
  PROVE  Inv'
<1>1. /\ user' = [user EXCEPT ![u] = None]
      /\ user' \in [Users -> UserRows \cup {None}]
      /\ UNCHANGED <<role, bound, admin, life>>
  BY DEF DeleteUser, Inv, TypeOK
<1>2. ASSUME NEW g \in Groups
      PROVE  /\ group'[g] \in GroupRows \cup {None}
             /\ group'[g] = None <=> group[g] = None
             /\ group[g] # None => /\ group'[g].name = group[g].name
                                   /\ group'[g].members = group[g].members \ {u}
                                   /\ group[g].members \in SUBSET Users
  <2>1. group'[g] = IF group[g] = None THEN None ELSE [group[g] EXCEPT !.members = @ \ {u}]
    BY DEF DeleteUser, MembersWithout
  <2>2. CASE group[g] = None
    BY <2>1, <2>2
  <2>3. CASE group[g] # None
    <3>1. group[g] \in GroupRows
      BY <2>3 DEF Inv, TypeOK
    <3>2. group'[g] = [name |-> group[g].name, members |-> group[g].members \ {u}]
      BY <2>1, <2>3, <3>1 DEF GroupRows
    <3>3. group[g].name \in Names /\ group[g].members \in SUBSET Users
      BY <3>1 DEF GroupRows
    <3>4. group'[g] \in GroupRows
      BY <3>2, <3>3 DEF GroupRows
    <3>5. group'[g] # None
      BY <3>4, IdentityAssumption
    <3>6. group'[g].name = group[g].name /\ group'[g].members = group[g].members \ {u}
      BY <3>2
    <3> QED
      BY <2>3, <3>3, <3>4, <3>5, <3>6
  <2> QED
    BY <2>2, <2>3
<1>3. group' \in [Groups -> GroupRows \cup {None}]
  <2>1. group' = [g \in Groups |-> group'[g]]
    BY DEF DeleteUser, MembersWithout
  <2> QED
    BY <1>2, <2>1
<1>4. References'
  <2>1. \A v \in Users : v # u => user'[v] = user[v]
    BY <1>1 DEF Inv, TypeOK
  <2>2. \A g \in Groups : group'[g] # None =>
          /\ \A v \in group'[g].members : user'[v] # None
          /\ \A h \in Groups \ {g} : group'[h] # None => group'[g].name # group'[h].name
    BY <1>2, <2>1 DEF Inv, TypeOK, References
  <2> QED
    BY <1>1, <2>2 DEF Inv, TypeOK, References
<1>5. RequestInv' /\ since' \in [Requests -> Histories]
      /\ request' \in [Requests -> RequestStates] /\ changes' \in Nat
  BY <1>1, CommitRequests DEF Inv, TypeOK, DeleteUser
<1>6. ReadsLag'
  <2>1. SUFFICES ASSUME NEW a \in Admins, admin[a].op = "user" PROVE Lags(admin[a])'
    BY <1>1 DEF ReadsLag
  <2>2. Lags(admin[a]) /\ admin[a].user \in Users
    BY <2>1, JobKinds DEF Inv, TypeOK, ReadsLag, UserJobs
  <2>3. user'[admin[a].user] \in {None, user[admin[a].user]}
    BY <1>1, <2>2 DEF Inv, TypeOK
  <2> QED
    BY <1>1, <2>2, <2>3 DEF Lags
<1> QED
  BY <1>1, <1>3, <1>4, <1>5, <1>6 DEF Inv, TypeOK

-----------------------------------------------------------------------------
(* Groups *)

LEMMA BeginGroupInv ==
  ASSUME Inv, NEW a \in Admins, NEW op \in {"create", "replace"}, NEW g \in Groups,
         NEW n \in Names, NEW m \in SUBSET Users, BeginGroup(a, op, g, n, m)
  PROVE  Inv'
<1> DEFINE j == [op |-> op, group |-> g, name |-> n, members |-> m]
<1>1. j \in AdminJobs /\ j.op # "user"
  BY DEF AdminJobs, GroupJobs
<1>2. admin' = [admin EXCEPT ![a] = j] /\ UNCHANGED <<user, group, role, bound, request, life, since, changes>>
  BY DEF BeginGroup, store
<1> HIDE DEF j
<1>3. admin' \in [Admins -> AdminJobs] /\ \A b \in Admins : admin'[b] = IF b = a THEN j ELSE admin[b]
  BY <1>1, <1>2 DEF Inv, TypeOK
<1>4. TypeOK'
  BY <1>2, <1>3 DEF Inv, TypeOK, References
<1>5. ReadsLag'
  BY <1>1, <1>2, <1>3 DEF Inv, ReadsLag, Lags
<1>6. RequestInv'
  BY <1>2, RequestsSame DEF Inv, store
<1> QED
  BY <1>4, <1>5, <1>6 DEF Inv

(* The write looks at names and members again, so that both keys hold.      *)
LEMMA WriteGroupInv ==
  ASSUME Inv, NEW a \in Admins, WriteGroup(a)
  PROVE  Inv'
<1> DEFINE k == admin[a].group
           row == [name |-> admin[a].name, members |-> admin[a].members]
<1>1. admin[a] \in GroupJobs
  BY JobKinds DEF Inv, TypeOK, WriteGroup
<1>2. k \in Groups /\ row \in GroupRows /\ admin[a].members \in SUBSET Users
  BY <1>1 DEF GroupJobs, GroupRows
<1>3. /\ group' = [group EXCEPT ![k] = row]
      /\ group' \in [Groups -> GroupRows \cup {None}]
      /\ UNCHANGED <<user, role, bound, life>>
  BY <1>2 DEF WriteGroup, Inv, TypeOK
<1>4. admin' \in [Admins -> AdminJobs] /\ \A b \in Admins : admin'[b] = IF b = a THEN Idle ELSE admin[b]
  BY DEF WriteGroup, Inv, TypeOK, AdminJobs
<1>5. /\ \A u \in row.members : user[u] # None
      /\ \A g \in Groups \ {k} : group[g] # None => group[g].name # row.name
  BY DEF WriteGroup, NameFree, MembersExist
<1>6. References'
  <2>1. \A g \in Groups : group'[g] = IF g = k THEN row ELSE group[g]
    BY <1>2, <1>3 DEF Inv, TypeOK
  <2> HIDE DEF k, row
  <2> QED
    BY <1>3, <1>5, <2>1 DEF Inv, TypeOK, References
<1>7. RequestInv' /\ since' \in [Requests -> Histories]
      /\ request' \in [Requests -> RequestStates] /\ changes' \in Nat
  BY <1>3, CommitRequests DEF Inv, TypeOK, WriteGroup
<1>8. ReadsLag'
  BY <1>3, <1>4 DEF Inv, ReadsLag, Lags, Idle
<1> QED
  BY <1>3, <1>4, <1>6, <1>7, <1>8 DEF Inv, TypeOK

LEMMA DeleteGroupInv ==
  ASSUME Inv, NEW k \in Groups, DeleteGroup(k)
  PROVE  Inv'
<1>1. /\ group' \in [Groups -> GroupRows \cup {None}]
      /\ UNCHANGED <<user, role, bound, admin, life>>
      /\ \A g \in Groups : group'[g] = IF g = k THEN None ELSE group[g]
  BY DEF DeleteGroup, Inv, TypeOK
<1>2. References'
  BY <1>1 DEF Inv, TypeOK, References
<1>3. RequestInv' /\ since' \in [Requests -> Histories]
      /\ request' \in [Requests -> RequestStates] /\ changes' \in Nat
  BY <1>1, CommitRequests DEF Inv, TypeOK, DeleteGroup
<1>4. ReadsLag'
  BY <1>1 DEF Inv, ReadsLag, Lags
<1> QED
  BY <1>1, <1>2, <1>3, <1>4 DEF Inv, TypeOK

-----------------------------------------------------------------------------
(* Roles and bindings *)

(* A step that changes roles and bindings, and keeps the foreign key.       *)
LEMMA RolesChange ==
  ASSUME Inv, role' \in RoleTables, bound' \in SUBSET Bindings,
         \A b \in bound' : role'[BindingOf[b].role] # None,
         UNCHANGED <<user, group, admin, life>>, Commit
  PROVE  Inv'
<1>1. References'
  BY DEF Inv, TypeOK, References
<1>2. RequestInv' /\ since' \in [Requests -> Histories]
      /\ request' \in [Requests -> RequestStates] /\ changes' \in Nat
  BY CommitRequests DEF Inv
<1>3. ReadsLag'
  BY DEF Inv, ReadsLag, Lags
<1> QED
  BY <1>1, <1>2, <1>3 DEF Inv, TypeOK

LEMMA SaveRoleInv ==
  ASSUME Inv, NEW r \in Roles, NEW perms \in SUBSET Perms, SaveRole(r, perms)
  PROVE  Inv'
<1>1. role' \in RoleTables /\ \A x \in Roles : role'[x] = IF x = r THEN perms ELSE role[x]
  BY DEF SaveRole, Inv, TypeOK, RoleTables
<1>2. perms # None
  BY IdentityAssumption
<1>3. \A b \in bound : BindingOf[b].role \in Roles /\ role[BindingOf[b].role] # None
  BY IdentityAssumption DEF Targets, Inv, TypeOK, References
<1> QED
  BY <1>1, <1>2, <1>3, RolesChange DEF SaveRole, Inv, TypeOK

LEMMA DeleteRoleInv ==
  ASSUME Inv, NEW r \in Roles, DeleteRole(r)
  PROVE  Inv'
<1>1. role' \in RoleTables /\ \A x \in Roles : role'[x] = IF x = r THEN None ELSE role[x]
  BY DEF DeleteRole, Inv, TypeOK, RoleTables
<1>2. \A b \in bound : BindingOf[b].role \in Roles /\ role[BindingOf[b].role] # None
  BY IdentityAssumption DEF Targets, Inv, TypeOK, References
<1>3. bound' \in SUBSET Bindings /\ \A b \in bound' : b \in bound /\ BindingOf[b].role # r
  BY DEF DeleteRole, Inv, TypeOK
<1> QED
  BY <1>1, <1>2, <1>3, RolesChange DEF DeleteRole

LEMMA BindingInv ==
  ASSUME Inv, NEW b \in Bindings, SaveBinding(b) \/ DeleteBinding(b)
  PROVE  Inv'
<1>1. /\ bound' \in SUBSET Bindings
      /\ \A c \in bound' : role[BindingOf[c].role] # None
      /\ UNCHANGED <<user, group, role, admin, life>>
      /\ Commit
  BY DEF SaveBinding, DeleteBinding, Inv, TypeOK, References
<1> QED
  BY <1>1, RolesChange DEF Inv, TypeOK

-----------------------------------------------------------------------------
(* Requests *)

(* What is on record now, as a history of a request under way has it.       *)
LEMMA NowOnRecord ==
  ASSUME Inv, NEW q \in Requests, request[q].op # "idle"
  PROVE  /\ \A g \in Groups : group[g] # None =>
              /\ <<g, group[g].name>> \in since[q].named
              /\ \A u \in group[g].members : <<g, u>> \in since[q].members
         /\ bound \subseteq since[q].bound
<1>1. Includes(since[q], Held)
  BY DEF Inv, RequestInv, SinceGrows
<1>2. \A g \in Groups : group[g] # None => group[g].name \in Names /\ group[g].members \in SUBSET Users
  BY DEF Inv, TypeOK, GroupRows
<1>3. \A g \in Groups : group[g] # None =>
         /\ <<g, group[g].name>> \in Held.named
         /\ \A u \in group[g].members : <<g, u>> \in Held.members
  BY <1>2 DEF Held
<1>4. bound = Held.bound
  BY DEF Held
<1> QED
  BY <1>1, <1>3, <1>4 DEF Includes

LEMMA GetUserInv ==
  ASSUME Inv, NEW q \in Requests, NEW u \in Users, NEW action \in Actions,
         NEW env \in Environments, GetUser(q, u, action, env)
  PROVE  Inv'
<1> DEFINE s == [op |-> "user", user |-> u, action |-> action, environment |-> env]
<1>1. s \in RequestStates
  BY DEF RequestStates, AtUser
<1>2. u \in Held.active
  BY DEF GetUser, Active, Held
<1>3. Justified(s, Held) /\ Exact(s)
  BY <1>2 DEF Justified, Exact
<1> HIDE DEF s
<1>4. Held \in Histories /\ Includes(Held, Held)
  BY HeldHistory DEF Inv, TypeOK
<1> QED
  BY <1>1, <1>3, <1>4, RequestMoves DEF GetUser, s

(* While the groups fit on a page, all of them are on it: before a group in *)
(* the order of names there are only others.                                *)
LEMMA AllOnPage ==
  ASSUME TypeOK, GroupsFit, NEW g \in Groups, group[g] # None
  PROVE  OnPage(g)
<1> DEFINE All == {h \in Groups : group[h] # None}
           Earlier == {h \in Groups : /\ group[h] # None
                                      /\ NameRank[group[h].name] < NameRank[group[g].name]}
<1>1. SUFFICES ASSUME Backend = "postgres" PROVE Cardinality(Earlier) < PageLimit
  BY DEF OnPage
<1>2. Cardinality(All) <= PageLimit
  BY <1>1 DEF GroupsFit
<1>3. NameRank[group[g].name] \in Nat
  BY IdentityAssumption DEF TypeOK, GroupRows
<1>4. Earlier \subseteq All \ {g} /\ g \in All /\ All \subseteq Groups
  BY <1>3
<1> HIDE DEF All, Earlier
<1>5. IsFiniteSet(All)
  BY <1>4, IdentityAssumption, FS_Subset
<1>6. /\ IsFiniteSet(All \ {g}) /\ Cardinality(All \ {g}) = Cardinality(All) - 1
      /\ Cardinality(All) \in Nat
  BY <1>4, <1>5, FS_RemoveElement, FS_CardinalityType
<1>7. Cardinality(Earlier) <= Cardinality(All \ {g}) /\ IsFiniteSet(Earlier)
  BY <1>4, <1>6, FS_Subset
<1>8. Cardinality(Earlier) \in Nat
  BY <1>7, FS_CardinalityType
<1> QED
  BY <1>2, <1>6, <1>7, <1>8, IdentityAssumption

LEMMA ListGroupsInv ==
  ASSUME Inv, NEW q \in Requests, ListGroups(q)
  PROVE  Inv'
<1> DEFINE r == request[q]
           s == [op |-> "groups", user |-> r.user, action |-> r.action, environment |-> r.environment,
                 left |-> {g \in Groups : group[g] # None /\ OnPage(g)}, row |-> None, names |-> {}]
<1>1. r \in AtUser /\ r.op = "user" /\ Justified(r, since[q])
  BY RequestKinds DEF ListGroups, Inv, TypeOK, RequestInv, RequestsJustified
<1>2. s \in RequestStates
  BY <1>1 DEF AtUser, AtGroups, RequestStates
<1>3. Justified(s, since[q])
  BY <1>1 DEF Justified, NamesJustified
<1>4. Exact(s)
  <2>1. GroupsFit => \A g \in Groups : group[g] # None => g \in s.left
    BY AllOnPage DEF Inv
  <2> QED
    BY <2>1 DEF Exact, NamesIn
<1>5. Goes(q, s)
  BY DEF ListGroups
<1> HIDE DEF s
<1> QED
  BY <1>1, <1>2, <1>3, <1>4, <1>5, RequestGoes

LEMMA GetGroupRowInv ==
  ASSUME Inv, NEW q \in Requests, NEW g \in Groups, GetGroupRow(q, g)
  PROVE  Inv'
<1> DEFINE r == request[q]
           row == [group |-> g, name |-> group[g].name]
           s == [r EXCEPT !.row = row]
<1>1. CASE group[g] = None
  BY <1>1, RequestEnds DEF GetGroupRow
<1>2. CASE group[g] # None
  <2>1. r \in AtGroups /\ r.op = "groups" /\ g \in r.left /\ Justified(r, since[q])
    BY RequestKinds DEF GetGroupRow, Inv, TypeOK, RequestInv, RequestsJustified
  <2>2. row \in GroupNames
    BY <1>2 DEF GroupNames, GroupRows, Inv, TypeOK
  <2>3. /\ s \in RequestStates
        /\ s.op = "groups" /\ s.user = r.user /\ s.left = r.left /\ s.names = r.names
        /\ s.row = row
    BY <2>1, <2>2 DEF AtGroups, RequestStates
  <2>4. <<g, group[g].name>> \in since[q].named
    BY <1>2, <2>1, NowOnRecord
  <2> HIDE DEF s
  <2>5. Justified(s, since[q])
    BY <2>1, <2>3, <2>4 DEF Justified, NamesJustified
  <2>6. ASSUME since[q].calm PROVE Exact(s)
    <3>1. Exact(r)
      BY <2>6 DEF Inv, RequestInv, CalmExact
    <3> QED
      BY <2>1, <2>3, <3>1 DEF Exact
  <2>7. Goes(q, s)
    BY <1>2 DEF GetGroupRow, s
  <2> QED
    BY <2>1, <2>3, <2>5, <2>6, <2>7, RequestGoes
<1> QED
  BY <1>1, <1>2

(* One more group has been looked at.                                       *)
LEMMA NamesGrow ==
  ASSUME NEW S, NEW u, NEW g, g \notin S
  PROVE  NamesIn(S \cup {g}, u) =
           IF group[g] # None /\ u \in group[g].members
           THEN NamesIn(S, u) \cup {group[g].name} ELSE NamesIn(S, u)
  BY DEF NamesIn

LEMMA GetGroupMembersInv ==
  ASSUME Inv, NEW q \in Requests, GetGroupMembers(q)
  PROVE  Inv'
<1> DEFINE r == request[q]
           g == r.row.group
           member == group[g] # None /\ r.user \in group[g].members
           s == [r EXCEPT !.left = @ \ {g}, !.row = None,
                          !.names = IF member THEN @ \cup {r.row.name} ELSE @]
<1>1. r \in AtGroups /\ r.op = "groups" /\ r.row # None /\ Justified(r, since[q])
  BY RequestKinds DEF GetGroupMembers, Inv, TypeOK, RequestInv, RequestsJustified
<1>2. r.row \in GroupNames /\ g \in Groups /\ r.row.name \in Names
  BY <1>1 DEF AtGroups, GroupNames
<1>3. /\ s \in RequestStates
      /\ s.op = "groups" /\ s.user = r.user /\ s.left = r.left \ {g} /\ s.row = None
      /\ s.names = IF member THEN r.names \cup {r.row.name} ELSE r.names
  BY <1>1, <1>2 DEF AtGroups, RequestStates
<1>4. Goes(q, s)
  BY DEF GetGroupMembers
<1> HIDE DEF s
<1>5. Justified(s, since[q])
  <2>1. member => <<g, r.row.name>> \in since[q].named /\ <<g, r.user>> \in since[q].members
    BY <1>1, <1>2, NowOnRecord DEF Justified
  <2>2. NamesJustified(s, since[q])
    BY <1>1, <1>2, <1>3, <2>1 DEF Justified, NamesJustified
  <2> QED
    BY <1>1, <1>3, <2>2 DEF Justified
<1>6. ASSUME since[q].calm PROVE Exact(s)
  <2>1. Exact(r)
    BY <1>6 DEF Inv, RequestInv, CalmExact
  <2>2. /\ \A h \in r.left : group[h] # None
        /\ g \in r.left /\ r.row.name = group[g].name
        /\ GroupsFit => r.names = NamesIn(Groups \ r.left, r.user)
    BY <1>1, <2>1 DEF Exact
  <2>3. Groups \ s.left = (Groups \ r.left) \cup {g} /\ g \notin Groups \ r.left
    BY <1>2, <1>3, <2>2
  <2>4. NamesIn((Groups \ r.left) \cup {g}, r.user) =
          IF member THEN NamesIn(Groups \ r.left, r.user) \cup {group[g].name}
          ELSE NamesIn(Groups \ r.left, r.user)
    BY <2>3, NamesGrow
  <2> HIDE DEF member, g, r
  <2>5. GroupsFit => s.names = NamesIn(Groups \ s.left, s.user)
    BY <1>3, <2>2, <2>3, <2>4
  <2> QED
    BY <1>3, <2>2, <2>5 DEF Exact
<1> QED
  BY <1>1, <1>3, <1>4, <1>5, <1>6, RequestGoes

(* The principal is complete: from here on only later permissions and       *)
(* bindings count.                                                          *)
LEMMA ReadRolesInv ==
  ASSUME Inv, NEW q \in Requests, ReadRoles(q)
  PROVE  Inv'
<1> DEFINE r == request[q]
           s == [op |-> "roles", user |-> r.user, action |-> r.action,
                 environment |-> r.environment, names |-> r.names, roles |-> role]
           h == [since[q] EXCEPT !.permits = Held.permits, !.bound = Held.bound]
<1>1. r \in AtGroups /\ r.op = "groups" /\ r.left = {} /\ Justified(r, since[q])
  BY RequestKinds DEF ReadRoles, Inv, TypeOK, RequestInv, RequestsJustified
<1>2. s \in RequestStates
  BY <1>1 DEF AtGroups, AtRoles, RequestStates, Inv, TypeOK
<1>3. since[q] \in Histories /\ Held \in Histories /\ Includes(since[q], Held)
  BY <1>1, HeldHistory DEF Inv, TypeOK, RequestInv, SinceGrows
<1>4. /\ h \in Histories
      /\ h.active = since[q].active /\ h.named = since[q].named /\ h.members = since[q].members
      /\ h.permits = Held.permits /\ h.bound = Held.bound /\ h.calm = since[q].calm
  BY <1>3 DEF Histories
<1>5. request' = [request EXCEPT ![q] = s] /\ since' = [since EXCEPT ![q] = h]
      /\ UNCHANGED <<store, admin, life, changes>>
  BY DEF ReadRoles
<1> HIDE DEF h
<1>6. Includes(h, Held)
  BY <1>3, <1>4 DEF Includes
<1>7. \A x \in Roles : role[x] # None => \A p \in role[x] : <<x, p>> \in Held.permits
  BY DEF Held, Inv, TypeOK, RoleTables
<1>8. Justified(s, h)
  BY <1>1, <1>4, <1>7 DEF Justified, NamesJustified
<1>9. ASSUME h.calm PROVE Exact(s)
  <2>1. Exact(r)
    BY <1>4, <1>9 DEF Inv, RequestInv, CalmExact
  <2>2. Groups \ r.left = Groups
    BY <1>1
  <2> QED
    BY <1>1, <2>1, <2>2 DEF Exact
<1> HIDE DEF s
<1> QED
  BY <1>2, <1>4, <1>5, <1>6, <1>8, <1>9, RequestMoves

(* The decision is made by roles and bindings of the request's history.     *)
LEMMA ReadBindingsInv ==
  ASSUME Inv, NEW q \in Requests, ReadBindings(q)
  PROVE  Inv'
<1> DEFINE r == request[q]
           s == [op |-> "decided", user |-> r.user, action |-> r.action,
                 environment |-> r.environment, names |-> r.names,
                 granted |-> Authorize(r.roles, Effective(r.user, r.names, r.environment, bound),
                                       r.action)]
<1>1. CASE \E b \in bound : request[q].roles[BindingOf[b].role] = None
  BY <1>1, RequestEnds DEF ReadBindings
<1>2. CASE ~ \E b \in bound : request[q].roles[BindingOf[b].role] = None
  <2>1. r \in AtRoles /\ r.op = "roles" /\ Justified(r, since[q])
    BY RequestKinds DEF ReadBindings, Inv, TypeOK, RequestInv, RequestsJustified
  <2>2. r.names \in SUBSET Names /\ r.roles \in RoleTables /\ bound \in SUBSET Bindings
    BY <2>1 DEF AtRoles, Inv, TypeOK
  <2>3. s.granted <=> Grants(r, r.roles, bound)
    BY <2>2, AuthorizeMeans
  <2>4. s.granted \in BOOLEAN
    BY DEF Authorize
  <2>5. s \in RequestStates
    BY <2>1, <2>4 DEF AtRoles, Decided, RequestStates
  <2>6. Goes(q, s)
    BY <1>2 DEF ReadBindings
  <2>7. /\ s.op = "decided" /\ s.user = r.user /\ s.action = r.action
        /\ s.environment = r.environment /\ s.names = r.names
    OBVIOUS
  <2> HIDE DEF s
  <2>8. ASSUME Grants(r, r.roles, bound) PROVE GrantedBy(s, since[q])
    <3>1. PICK x \in Roles :
            /\ r.roles[x] # None /\ \E p \in r.roles[x] : r.action \in Covers[p]
            /\ \/ \E n \in r.names : x \in Mapped[n]
               \/ \E b \in bound :
                   /\ BindingOf[b].role = x
                   /\ BindingOf[b].environment \in {AnyEnv, r.environment}
                   /\ \/ BindingOf[b].subject = r.user
                      \/ BindingOf[b].group \in r.names
      BY <2>8 DEF Grants
    <3>2. PICK p \in Perms : p \in r.roles[x] /\ r.action \in Covers[p]
      BY <2>2, <3>1 DEF RoleTables
    <3>3. <<x, p>> \in since[q].permits
      BY <2>1, <3>1, <3>2 DEF Justified
    <3>4. bound \subseteq since[q].bound
      BY <2>1, NowOnRecord
    <3> QED
      BY <2>7, <3>1, <3>2, <3>3, <3>4 DEF GrantedBy
  <2>9. Justified(s, since[q])
    BY <2>1, <2>3, <2>7, <2>8 DEF Justified, NamesJustified
  <2>10. ASSUME since[q].calm PROVE Exact(s)
    <3>1. (GroupsFit => r.names = NamesIn(Groups, r.user)) /\ r.roles = role
      BY <2>1, <2>10 DEF Inv, RequestInv, CalmExact, Exact
    <3>2. Grants(s, role, bound) <=> Grants(r, role, bound)
      BY <2>7 DEF Grants
    <3> QED
      BY <2>3, <2>7, <3>1, <3>2 DEF Exact
  <2> QED
    BY <2>1, <2>5, <2>6, <2>9, <2>10, RequestGoes
<1> QED
  BY <1>1, <1>2

-----------------------------------------------------------------------------
(* The specification *)

LEMMA InitInv == Init => Inv
<1> SUFFICES ASSUME Init PROVE Inv
  OBVIOUS
<1>1. \A a \in Admins : admin[a] = Idle /\ Idle.op = "idle"
  BY DEF Init, Idle
<1>2. \A q \in Requests : request[q] = Idle /\ Idle.op = "idle"
  BY DEF Init, Idle
<1>3. Nothing \in Histories
  BY DEF Nothing, Histories
<1>4. TypeOK
  <2>1. user \in [Users -> UserRows \cup {None}]
    BY DEF Init, UserRows
  <2> QED
    BY <1>3, <2>1 DEF Init, TypeOK, RoleTables, AdminJobs, RequestStates
<1>5. ReadsLag
  BY <1>1 DEF ReadsLag
<1>6. RequestInv
  BY <1>2, IdleRequest DEF RequestInv, SinceGrows, RequestsJustified, CalmExact
<1> QED
  BY <1>4, <1>5, <1>6 DEF Inv

LEMMA AdminStepInv == Inv /\ AdminStep => Inv'
<1> SUFFICES ASSUME Inv, AdminStep PROVE Inv'
  OBVIOUS
<1>1. ASSUME NEW u \in Users, DeleteUser(u) PROVE Inv'
  BY <1>1, DeleteUserInv
<1>2. ASSUME NEW u \in Users, NEW active \in BOOLEAN, CreateUser(u, active) PROVE Inv'
  BY <1>2, CreateUserInv
<1>3. ASSUME NEW u \in Users, NEW active \in BOOLEAN, NEW a \in Admins,
             BeginReplaceUser(a, u, active)
      PROVE  Inv'
  BY <1>3, BeginReplaceUserInv
<1>4. ASSUME NEW a \in Admins, ReplaceUser(a) PROVE Inv'
  BY <1>4, ReplaceUserInv
<1>5. ASSUME NEW a \in Admins, ReplaceUserFails(a) \/ WriteGroupFails(a) PROVE Inv'
  BY <1>5, GiveUpInv DEF ReplaceUserFails, WriteGroupFails
<1>6. ASSUME NEW a \in Admins, WriteGroup(a) PROVE Inv'
  BY <1>6, WriteGroupInv
<1>7. ASSUME NEW a \in Admins, NEW op \in {"create", "replace"}, NEW g \in Groups,
             NEW n \in Names, NEW m \in SUBSET Users, BeginGroup(a, op, g, n, m)
      PROVE  Inv'
  BY <1>7, BeginGroupInv
<1>8. ASSUME NEW g \in Groups, DeleteGroup(g) PROVE Inv'
  BY <1>8, DeleteGroupInv
<1>9. ASSUME NEW r \in Roles, DeleteRole(r) PROVE Inv'
  BY <1>9, DeleteRoleInv
<1>10. ASSUME NEW r \in Roles, NEW perms \in SUBSET Perms, SaveRole(r, perms) PROVE Inv'
  BY <1>10, SaveRoleInv
<1>11. ASSUME NEW b \in Bindings, SaveBinding(b) \/ DeleteBinding(b) PROVE Inv'
  BY <1>11, BindingInv
<1> QED
  BY <1>1, <1>2, <1>3, <1>4, <1>5, <1>6, <1>7, <1>8, <1>9, <1>10, <1>11 DEF AdminStep

LEMMA StutterInv == Inv /\ UNCHANGED vars => Inv'
<1> SUFFICES ASSUME Inv, UNCHANGED vars PROVE Inv'
  OBVIOUS
<1>1. UNCHANGED <<user, group, role, bound, admin, request, life, since, changes>>
  BY DEF vars, store
<1>2. TypeOK'
  BY <1>1 DEF Inv, TypeOK, References
<1>3. ReadsLag'
  BY <1>1 DEF Inv, ReadsLag, Lags
<1>4. RequestInv'
  BY <1>1, RequestsSame DEF Inv, store
<1> QED
  BY <1>2, <1>3, <1>4 DEF Inv

LEMMA RequestStepInv ==
  ASSUME Inv, NEW q \in Requests, RequestStep(q)
  PROVE  Inv'
<1>1. ASSUME NEW u \in Users, NEW action \in Actions, NEW env \in Environments,
             GetUser(q, u, action, env)
      PROVE  Inv'
  BY <1>1, GetUserInv
<1>2. ASSUME NEW u \in Users, NotServed(q, u) PROVE Inv'
  BY <1>2, StutterInv DEF NotServed
<1>3. ASSUME NEW g \in Groups, GetGroupRow(q, g) PROVE Inv'
  BY <1>3, GetGroupRowInv
<1>4. CASE ListGroups(q)
  BY <1>4, ListGroupsInv
<1>5. CASE GetGroupMembers(q)
  BY <1>5, GetGroupMembersInv
<1>6. CASE ReadRoles(q)
  BY <1>6, ReadRolesInv
<1>7. CASE ReadBindings(q)
  BY <1>7, ReadBindingsInv
<1>8. CASE Answer(q)
  BY <1>8, RequestEnds DEF Answer
<1> QED
  BY <1>1, <1>2, <1>3, <1>4, <1>5, <1>6, <1>7, <1>8 DEF RequestStep

(* Every step preserves the inductive invariant.                            *)
LEMMA NextInv == Inv /\ [Next]_vars => Inv'
  BY AdminStepInv, RequestStepInv, StutterInv DEF Next

LEMMA SpecInv == Spec => []Inv
  BY InitInv, NextInv, PTL DEF Spec

(* The types hold, and the unique and foreign keys of the identity tables,  *)
(* whatever happens between the check of a group's members and its write.   *)
THEOREM TypeCorrect == Spec => []TypeOK
<1>1. Inv => TypeOK
  BY DEF Inv
<1> QED
  BY <1>1, SpecInv, PTL

(* principal_for never serves a user who was inactive, or gives it a group  *)
(* it was not in, all the time it ran.                                      *)
THEOREM PrincipalsJustified == Spec => []PrincipalJustified
<1>1. Inv => PrincipalJustified
  BY DEF Inv, RequestInv, RequestsJustified, Justified, NamesJustified, PrincipalJustified
<1> QED
  BY <1>1, SpecInv, PTL

(* DynamicRBACAuthorizer never grants by what was revoked before it began   *)
(* to load roles and bindings.                                              *)
THEOREM RevocationsEffective == Spec => []RevocationEffective
<1>1. Inv => RevocationEffective
  BY DEF Inv, RequestInv, RequestsJustified, Justified, GrantedBy, RevocationEffective
<1> QED
  BY <1>1, SpecInv, PTL

(* A request no change interferes with is decided exactly by the tables, as *)
(* long as list_groups shows all groups on one page.                        *)
THEOREM CalmDecisionsExact == Spec => []CalmDecisionExact
<1>1. Inv => CalmDecisionExact
  BY DEF Inv, RequestInv, CalmExact, Exact, NamesIn, Grants, CalmDecisionExact
<1> QED
  BY <1>1, SpecInv, PTL

(* A PostgreSQL replace_user replaces the row it has read, or none, unless  *)
(* the user was created anew.                                               *)
THEOREM UpdatesKept == Spec => NoLostUpdate
<1>1. ASSUME Inv, NEW a \in Admins, ReplaceUser(a), Backend = "postgres",
             admin[a].life = life[admin[a].user]
      PROVE  user[admin[a].user] = admin[a].read
  <2>1. admin[a].op = "user" /\ SameRevision(admin[a])
    BY <1>1 DEF ReplaceUser
  <2>2. Lags(admin[a])
    BY <1>1, <2>1 DEF Inv, ReadsLag
  <2> QED
    BY <1>1, <2>1, <2>2 DEF SameRevision, Lags
<1>2. Inv /\ [Next]_vars =>
        [\A a \in Admins :
            /\ ReplaceUser(a)
            /\ Backend = "postgres"
            /\ admin[a].life = life[admin[a].user]
            => user[admin[a].user] = admin[a].read]_vars
  BY <1>1
<1> QED
  BY <1>2, SpecInv, PTL DEF Spec, NoLostUpdate
=============================================================================
