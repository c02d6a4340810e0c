---------------------------- MODULE ControlPlane ----------------------------
(***************************************************************************)
(* The policy control plane of enterprise/control_plane.py, over either    *)
(* store (SqliteControlPlaneStore, PostgresControlPlaneStore of            *)
(* enterprise/postgres.py), for one organization and one policy name.      *)
(* Administrators publish, activate, promote and roll back versions and    *)
(* start canary rollouts through ControlPlaneService; agents fetch their   *)
(* policy through CachedControlPlaneClient.  A store transaction is one    *)
(* action; an operation made of several is a job, and other administrators *)
(* and agents can step in between.  PostgreSQL's transactions are READ     *)
(* COMMITTED, so an activation there is two steps: its statements, which   *)
(* see and lock the rows there are, and its commit, which others see.      *)
(* Stored bundles are never changed or deleted, so reading one is not a    *)
(* step of its own.                                                        *)
(***************************************************************************)
EXTENDS Naturals

CONSTANTS
    Admins,        \* requests administrators have in progress
    Agents,
    Environments,
    EnvOf,         \* EnvOf[g]: the environment of agent g
    Managed,       \* bound: environments whose active policy changes
    Versions,
    Publications,  \* bound: [env, version, policy, key] administrators publish
    Promotions,    \* bound: [source, sourceVersion, env, version, key] requests
    Keys,
    SignerSets,    \* the signers ControlPlaneService can be configured with
    AgentKey,      \* the key of the signer in the agents' caches
    RequireSigned, \* require_signed_bundles
    AllowStale,    \* allow_stale_on_error
    MaxStale,      \* max_stale_seconds, in clock ticks
    RequestTicks,  \* bound: ticks a request can be on its way (timeout_seconds)
    MaxRevision,   \* bound on revisions of active_policies
    MaxUpdates,    \* bound on revisions of a row of policy_rollouts
    NoBundle, NoVersion, NoRollout, NoRevision

Policies == {p.policy : p \in Publications}
Bundles == [policy : Policies, key : Keys]

ASSUME ControlPlaneAssumption ==
    /\ EnvOf \in [Agents -> Environments]
    /\ Managed \subseteq Environments
    /\ \A p \in Publications :
        p.env \in Environments /\ p.version \in Versions /\ p.key \in Keys
    /\ \A p \in Promotions :
        /\ p.source \in Environments /\ p.sourceVersion \in Versions
        /\ p.env \in Environments /\ p.version \in Versions /\ p.key \in Keys
    /\ SignerSets \subseteq SUBSET Keys
    /\ MaxStale \in Nat
    /\ RequestTicks \in Nat
    /\ MaxRevision \in Nat
    /\ MaxUpdates \in Nat
    /\ NoBundle \notin Bundles
    /\ NoVersion \notin Versions
    /\ NoRevision \notin Nat

VARIABLES
    signers,   \* key ids of the service's signers
    bundles,   \* policy_bundles: bundles[e][v]
    active,    \* active_policies: version by environment
    revision,  \* active_policies: revision by environment, 0 without a row
    rollout,   \* policy_rollouts by environment
    job,       \* job[a]: what is left of administrator a's operation
    told,      \* told[e]: a revision of e an administrator was told, and, as
               \* history, the version that was active when it was read
    req,       \* req[g]: agent g's request for its policy
    cache,     \* cache[g]: the file PolicyBundleCache keeps for g
    gone       \* history: gone[e][v], ticks since v was last in force in e

adminVars == <<job, told>>
agentVars == <<req, cache>>
vars == <<signers, bundles, active, revision, rollout, adminVars, agentVars, gone>>

Idle == [op |-> "idle"]
Forgotten == MaxStale + RequestTicks + 1

Init ==
    /\ signers \in SignerSets
    /\ bundles = [e \in Environments |-> [v \in Versions |-> NoBundle]]
    /\ active = [e \in Environments |-> NoVersion]
    /\ revision = [e \in Environments |-> 0]
    /\ rollout = [e \in Environments |-> NoRollout]
    /\ job = [a \in Admins |-> Idle]
    /\ told = [e \in Environments |-> [revision |-> 0, version |-> NoVersion]]
    /\ req = [g \in Agents |-> Idle]
    /\ cache = [g \in Agents |-> NoBundle]
    /\ gone = [e \in Environments |-> [v \in Versions |-> Forgotten]]

-----------------------------------------------------------------------------
(* Publication. *)

\* get_bundle finds the version.
Published(e, v) == bundles[e][v] # NoBundle

\* The insert of save_bundle: "Policy version already exists".  The mutant
\* replaces the stored bundle.
ReplaceBundle(e, v, b) == bundles' = [bundles EXCEPT ![e][v] = b]
SaveBundle(e, v, b) ==
    /\ bundles[e][v] = NoBundle
    /\ bundles' = [bundles EXCEPT ![e][v] = b]

\* publish_policy signs with one of the service's signers.
PublishPolicy(a, p) ==
    /\ job[a] = Idle
    /\ p.key \in signers
    /\ SaveBundle(p.env, p.version, [policy |-> p.policy, key |-> p.key])
    /\ UNCHANGED <<signers, active, revision, rollout, adminVars, agentVars, gone>>

-----------------------------------------------------------------------------
(* Activation. *)

\* The transaction of store.activate: the version replaces the active one
\* and the rollout, if one was found, is deleted.
Activate(e, v, found) ==
    /\ active' = [active EXCEPT ![e] = v]
    /\ revision' = [revision EXCEPT ![e] = @ + 1]
    /\ rollout' = [rollout EXCEPT ![e] = IF found THEN NoRollout ELSE @]
    /\ gone' = [gone EXCEPT ![e][v] = 0]

\* PostgreSQL's locks: an activation that has not committed holds the row of
\* active_policies, and that of policy_rollouts if it has deleted one.
ActiveLocked(e) == \E a \in Admins : job[a].op = "commit" /\ job[a].env = e
RolloutLocked(e) == \E a \in Admins : job[a].op = "commit" /\ job[a].env = e /\ job[a].found

\* store.activate looks the version up first.  In PostgreSQL the UPDATE and
\* the DELETE, which sees committed rows only, come before the commit; SQLite's
\* immediate transaction is this step with Commit right behind it.  shown is
\* history: the version an administrator was told with the revision expected,
\* if any; next is what the service does afterwards.
Store(a, e, v, shown, next) ==
    /\ e \in Managed
    /\ Published(e, v)
    /\ revision[e] < MaxRevision
    /\ ~ActiveLocked(e)
    /\ job' = [job EXCEPT ![a] = [op |-> "commit", env |-> e, version |-> v,
                  found |-> rollout[e] # NoRollout, shown |-> shown, next |-> next]]
    /\ UNCHANGED <<signers, bundles, active, revision, rollout, told, agentVars, gone>>

\* The activation commits.  A rollout that was inserted after its DELETE
\* stays.
Commit(a) ==
    /\ job[a].op = "commit"
    /\ Activate(job[a].env, job[a].version, job[a].found)
    /\ job' = [job EXCEPT ![a] = job[a].next]
    /\ UNCHANGED <<signers, bundles, told, agentVars>>

\* verify_bundle of the service, which activate_policy calls when the store
\* has committed: a failure is reported, but the version stays active.
Verified(b) == b.key \in signers

\* WHERE revision=expected; the mutant updates whatever it finds.
RevisionAny(e, r) == TRUE
RevisionMatches(e, r) == revision[e] = r

\* activate_policy without or with a revision that was told (If-Match).
ActivatePolicy(a, e, v, expected) ==
    /\ job[a] = Idle
    /\ expected # NoRevision => expected = told[e].revision /\ expected > 0
    /\ expected # NoRevision => RevisionMatches(e, expected)
    /\ Store(a, e, v, IF expected = NoRevision THEN NoVersion ELSE told[e].version, Idle)

\* The API's answers to activate and to a read of the active policy carry
\* get_active_revision, read in a transaction of its own.  What was told does
\* not interact, so one revision at a time is enough.
ReadRevision(e) ==
    /\ active[e] # NoVersion
    /\ told' = [told EXCEPT ![e] = [revision |-> revision[e], version |-> active[e]]]
    /\ UNCHANGED <<signers, bundles, active, revision, rollout, job, agentVars, gone>>

\* promote_policy publishes the source's policy in the target environment,
\* under a version and a signer of its own ...
PromotePolicy(a, p, activate) ==
    LET b == bundles[p.source][p.sourceVersion] IN
    /\ job[a] = Idle
    /\ Published(p.source, p.sourceVersion)
    /\ RequireSigned => Verified(b)
    /\ p.key \in signers
    /\ SaveBundle(p.env, p.version, [policy |-> b.policy, key |-> p.key])
    /\ job' = [job EXCEPT ![a] = IF activate
                                 THEN [op |-> "promote", env |-> p.env, version |-> p.version]
                                 ELSE Idle]
    /\ UNCHANGED <<signers, active, revision, rollout, told, agentVars, gone>>

\* ... and, if asked to, activates it.
PromoteActivate(a) ==
    /\ job[a].op = "promote"
    /\ Store(a, job[a].env, job[a].version, NoVersion, Idle)

\* rollback_policy activates the version ...
RollbackPolicy(a, e, v) ==
    /\ job[a] = Idle
    /\ Store(a, e, v, NoVersion,
             IF Verified(bundles[e][v]) THEN [op |-> "cancel", env |-> e] ELSE Idle)

\* ... and then cancels a rollout, whoever has started it since.
RollbackCancel(a) ==
    /\ job[a].op = "cancel"
    /\ ~RolloutLocked(job[a].env)
    /\ rollout' = [rollout EXCEPT ![job[a].env] = NoRollout]
    /\ job' = [job EXCEPT ![a] = Idle]
    /\ UNCHANGED <<signers, bundles, active, revision, told, agentVars, gone>>

-----------------------------------------------------------------------------
(* Canary rollouts. *)

\* start_rollout reads the active version and the candidate ...
ReadForRollout(a, e, candidate) ==
    /\ job[a] = Idle
    /\ active[e] # NoVersion
    /\ Published(e, candidate)
    /\ active[e] # candidate
    /\ job' = [job EXCEPT ![a] = [op |-> "rollout", env |-> e, primary |-> active[e],
                                  candidate |-> candidate]]
    /\ UNCHANGED <<signers, bundles, active, revision, rollout, told, agentVars, gone>>

\* The row's revision; a new row starts at 1 again.
RolloutRevision(e) == IF rollout[e] = NoRollout THEN 0 ELSE rollout[e].revision

\* ... and writes the rollout: the upsert, or the update of the expected
\* revision.  The seed and the percentage come down to the set of agents
\* that get the candidate.
WriteRollout(a, canary) ==
    /\ job[a].op = "rollout"
    /\ LET j == job[a]
           e == j.env
       IN /\ ~RolloutLocked(e)
          /\ RolloutRevision(e) < MaxUpdates
          /\ rollout' = [rollout EXCEPT ![e] = [primary |-> j.primary, candidate |-> j.candidate,
                            canary |-> canary, revision |-> RolloutRevision(e) + 1]]
          /\ gone' = [gone EXCEPT ![e][j.primary] = 0, ![e][j.candidate] = 0]
    /\ job' = [job EXCEPT ![a] = Idle]
    /\ UNCHANGED <<signers, bundles, active, revision, told, agentVars>>

\* "Policy rollout revision conflict": the caller expected another revision.
RolloutConflict(a) ==
    /\ job[a].op = "rollout"
    /\ job' = [job EXCEPT ![a] = Idle]
    /\ UNCHANGED <<signers, bundles, active, revision, rollout, told, agentVars, gone>>

CancelRollout(a, e) ==
    /\ job[a] = Idle
    /\ ~RolloutLocked(e)
    /\ rollout' = [rollout EXCEPT ![e] = NoRollout]
    /\ UNCHANGED <<signers, bundles, active, revision, adminVars, agentVars, gone>>

-----------------------------------------------------------------------------
(* Agents. *)

\* resolve_active reads the active version ...
ReadActive(g) ==
    /\ req[g] = Idle
    /\ active[EnvOf[g]] # NoVersion
    /\ req' = [req EXCEPT ![g] = [op |-> "resolve", primary |-> active[EnvOf[g]], waited |-> 0]]
    /\ UNCHANGED <<signers, bundles, active, revision, rollout, adminVars, cache, gone>>

\* ... and then the rollout, which takes precedence.
Assigned(g) ==
    LET r == rollout[EnvOf[g]] IN
    IF r = NoRollout THEN req[g].primary
    ELSE IF g \in r.canary THEN r.candidate ELSE r.primary

\* policy_for_agent verifies the bundle and sends it.
ResolveActive(g) ==
    LET b == bundles[EnvOf[g]][Assigned(g)] IN
    /\ req[g].op = "resolve"
    /\ RequireSigned => Verified(b)
    /\ req' = [req EXCEPT ![g] = [op |-> "answer", version |-> Assigned(g), bundle |-> b,
                                  waited |-> req[g].waited]]
    /\ UNCHANGED <<signers, bundles, active, revision, rollout, adminVars, cache, gone>>

\* PolicyBundle.verify with the agent's signer.
Trusted(b) == b.key = AgentKey

\* The bundle arrives, is verified and saved in the cache, and is returned.
Receive(g) ==
    /\ req[g].op = "answer"
    /\ Trusted(req[g].bundle)
    /\ cache' = [cache EXCEPT ![g] = [version |-> req[g].version, bundle |-> req[g].bundle, age |-> 0]]
    /\ req' = [req EXCEPT ![g] = Idle]
    /\ UNCHANGED <<signers, bundles, active, revision, rollout, adminVars, gone>>

\* The request fails: no active policy, a bad signature, or an unreachable
\* or late control plane.
RequestFails(g) ==
    /\ req[g].op \in {"idle", "resolve", "answer"}
    /\ req' = [req EXCEPT ![g] = [op |-> "failed"]]
    /\ UNCHANGED <<signers, bundles, active, revision, rollout, adminVars, cache, gone>>

\* load refuses a file older than max_stale_seconds; the mutant is off by one.
FreshPlusOne(c) == c.age <= MaxStale + 1
Fresh(c) == c.age <= MaxStale

\* cache.load returns the cached bundle ...
LoadCached(g) ==
    /\ req[g].op = "failed"
    /\ cache[g] # NoBundle
    /\ Fresh(cache[g]) \/ AllowStale
    /\ Trusted(cache[g].bundle)
    /\ req' = [req EXCEPT ![g] = Idle]
    /\ UNCHANGED <<signers, bundles, active, revision, rollout, adminVars, cache, gone>>

\* ... or raises: nothing cached, or too old.
LoadFails(g) ==
    /\ req[g].op = "failed"
    /\ cache[g] # NoBundle => ~Trusted(cache[g].bundle) \/ ~(Fresh(cache[g]) \/ AllowStale)
    /\ req' = [req EXCEPT ![g] = Idle]
    /\ UNCHANGED <<signers, bundles, active, revision, rollout, adminVars, cache, gone>>

-----------------------------------------------------------------------------
\* External: the service is restarted with other signers; operations in
\* progress end where they are, and uncommitted ones are rolled back.
Restart(S) ==
    /\ signers' = S
    /\ job' = [a \in Admins |-> Idle]
    /\ UNCHANGED <<bundles, active, revision, rollout, told, agentVars, gone>>

InForce(e) ==
    {active[e]} \cup (IF rollout[e] = NoRollout THEN {}
                      ELSE {rollout[e].primary, rollout[e].candidate})

UpTo(n, bound) == IF n < bound THEN n + 1 ELSE bound

\* External: the clock advances; a request ends within its timeout.
Tick ==
    /\ \A g \in Agents : req[g].op \in {"resolve", "answer"} => req[g].waited < RequestTicks
    /\ req' = [g \in Agents |->
                IF req[g].op \in {"resolve", "answer"} THEN [req[g] EXCEPT !.waited = @ + 1]
                ELSE req[g]]
    /\ cache' = [g \in Agents |->
                IF cache[g] = NoBundle THEN NoBundle
                ELSE [cache[g] EXCEPT !.age = UpTo(@, MaxStale + 1)]]
    /\ gone' = [e \in Environments |-> [v \in Versions |->
                IF v \in InForce(e) THEN 0 ELSE UpTo(gone[e][v], Forgotten)]]
    /\ UNCHANGED <<signers, bundles, active, revision, rollout, adminVars>>

AdminStep(a) ==
    \/ \E p \in Publications : PublishPolicy(a, p)
    \/ \E p \in Promotions, activate \in BOOLEAN : PromotePolicy(a, p, activate)
    \/ \E e \in Environments :
        \/ CancelRollout(a, e)
        \/ \E v \in Versions :
            \/ \E r \in {NoRevision, told[e].revision} : ActivatePolicy(a, e, v, r)
            \/ RollbackPolicy(a, e, v)
            \/ ReadForRollout(a, e, v)
    \/ PromoteActivate(a) \/ Commit(a) \/ RollbackCancel(a)
    \/ (\E C \in SUBSET Agents : WriteRollout(a, C)) \/ RolloutConflict(a)

AgentStep(g) ==
    ReadActive(g) \/ ResolveActive(g) \/ Receive(g) \/ RequestFails(g) \/ LoadCached(g) \/ LoadFails(g)

Next ==
    \/ \E a \in Admins : AdminStep(a)
    \/ \E e \in Environments : ReadRevision(e)
    \/ \E g \in Agents : AgentStep(g)
    \/ \E S \in SignerSets : Restart(S)
    \/ Tick

Spec == Init /\ [][Next]_vars

-----------------------------------------------------------------------------
Rollouts ==
    [primary : Versions, candidate : Versions, canary : SUBSET Agents, revision : Nat]
Followups == [op : {"idle"}] \cup [op : {"cancel"}, env : Environments]
Jobs ==
    Followups \cup [op : {"promote"}, env : Environments, version : Versions]
    \cup [op : {"commit"}, env : Environments, version : Versions, found : BOOLEAN,
          shown : Versions \cup {NoVersion}, next : Followups]
    \cup [op : {"rollout"}, env : Environments, primary : Versions, candidate : Versions]
Requests ==
    [op : {"idle", "failed"}]
    \cup [op : {"resolve"}, primary : Versions, waited : 0..RequestTicks]
    \cup [op : {"answer"}, version : Versions, bundle : Bundles, waited : 0..RequestTicks]
CacheFiles == [version : Versions, bundle : Bundles, age : 0..(MaxStale + 1)]

\* The versions an environment refers to are published there (foreign keys).
References(e) ==
    /\ active[e] # NoVersion => Published(e, active[e])
    /\ rollout[e] # NoRollout =>
        Published(e, rollout[e].primary) /\ Published(e, rollout[e].candidate)

(* Type invariant; every active, primary and candidate version is stored.  *)
TypeOK ==
    /\ signers \subseteq Keys
    /\ bundles \in [Environments -> [Versions -> Bundles \cup {NoBundle}]]
    /\ active \in [Environments -> Versions \cup {NoVersion}]
    /\ revision \in [Environments -> Nat]
    /\ rollout \in [Environments -> Rollouts \cup {NoRollout}]
    /\ job \in [Admins -> Jobs]
    /\ told \in [Environments -> [revision : Nat, version : Versions \cup {NoVersion}]]
    /\ req \in [Agents -> Requests]
    /\ cache \in [Agents -> CacheFiles \cup {NoBundle}]
    /\ gone \in [Environments -> [Versions -> 0..Forgotten]]
    /\ \A e \in Environments : References(e)

(* A version names one policy for ever: what an agent has been sent or has *)
(* cached as version v is what the store holds as v, whoever else tried to *)
(* publish or promote the same version in the meantime.                    *)
OnePolicyPerVersion ==
    \A g \in Agents :
        /\ req[g].op = "answer" => bundles[EnvOf[g]][req[g].version] = req[g].bundle
        /\ cache[g] # NoBundle => bundles[EnvOf[g]][cache[g].version] = cache[g].bundle

(* "Callers may pass expected_revision to reject lost updates from         *)
(* concurrent administrators" (enterprise/postgres.py:44): an activation   *)
(* with a revision never replaces a version that was activated after that  *)
(* revision was read, neither with its UPDATE nor when it commits.         *)
NoLostActivation ==
    [][\A a \in Admins :
        /\ \A e \in Environments, v \in Versions :
            ActivatePolicy(a, e, v, told[e].revision) => active[e] = told[e].version
        /\ Commit(a) /\ job[a].shown # NoVersion => active[job[a].env] = job[a].shown]_vars

(* Unless allow_stale_on_error is set, an agent is never given a policy    *)
(* that has been out of force (neither active nor part of a rollout) for   *)
(* longer than max_stale_seconds plus the time its request took.           *)
BoundedStaleness ==
    [][\A g \in Agents :
        /\ Receive(g) => gone[EnvOf[g]][req[g].version] <= RequestTicks
        /\ LoadCached(g) /\ ~AllowStale =>
            gone[EnvOf[g]][cache[g].version] <= MaxStale + RequestTicks]_vars
=============================================================================
