------------------------- MODULE ControlPlaneProofs -------------------------
(* The policy control plane, for any administrators, agents, environments   *)
(* and versions.                                                            *)
EXTENDS ControlPlane, TLAPS

\* What start_rollout has read is stored, and so is what resolve_active read.
JobsPublished ==
    \A a \in Admins :
        /\ job[a].op = "rollout" =>
            Published(job[a].env, job[a].primary) /\ Published(job[a].env, job[a].candidate)
        /\ job[a].op = "commit" => Published(job[a].env, job[a].version)
RequestsPublished ==
    \A g \in Agents : req[g].op = "resolve" => Published(EnvOf[g], req[g].primary)

\* Activations wait for their commit one at a time for an environment.
Locks ==
    \A a \in Admins : job[a].op = "commit" =>
        \A b \in Admins : job[b].op = "commit" /\ job[b].env = job[a].env => a = b

TypeInv == TypeOK /\ JobsPublished /\ Locks /\ RequestsPublished

\* The fields of a job, by operation.
LEMMA JobFields ==
  ASSUME TypeOK, NEW a \in Admins
  PROVE  /\ job[a].op \in {"promote", "commit", "cancel", "rollout"} => job[a].env \in Environments
         /\ job[a].op \in {"promote", "commit"} => job[a].version \in Versions
         /\ job[a].op = "commit" => /\ job[a].found \in BOOLEAN /\ job[a].next \in Followups
                                    /\ job[a].shown \in Versions \cup {NoVersion}
         /\ job[a].op = "rollout" => job[a].primary \in Versions /\ job[a].candidate \in Versions
  BY DEF TypeOK, Jobs, Followups

\* Jobs that neither write a rollout nor wait for a commit claim nothing.
Quiet == \A a \in Admins : job'[a].op \in {"rollout", "commit"} => job'[a] = job[a]

LEMMA QuietJobs ==
  ASSUME TypeInv, Quiet, \A e \in Environments, v \in Versions : Published(e, v) => Published(e, v)'
  PROVE  JobsPublished' /\ Locks'
<1>1. TypeOK
  BY DEF TypeInv
<1>2. JobsPublished'
  BY <1>1, JobFields DEF TypeInv, Quiet, JobsPublished
<1>3. Locks'
  BY DEF TypeInv, Quiet, Locks
<1>4. QED
  BY <1>2, <1>3

\* The fields of a request, by state.
LEMMA RequestFields ==
  ASSUME TypeOK, NEW g \in Agents
  PROVE  /\ req[g].op \in {"idle", "failed", "resolve", "answer"}
         /\ req[g].op \in {"resolve", "answer"} => req[g].waited \in 0..RequestTicks
         /\ req[g].op = "resolve" => req[g].primary \in Versions
         /\ req[g].op = "answer" => req[g].version \in Versions /\ req[g].bundle \in Bundles
  BY DEF TypeOK, Requests

\* The fields of a rollout.
LEMMA RolloutFields ==
  ASSUME TypeOK, NEW e \in Environments, rollout[e] # NoRollout
  PROVE  /\ rollout[e].primary \in Versions /\ rollout[e].candidate \in Versions
         /\ rollout[e].canary \in SUBSET Agents /\ rollout[e].revision \in Nat
  BY DEF TypeOK, Rollouts

\* Publishing only adds bundles.
LEMMA Adding ==
  ASSUME TypeOK, NEW e \in Environments, NEW v \in Versions, NEW b \in Bundles, SaveBundle(e, v, b)
  PROVE  /\ bundles' \in [Environments -> [Versions -> Bundles \cup {NoBundle}]]
         /\ \A f \in Environments, w \in Versions :
                Published(f, w) => bundles'[f][w] = bundles[f][w] /\ Published(f, w)'
  BY ControlPlaneAssumption DEF TypeOK, SaveBundle, Published

(* The types hold initially. *)
LEMMA InitType == Init => TypeInv
<1>1. SUFFICES ASSUME Init PROVE TypeInv
  OBVIOUS
<1>2. Forgotten \in Nat /\ Forgotten \in 0..Forgotten
  BY ControlPlaneAssumption DEF Forgotten
<1>3. signers \subseteq Keys
  BY <1>1, ControlPlaneAssumption DEF Init
<1>4. QED
  BY <1>1, <1>2, <1>3 DEF Init, TypeInv, TypeOK, References, Idle, Jobs, Followups, Requests,
                          JobsPublished, Locks, RequestsPublished

(* Publishing, and the first half of a promotion. *)
LEMMA PublishType ==
  ASSUME TypeInv, NEW a \in Admins,
         \/ \E p \in Publications : PublishPolicy(a, p)
         \/ \E p \in Promotions, activate \in BOOLEAN : PromotePolicy(a, p, activate)
  PROVE  TypeInv'
<1>1. PICK e \in Environments, v \in Versions, b \in Bundles : SaveBundle(e, v, b)
  <2>1. CASE \E p \in Publications : PublishPolicy(a, p)
    BY <2>1, ControlPlaneAssumption DEF PublishPolicy, Bundles, Policies
  <2>2. CASE \E p \in Promotions, activate \in BOOLEAN : PromotePolicy(a, p, activate)
    BY <2>2, ControlPlaneAssumption DEF PromotePolicy, TypeInv, TypeOK, Published, Bundles
  <2>3. QED
    BY <2>1, <2>2
<1>2. UNCHANGED <<signers, active, revision, rollout, told, req, cache, gone>>
  BY DEF PublishPolicy, PromotePolicy, adminVars, agentVars
<1>3. job' \in [Admins -> Jobs] /\ Quiet
  <2>1. CASE \E p \in Publications : PublishPolicy(a, p)
    BY <2>1 DEF PublishPolicy, adminVars, TypeInv, TypeOK, Quiet
  <2>2. ASSUME NEW p \in Promotions, NEW activate \in BOOLEAN, PromotePolicy(a, p, activate)
        PROVE  \/ job' = [job EXCEPT ![a] = [op |-> "promote", env |-> p.env, version |-> p.version]]
               \/ job' = [job EXCEPT ![a] = Idle]
    BY <2>2, Zenon DEF PromotePolicy
  <2>3. ASSUME NEW p \in Promotions
        PROVE  [op |-> "promote", env |-> p.env, version |-> p.version] \in Jobs
    BY ControlPlaneAssumption DEF Jobs
  <2>4. Idle \in Jobs
    BY DEF Idle, Jobs, Followups
  <2>5. CASE \E p \in Promotions, activate \in BOOLEAN : PromotePolicy(a, p, activate)
    <3>1. PICK p \in Promotions, activate \in BOOLEAN : PromotePolicy(a, p, activate)
      BY <2>5
    <3>2. CASE job' = [job EXCEPT ![a] = [op |-> "promote", env |-> p.env, version |-> p.version]]
      BY <2>3, <3>2 DEF TypeInv, TypeOK, Quiet
    <3>3. CASE job' = [job EXCEPT ![a] = Idle]
      BY <2>4, <3>3 DEF TypeInv, TypeOK, Idle, Quiet
    <3>4. QED
      BY <2>2, <3>1, <3>2, <3>3
  <2>6. QED
    BY <2>1, <2>5
<1>4. TypeOK
  BY DEF TypeInv
<1>5. \A f \in Environments : References(f)'
  BY <1>1, <1>2, <1>4, Adding, RolloutFields DEF TypeOK, References
<1>6. TypeOK'
  BY <1>1, <1>2, <1>3, <1>4, <1>5, Adding DEF TypeOK
<1>7. JobsPublished' /\ Locks'
  BY <1>1, <1>3, <1>4, Adding, QuietJobs
<1>8. RequestsPublished'
  BY <1>1, <1>2, <1>4, Adding, RequestFields, ControlPlaneAssumption DEF TypeInv, RequestsPublished
<1>9. QED
  BY <1>6, <1>7, <1>8 DEF TypeInv

\* A step that activates version v of environment e: the commit.
Activation(e, v) ==
    /\ \E found \in BOOLEAN : Activate(e, v, found)
    /\ Published(e, v)
    /\ UNCHANGED <<signers, bundles, told, req, cache>>
    /\ job' \in [Admins -> Jobs]
    /\ Quiet
    /\ \A a \in Admins : job'[a].op = "commit" => job'[a].env # e

\* The statements of an activation: nothing to be seen yet.
Preparation(a, e, v) ==
    /\ ~ActiveLocked(e) /\ Published(e, v)
    /\ UNCHANGED <<signers, bundles, active, revision, rollout, told, req, cache, gone>>
    /\ job' \in [Admins -> Jobs]
    /\ job'[a].op = "commit" /\ job'[a].env = e /\ job'[a].version = v
    /\ job'[a].shown # NoVersion => RevisionMatches(e, told[e].revision) /\ job'[a].shown = told[e].version
    /\ \A b \in Admins \ {a} : job'[b] = job[b]

\* store.activate up to its commit.
LEMMA Stores ==
  ASSUME TypeInv, NEW a \in Admins, NEW e \in Environments, NEW v \in Versions,
         NEW shown \in Versions \cup {NoVersion}, NEW next \in Followups,
         shown # NoVersion => RevisionMatches(e, told[e].revision) /\ shown = told[e].version,
         Store(a, e, v, shown, next)
  PROVE  Preparation(a, e, v)
<1>1. TypeOK
  BY DEF TypeInv
<1>2. Published(e, v) /\ ~ActiveLocked(e)
  BY DEF Store
<1>3. UNCHANGED <<signers, bundles, active, revision, rollout, told, req, cache, gone>>
  BY DEF Store, agentVars
<1>4. [op |-> "commit", env |-> e, version |-> v, found |-> rollout[e] # NoRollout,
       shown |-> shown, next |-> next] \in Jobs
  BY DEF Jobs
<1>5. /\ job' \in [Admins -> Jobs]
      /\ job'[a].op = "commit" /\ job'[a].env = e /\ job'[a].version = v /\ job'[a].shown = shown
      /\ \A b \in Admins \ {a} : job'[b] = job[b]
  BY <1>1, <1>4 DEF TypeOK, Store
<1>6. QED
  BY <1>2, <1>3, <1>5 DEF Preparation

(* The ways to activate a version. *)
LEMMA Activations ==
  ASSUME TypeInv, NEW a \in Admins,
         \/ PromoteActivate(a) \/ Commit(a)
         \/ \E e \in Environments, v \in Versions : RollbackPolicy(a, e, v)
         \/ \E e \in Environments, v \in Versions :
                \E r \in {NoRevision, told[e].revision} : ActivatePolicy(a, e, v, r)
  PROVE  \E e \in Environments, v \in Versions : Activation(e, v) \/ Preparation(a, e, v)
<1>1. TypeOK /\ Locks /\ JobsPublished
  BY DEF TypeInv
<1>2. Idle \in Followups
  BY DEF Idle, Followups
<1>3. CASE PromoteActivate(a)
  BY <1>1, <1>2, <1>3, JobFields, Stores DEF PromoteActivate
<1>4. CASE Commit(a)
  <2>1. /\ job[a].env \in Environments /\ job[a].version \in Versions /\ job[a].found \in BOOLEAN
        /\ job[a].next \in Followups /\ Published(job[a].env, job[a].version)
    BY <1>1, <1>4, JobFields DEF Commit, JobsPublished
  <2>2. job[a].next \in Jobs /\ job[a].next.op \notin {"rollout", "commit"}
    BY <2>1 DEF Followups, Jobs
  <2>3. job' \in [Admins -> Jobs] /\ job'[a] = job[a].next /\ \A b \in Admins : b # a => job'[b] = job[b]
    BY <1>1, <1>4, <2>2 DEF Commit, TypeOK
  <2>4. Quiet
    BY <2>2, <2>3 DEF Quiet
  <2>5. \A b \in Admins : job'[b].op = "commit" => job'[b].env # job[a].env
    BY <1>1, <1>4, <2>2, <2>3 DEF Commit, Locks
  <2>6. Activation(job[a].env, job[a].version)
    BY <1>4, <2>1, <2>3, <2>4, <2>5 DEF Commit, Activation, agentVars
  <2>7. QED
    BY <2>1, <2>6
<1>5. ASSUME NEW e \in Environments, NEW v \in Versions, RollbackPolicy(a, e, v)
      PROVE  Activation(e, v) \/ Preparation(a, e, v)
  <2>1. [op |-> "cancel", env |-> e] \in Followups
    BY DEF Followups
  <2>2. PICK next \in Followups : Store(a, e, v, NoVersion, next)
    BY <1>2, <1>5, <2>1 DEF RollbackPolicy
  <2>3. QED
    BY <2>2, Stores
<1>6. ASSUME NEW e \in Environments, NEW v \in Versions, NEW r \in {NoRevision, told[e].revision},
             ActivatePolicy(a, e, v, r)
      PROVE  Activation(e, v) \/ Preparation(a, e, v)
  <2>1. told[e].version \in Versions \cup {NoVersion} /\ told[e].revision \in Nat
    BY <1>1 DEF TypeOK
  <2>2. CASE r = NoRevision
    <3>1. Store(a, e, v, NoVersion, Idle)
      BY <1>6, <2>2 DEF ActivatePolicy
    <3>2. QED
      BY <1>2, <3>1, Stores
  <2>3. CASE r # NoRevision
    <3>1. RevisionMatches(e, told[e].revision) /\ Store(a, e, v, told[e].version, Idle)
      BY <1>6, <2>3 DEF ActivatePolicy
    <3>2. QED
      BY <1>2, <2>1, <3>1, Stores
  <2>4. QED
    BY <2>2, <2>3
<1>7. QED
  BY <1>3, <1>4, <1>5, <1>6

(* An activation refers to a stored version. *)
LEMMA ActivationType ==
  ASSUME TypeInv, NEW e \in Environments, NEW v \in Versions, Activation(e, v)
  PROVE  TypeInv'
<1>1. TypeOK
  BY DEF TypeInv
<1>2. PICK found \in BOOLEAN :
      /\ UNCHANGED <<signers, bundles, told, req, cache>>
      /\ active' = [active EXCEPT ![e] = v]
      /\ revision' = [revision EXCEPT ![e] = @ + 1]
      /\ rollout' = [rollout EXCEPT ![e] = IF found THEN NoRollout ELSE @]
      /\ gone' = [gone EXCEPT ![e][v] = 0]
      /\ Published(e, v)
  BY DEF Activation, Activate
<1>3. \A f \in Environments : References(f)'
  BY <1>1, <1>2 DEF TypeOK, References, Published
<1>4. 0 \in 0..Forgotten
  BY ControlPlaneAssumption DEF Forgotten
<1>5. gone' \in [Environments -> [Versions -> 0..Forgotten]]
  BY <1>1, <1>2, <1>4 DEF TypeOK
<1>6. rollout' \in [Environments -> Rollouts \cup {NoRollout}]
  BY <1>1, <1>2 DEF TypeOK
<1>7. TypeOK'
  BY <1>1, <1>2, <1>3, <1>5, <1>6 DEF TypeOK, Activation
<1>8. JobsPublished' /\ Locks'
  BY <1>2, QuietJobs DEF Published, Activation
<1>9. QED
  BY <1>2, <1>7, <1>8 DEF TypeInv, RequestsPublished, Published

(* So does one that waits for its commit, which has the row to itself. *)
LEMMA PreparationType ==
  ASSUME TypeInv, NEW a \in Admins, NEW e \in Environments, NEW v \in Versions, Preparation(a, e, v)
  PROVE  TypeInv'
<1>1. UNCHANGED <<signers, bundles, active, revision, rollout, told, req, cache, gone>>
  BY DEF Preparation
<1>2. TypeOK' /\ RequestsPublished'
  BY <1>1 DEF Preparation, TypeInv, TypeOK, References, Published, RequestsPublished
<1>3. JobsPublished'
  BY <1>1 DEF Preparation, TypeInv, JobsPublished, Published
<1>4. Locks'
  BY DEF Preparation, ActiveLocked, TypeInv, Locks
<1>5. QED
  BY <1>2, <1>3, <1>4 DEF TypeInv

(* Canary rollouts are written for versions that start_rollout has found.   *)
LEMMA RolloutType ==
  ASSUME TypeInv, NEW a \in Admins,
         \/ \E e \in Environments, v \in Versions : ReadForRollout(a, e, v)
         \/ \E C \in SUBSET Agents : WriteRollout(a, C)
         \/ RolloutConflict(a)
         \/ RollbackCancel(a)
         \/ \E e \in Environments : CancelRollout(a, e)
  PROVE  TypeInv'
<1>1. TypeOK
  BY DEF TypeInv
<1>2. ASSUME NEW e \in Environments, NEW v \in Versions, ReadForRollout(a, e, v) PROVE TypeInv'
  <2>1. active[e] \in Versions
    BY <1>1, <1>2 DEF ReadForRollout, TypeOK
  <2>2. job' \in [Admins -> Jobs]
    BY <1>1, <1>2, <2>1 DEF ReadForRollout, TypeOK, Jobs
  <2>3. JobsPublished' /\ Locks'
    BY <1>1, <1>2 DEF ReadForRollout, TypeInv, JobsPublished, Locks, TypeOK, References, Published
  <2>4. TypeOK' /\ RequestsPublished'
    BY <1>1, <1>2, <2>2 DEF ReadForRollout, TypeInv, TypeOK, References, Published,
                            RequestsPublished, agentVars
  <2>5. QED
    BY <2>3, <2>4 DEF TypeInv
<1>3. ASSUME NEW C \in SUBSET Agents, WriteRollout(a, C) PROVE TypeInv'
  <2>1. /\ job[a].env \in Environments /\ job[a].primary \in Versions /\ job[a].candidate \in Versions
        /\ Published(job[a].env, job[a].primary) /\ Published(job[a].env, job[a].candidate)
    BY <1>1, <1>3, JobFields DEF WriteRollout, TypeInv, JobsPublished
  <2>2. RolloutRevision(job[a].env) \in Nat
    BY <1>1, <2>1, RolloutFields DEF RolloutRevision
  <2>3. DEFINE r == [primary |-> job[a].primary, candidate |-> job[a].candidate,
                     canary |-> C, revision |-> RolloutRevision(job[a].env) + 1]
  <2>4. r \in Rollouts
    BY <2>1, <2>2 DEF Rollouts
  <2>5. rollout' = [rollout EXCEPT ![job[a].env] = r]
    BY <1>3 DEF WriteRollout
  <2>6. rollout' \in [Environments -> Rollouts \cup {NoRollout}]
    BY <1>1, <2>1, <2>4, <2>5 DEF TypeOK
  <2>7. UNCHANGED <<signers, bundles, active, revision, told, req, cache>>
    BY <1>3 DEF WriteRollout, agentVars
  <2>8. \A f \in Environments : References(f)'
    <3>1. /\ rollout'[job[a].env].primary = job[a].primary
          /\ rollout'[job[a].env].candidate = job[a].candidate
          /\ \A f \in Environments : f # job[a].env => rollout'[f] = rollout[f]
      BY <1>1, <2>1, <2>5 DEF TypeOK
    <3> HIDE DEF r
    <3>2. \A f \in Environments : References(f) => References(f)'
      BY <2>1, <2>7, <3>1 DEF References, Published
    <3>3. QED
      BY <1>1, <3>2 DEF TypeOK
  <2>9. gone' \in [Environments -> [Versions -> 0..Forgotten]]
    <3>1. 0 \in 0..Forgotten
      BY ControlPlaneAssumption DEF Forgotten
    <3>2. QED
      BY <1>1, <1>3, <2>1, <3>1 DEF WriteRollout, TypeOK
  <2>10. job' \in [Admins -> Jobs] /\ Quiet
    BY <1>1, <1>3 DEF WriteRollout, TypeOK, Jobs, Followups, Idle, Quiet
  <2>11. TypeOK'
    BY <1>1, <2>6, <2>7, <2>8, <2>9, <2>10 DEF TypeOK
  <2>12. JobsPublished' /\ Locks' /\ RequestsPublished'
    BY <2>7, <2>10, QuietJobs DEF TypeInv, RequestsPublished, Published
  <2>13. QED
    BY <2>11, <2>12 DEF TypeInv
<1>4. ASSUME RolloutConflict(a) PROVE TypeInv'
  <2>1. job' \in [Admins -> Jobs] /\ Quiet
    BY <1>1, <1>4 DEF RolloutConflict, TypeOK, Jobs, Followups, Idle, Quiet
  <2>2. UNCHANGED <<signers, bundles, active, revision, rollout, told, req, cache, gone>>
    BY <1>4 DEF RolloutConflict, agentVars
  <2>3. QED
    BY <1>1, <2>1, <2>2, QuietJobs DEF TypeInv, TypeOK, References, Published, RequestsPublished
<1>5. ASSUME NEW e \in Environments, rollout' = [rollout EXCEPT ![e] = NoRollout],
             UNCHANGED <<signers, bundles, active, revision, told, req, cache, gone>>,
             job' \in [Admins -> Jobs],
             Quiet
      PROVE  TypeInv'
  <2>1. \A f \in Environments : References(f)'
    BY <1>1, <1>5 DEF TypeOK, References, Published
  <2>2. TypeOK'
    BY <1>1, <1>5, <2>1 DEF TypeOK
  <2>3. QED
    BY <1>5, <2>2, QuietJobs DEF TypeInv, Published, RequestsPublished
<1>6. ASSUME RollbackCancel(a) PROVE TypeInv'
  <2>1. job[a].env \in Environments
    BY <1>1, <1>6, JobFields DEF RollbackCancel
  <2>2. job' \in [Admins -> Jobs] /\ Quiet
    BY <1>1, <1>6 DEF RollbackCancel, TypeOK, Jobs, Followups, Idle, Quiet
  <2>3. QED
    BY <1>5, <1>6, <2>1, <2>2 DEF RollbackCancel, agentVars
<1>7. ASSUME NEW e \in Environments, CancelRollout(a, e) PROVE TypeInv'
  BY <1>1, <1>5, <1>7 DEF CancelRollout, adminVars, agentVars, TypeOK, Quiet
<1>8. QED
  BY <1>2, <1>3, <1>4, <1>6, <1>7

\* The version resolve_active picks is stored.
LEMMA AssignedPublished ==
  ASSUME TypeInv, NEW g \in Agents, req[g].op = "resolve"
  PROVE  /\ Assigned(g) \in Versions /\ Published(EnvOf[g], Assigned(g))
         /\ Assigned(g) \in InForce(EnvOf[g]) \cup {req[g].primary}
<1>1. EnvOf[g] \in Environments
  BY ControlPlaneAssumption
<1>2. TypeOK /\ References(EnvOf[g])
  BY <1>1 DEF TypeInv, TypeOK
<1>3. CASE rollout[EnvOf[g]] = NoRollout
  BY <1>2, <1>3, RequestFields DEF Assigned, TypeInv, RequestsPublished
<1>4. CASE rollout[EnvOf[g]] # NoRollout
  BY <1>1, <1>2, <1>4, RolloutFields DEF Assigned, References, InForce
<1>5. QED
  BY <1>3, <1>4

(* Agents change their request and their cache only. *)
LEMMA AgentType ==
  ASSUME TypeInv, NEW g \in Agents, AgentStep(g)
  PROVE  TypeInv'
<1>1. TypeOK
  BY DEF TypeInv
<1>2. EnvOf[g] \in Environments
  BY ControlPlaneAssumption
<1>3. UNCHANGED <<signers, bundles, active, revision, rollout, job, told, gone>>
  BY DEF AgentStep, ReadActive, ResolveActive, Receive, RequestFails, LoadCached, LoadFails, adminVars
<1>4. ASSUME cache' \in [Agents -> CacheFiles \cup {NoBundle}],
             NEW q \in Requests, req' = [req EXCEPT ![g] = q],
             q.op = "resolve" => Published(EnvOf[g], q.primary)
      PROVE  TypeInv'
  <2>1. req' \in [Agents -> Requests] /\ RequestsPublished'
    BY <1>1, <1>3, <1>4 DEF TypeInv, TypeOK, RequestsPublished, Published
  <2>2. QED
    BY <1>1, <1>3, <1>4, <2>1 DEF TypeInv, TypeOK, References, Published, JobsPublished, Locks
<1>6. CASE ReadActive(g)
  <2>1. active[EnvOf[g]] \in Versions /\ Published(EnvOf[g], active[EnvOf[g]])
    BY <1>1, <1>2, <1>6 DEF ReadActive, TypeOK, References
  <2>2. [op |-> "resolve", primary |-> active[EnvOf[g]], waited |-> 0] \in Requests
    BY <2>1, ControlPlaneAssumption DEF Requests
  <2>3. QED
    BY <1>1, <1>4, <1>6, <2>1, <2>2 DEF ReadActive, TypeOK
<1>7. CASE ResolveActive(g)
  <2>1. Assigned(g) \in Versions /\ bundles[EnvOf[g]][Assigned(g)] \in Bundles
    BY <1>1, <1>2, <1>7, AssignedPublished DEF ResolveActive, Published, TypeOK
  <2>2. [op |-> "answer", version |-> Assigned(g), bundle |-> bundles[EnvOf[g]][Assigned(g)],
         waited |-> req[g].waited] \in Requests
    BY <1>1, <1>7, <2>1, RequestFields DEF ResolveActive, Requests
  <2>3. QED
    BY <1>1, <1>4, <1>7, <2>2 DEF ResolveActive, TypeOK
<1>8. CASE Receive(g)
  <2>1. [version |-> req[g].version, bundle |-> req[g].bundle, age |-> 0] \in CacheFiles
    BY <1>1, <1>8, RequestFields, ControlPlaneAssumption DEF Receive, CacheFiles
  <2>2. Idle \in Requests /\ Idle.op = "idle"
    BY DEF Idle, Requests
  <2>3. QED
    BY <1>1, <1>4, <1>8, <2>1, <2>2 DEF Receive, TypeOK
<1>9. CASE RequestFails(g) \/ LoadCached(g) \/ LoadFails(g)
  <2>1. Idle \in Requests /\ Idle.op = "idle" /\ [op |-> "failed"] \in Requests
    BY DEF Idle, Requests
  <2>2. QED
    BY <1>1, <1>4, <1>9, <2>1 DEF RequestFails, LoadCached, LoadFails, TypeOK
<1>10. QED
  BY <1>6, <1>7, <1>8, <1>9 DEF AgentStep

(* The clock and a restart. *)
LEMMA ExternalType ==
  ASSUME TypeInv, Tick \/ \E S \in SignerSets : Restart(S)
  PROVE  TypeInv'
<1>1. TypeOK
  BY DEF TypeInv
<1>2. ASSUME NEW S \in SignerSets, Restart(S) PROVE TypeInv'
  BY <1>1, <1>2, ControlPlaneAssumption
     DEF Restart, TypeInv, TypeOK, References, Published, JobsPublished, Locks, RequestsPublished,
         agentVars, Jobs, Followups, Idle
<1>3. CASE Tick
  <2>1. UNCHANGED <<signers, bundles, active, revision, rollout, job, told>>
    BY <1>3 DEF Tick, adminVars
  <2>2. ASSUME NEW g \in Agents PROVE req'[g] \in Requests
    <3>1. CASE req[g].op = "resolve"
      <4>1. req[g] \in [op : {"resolve"}, primary : Versions, waited : 0..RequestTicks]
        BY <1>1, <3>1 DEF TypeOK, Requests
      <4>2. req[g].waited + 1 \in 0..RequestTicks
        BY <1>3, <3>1, <4>1, ControlPlaneAssumption DEF Tick
      <4>3. req'[g] = [req[g] EXCEPT !.waited = req[g].waited + 1]
        BY <1>3, <3>1 DEF Tick
      <4>4. req'[g] \in [op : {"resolve"}, primary : Versions, waited : 0..RequestTicks]
        BY <4>1, <4>2, <4>3
      <4>5. QED
        BY <4>4 DEF Requests
    <3>2. CASE req[g].op = "answer"
      <4>1. req[g] \in [op : {"answer"}, version : Versions, bundle : Bundles,
                        waited : 0..RequestTicks]
        BY <1>1, <3>2 DEF TypeOK, Requests
      <4>2. req[g].waited + 1 \in 0..RequestTicks
        BY <1>3, <3>2, <4>1, ControlPlaneAssumption DEF Tick
      <4>3. req'[g] = [req[g] EXCEPT !.waited = req[g].waited + 1]
        BY <1>3, <3>2 DEF Tick
      <4>4. req'[g] \in [op : {"answer"}, version : Versions, bundle : Bundles,
                         waited : 0..RequestTicks]
        BY <4>1, <4>2, <4>3
      <4>5. QED
        BY <4>4 DEF Requests
    <3>3. CASE req[g].op \notin {"resolve", "answer"}
      BY <1>1, <1>3, <3>3 DEF Tick, TypeOK
    <3>4. QED
      BY <3>1, <3>2, <3>3
  <2>3. req' \in [Agents -> Requests]
    BY <1>3, <2>2 DEF Tick
  <2>4. ASSUME NEW g \in Agents PROVE cache'[g] \in CacheFiles \cup {NoBundle}
    <3>1. CASE cache[g] = NoBundle
      BY <1>3, <3>1 DEF Tick
    <3>2. CASE cache[g] # NoBundle
      <4>1. cache[g] \in CacheFiles
        BY <1>1, <3>2 DEF TypeOK
      <4>2. UpTo(cache[g].age, MaxStale + 1) \in 0..(MaxStale + 1)
        BY <4>1, ControlPlaneAssumption DEF CacheFiles, UpTo
      <4>3. cache'[g] = [cache[g] EXCEPT !.age = UpTo(cache[g].age, MaxStale + 1)]
        BY <1>3, <3>2 DEF Tick
      <4>4. QED
        BY <4>1, <4>2, <4>3 DEF CacheFiles
    <3>3. QED
      BY <3>1, <3>2
  <2>5. cache' \in [Agents -> CacheFiles \cup {NoBundle}]
    BY <1>3, <2>4 DEF Tick
  <2>6. ASSUME NEW e \in Environments, NEW v \in Versions PROVE gone'[e][v] \in 0..Forgotten
    BY <1>1, <1>3, ControlPlaneAssumption DEF Tick, TypeOK, UpTo, Forgotten
  <2>7. gone' \in [Environments -> [Versions -> 0..Forgotten]]
    BY <1>3, <2>6 DEF Tick
  <2>8. TypeOK'
    BY <1>1, <2>1, <2>3, <2>5, <2>7 DEF TypeOK, References, Published
  <2>9. RequestsPublished'
    BY <1>1, <1>3, <2>1, RequestFields DEF Tick, TypeInv, RequestsPublished, Published
  <2>10. QED
    BY <2>1, <2>8, <2>9 DEF TypeInv, JobsPublished, Locks, Published
<1>4. QED
  BY <1>2, <1>3

(* A read of the revision. *)
LEMMA ReadType ==
  ASSUME TypeInv, NEW e \in Environments, ReadRevision(e)
  PROVE  TypeInv'
<1>1. told' \in [Environments -> [revision : Nat, version : Versions \cup {NoVersion}]]
  BY DEF ReadRevision, TypeInv, TypeOK
<1>2. UNCHANGED <<signers, bundles, active, revision, rollout, job, req, cache, gone>>
  BY DEF ReadRevision, agentVars
<1>3. QED
  BY <1>1, <1>2 DEF TypeInv, TypeOK, References, Published, JobsPublished, Locks, RequestsPublished

(* Every step preserves the types. *)
LEMMA NextType == TypeInv /\ [Next]_vars => TypeInv'
<1>1. SUFFICES ASSUME TypeInv, [Next]_vars PROVE TypeInv'
  OBVIOUS
<1>2. ASSUME NEW a \in Admins, AdminStep(a) PROVE TypeInv'
  <2>1. CASE \E e \in Environments, v \in Versions : Activation(e, v)
    BY <1>1, <2>1, ActivationType
  <2>2. CASE \E e \in Environments, v \in Versions : Preparation(a, e, v)
    BY <1>1, <2>2, PreparationType
  <2>3. QED
    BY <1>1, <1>2, <2>1, <2>2, PublishType, Activations, RolloutType DEF AdminStep
<1>3. CASE UNCHANGED vars
  BY <1>1, <1>3 DEF vars, adminVars, agentVars, TypeInv, TypeOK, References, Published,
                    JobsPublished, Locks, RequestsPublished
<1>4. QED
  BY <1>1, <1>2, <1>3, AgentType, ExternalType, ReadType DEF Next

(* The control plane's types hold, and an environment's active version and  *)
(* its rollout refer to bundles that are stored, however activation,        *)
(* promotion, rollback and rollouts interleave.                             *)
THEOREM TypeCorrect == Spec => []TypeOK
<1>1. TypeInv => TypeOK
  BY DEF TypeInv
<1>2. QED
  BY <1>1, InitType, NextType, PTL DEF Spec

-----------------------------------------------------------------------------
(* Versions are immutable. *)

\* An activation leaves bundles and agents alone.
LEMMA ActivationsApart ==
  ASSUME NEW a \in Admins,
         \/ PromoteActivate(a) \/ Commit(a)
         \/ \E e \in Environments, v \in Versions : RollbackPolicy(a, e, v)
         \/ \E e \in Environments, v \in Versions :
                \E r \in {NoRevision, told[e].revision} : ActivatePolicy(a, e, v, r)
  PROVE  UNCHANGED <<bundles, req, cache>>
<1>1. ASSUME NEW e, NEW v, NEW shown, NEW next, Store(a, e, v, shown, next)
      PROVE  UNCHANGED <<bundles, req, cache>>
  BY <1>1 DEF Store, agentVars
<1>2. CASE PromoteActivate(a)
  BY <1>1, <1>2 DEF PromoteActivate
<1>3. CASE Commit(a)
  BY <1>3 DEF Commit, agentVars
<1>4. CASE \E e \in Environments, v \in Versions : RollbackPolicy(a, e, v)
  <2>1. PICK e, v, next : Store(a, e, v, NoVersion, next)
    BY <1>4 DEF RollbackPolicy
  <2>2. QED
    BY <1>1, <2>1
<1>5. CASE \E e \in Environments, v \in Versions :
                \E r \in {NoRevision, told[e].revision} : ActivatePolicy(a, e, v, r)
  <2>1. PICK e, v, shown : Store(a, e, v, shown, Idle)
    BY <1>5 DEF ActivatePolicy
  <2>2. QED
    BY <1>1, <2>1
<1>6. QED
  BY <1>2, <1>3, <1>4, <1>5

\* A stored bundle stays as it is.
LEMMA BundlesStay ==
  ASSUME TypeInv, [Next]_vars, NEW e \in Environments, NEW v \in Versions, Published(e, v)
  PROVE  bundles'[e][v] = bundles[e][v]
<1>1. TypeOK
  BY DEF TypeInv
<1>2. ASSUME NEW f \in Environments, NEW w \in Versions, NEW b, SaveBundle(f, w, b)
      PROVE  bundles'[e][v] = bundles[e][v]
  BY <1>1, <1>2 DEF SaveBundle, Published, TypeOK
<1>3. ASSUME NEW a \in Admins, AdminStep(a) PROVE bundles'[e][v] = bundles[e][v]
  <2>1. CASE \E p \in Publications : PublishPolicy(a, p)
    BY <1>2, <2>1, ControlPlaneAssumption DEF PublishPolicy
  <2>2. CASE \E p \in Promotions, activate \in BOOLEAN : PromotePolicy(a, p, activate)
    BY <1>2, <2>2, ControlPlaneAssumption DEF PromotePolicy
  <2>3. QED
    BY <1>3, <2>1, <2>2, ActivationsApart
       DEF AdminStep, CancelRollout, ReadForRollout, RollbackCancel, WriteRollout, RolloutConflict
<1>4. CASE UNCHANGED bundles
  BY <1>4
<1>5. QED
  BY <1>3, <1>4 DEF Next, vars, ReadRevision, AgentStep, ReadActive, ResolveActive, Receive,
                    RequestFails, LoadCached, LoadFails, Restart, Tick

\* Administrators, reads of the revision and restarts leave agents alone.
LEMMA AgentsApart ==
  ASSUME [Next]_vars, ~(\E g \in Agents : AgentStep(g)), ~Tick
  PROVE  UNCHANGED <<req, cache>>
<1>1. ASSUME NEW a \in Admins, AdminStep(a) PROVE UNCHANGED <<req, cache>>
  BY <1>1, ActivationsApart DEF AdminStep, PublishPolicy, PromotePolicy, CancelRollout, ReadForRollout,
                                RollbackCancel, WriteRollout, RolloutConflict, agentVars
<1>2. QED
  BY <1>1 DEF Next, vars, agentVars, ReadRevision, Restart

\* What the clock leaves alone of a request ...
LEMMA TickRequest ==
  ASSUME TypeOK, Tick, NEW g \in Agents
  PROVE  /\ req'[g].op = req[g].op
         /\ req[g].op = "resolve" => /\ req'[g].primary = req[g].primary
                                     /\ req'[g].waited = req[g].waited + 1
         /\ req[g].op = "answer" => /\ req'[g].version = req[g].version
                                    /\ req'[g].bundle = req[g].bundle
                                    /\ req'[g].waited = req[g].waited + 1
<1>1. CASE req[g].op = "resolve"
  <2>1. req[g] \in [op : {"resolve"}, primary : Versions, waited : 0..RequestTicks]
    BY <1>1 DEF TypeOK, Requests
  <2>2. req'[g] = [req[g] EXCEPT !.waited = req[g].waited + 1]
    BY <1>1 DEF Tick
  <2>3. QED
    BY <1>1, <2>1, <2>2
<1>2. CASE req[g].op = "answer"
  <2>1. req[g] \in [op : {"answer"}, version : Versions, bundle : Bundles, waited : 0..RequestTicks]
    BY <1>2 DEF TypeOK, Requests
  <2>2. req'[g] = [req[g] EXCEPT !.waited = req[g].waited + 1]
    BY <1>2 DEF Tick
  <2>3. QED
    BY <1>2, <2>1, <2>2
<1>3. CASE req[g].op \notin {"resolve", "answer"}
  BY <1>3 DEF Tick
<1>4. QED
  BY <1>1, <1>2, <1>3

\* ... and of a cached file.
LEMMA TickCache ==
  ASSUME TypeOK, Tick, NEW g \in Agents
  PROVE  IF cache[g] = NoBundle THEN cache'[g] = NoBundle
         ELSE /\ cache'[g].version = cache[g].version
              /\ cache'[g].bundle = cache[g].bundle
              /\ cache'[g].age = UpTo(cache[g].age, MaxStale + 1)
<1>1. CASE cache[g] # NoBundle
  <2>1. cache[g] \in CacheFiles
    BY <1>1 DEF TypeOK
  <2>2. cache'[g] = [cache[g] EXCEPT !.age = UpTo(cache[g].age, MaxStale + 1)]
    BY <1>1 DEF Tick
  <2>3. QED
    BY <1>1, <2>1, <2>2 DEF CacheFiles
<1>2. CASE cache[g] = NoBundle
  BY <1>2 DEF Tick
<1>3. QED
  BY <1>1, <1>2

\* Agents get bundles from the store, which never changes one.
LEMMA NextImmutable == TypeInv /\ OnePolicyPerVersion /\ [Next]_vars => OnePolicyPerVersion'
<1>1. SUFFICES ASSUME TypeInv, OnePolicyPerVersion, [Next]_vars, NEW g \in Agents
      PROVE  /\ req'[g].op = "answer" => bundles'[EnvOf[g]][req'[g].version] = req'[g].bundle
             /\ cache'[g] # NoBundle => bundles'[EnvOf[g]][cache'[g].version] = cache'[g].bundle
  BY DEF OnePolicyPerVersion
<1>2. TypeOK /\ EnvOf[g] \in Environments /\ NoBundle \notin Bundles
  BY <1>1, ControlPlaneAssumption DEF TypeInv
<1>3. req[g].op = "answer" => /\ bundles[EnvOf[g]][req[g].version] = req[g].bundle
                              /\ bundles'[EnvOf[g]][req[g].version] = req[g].bundle
  BY <1>1, <1>2, RequestFields, BundlesStay DEF OnePolicyPerVersion, Published
<1>4. cache[g] # NoBundle => bundles'[EnvOf[g]][cache[g].version] = cache[g].bundle
  <2>1. SUFFICES ASSUME cache[g] # NoBundle
        PROVE  bundles'[EnvOf[g]][cache[g].version] = cache[g].bundle
    OBVIOUS
  <2>2. cache[g].version \in Versions /\ cache[g].bundle \in Bundles
    BY <1>2, <2>1 DEF TypeOK, CacheFiles
  <2>3. QED
    BY <1>1, <1>2, <2>1, <2>2, BundlesStay DEF OnePolicyPerVersion, Published
<1>5. CASE req'[g] = req[g] /\ cache'[g] = cache[g]
  BY <1>3, <1>4, <1>5
<1>6. CASE Tick
  BY <1>2, <1>3, <1>4, <1>6, TickRequest, TickCache
<1>7. ASSUME NEW h \in Agents, AgentStep(h), h # g PROVE req'[g] = req[g] /\ cache'[g] = cache[g]
  BY <1>2, <1>7 DEF AgentStep, ReadActive, ResolveActive, Receive, RequestFails, LoadCached, LoadFails,
                    TypeOK
<1>8. CASE AgentStep(g)
  <2>1. CASE ResolveActive(g)
    <3>1. Assigned(g) \in Versions /\ Published(EnvOf[g], Assigned(g))
      BY <1>1, <2>1, AssignedPublished DEF ResolveActive
    <3>2. bundles'[EnvOf[g]][Assigned(g)] = bundles[EnvOf[g]][Assigned(g)]
      BY <1>1, <1>2, <3>1, BundlesStay
    <3>3. req'[g].version = Assigned(g) /\ req'[g].bundle = bundles[EnvOf[g]][Assigned(g)]
      BY <1>2, <2>1 DEF ResolveActive, TypeOK
    <3>4. cache'[g] = cache[g]
      BY <2>1 DEF ResolveActive
    <3>5. QED
      BY <1>4, <3>2, <3>3, <3>4
  <2>2. CASE Receive(g)
    <3>1. cache'[g] = [version |-> req[g].version, bundle |-> req[g].bundle, age |-> 0]
      BY <1>2, <2>2 DEF Receive, TypeOK
    <3>2. req'[g].op = "idle" /\ req[g].op = "answer"
      BY <1>2, <2>2 DEF Receive, TypeOK, Idle
    <3>3. QED
      BY <1>3, <3>1, <3>2
  <2>3. CASE ReadActive(g) \/ RequestFails(g) \/ LoadCached(g) \/ LoadFails(g)
    <3>1. cache'[g] = cache[g] /\ req'[g].op # "answer"
      BY <1>2, <2>3 DEF ReadActive, RequestFails, LoadCached, LoadFails, TypeOK, Idle
    <3>2. QED
      BY <1>4, <3>1
  <2>4. QED
    BY <1>8, <2>1, <2>2, <2>3 DEF AgentStep
<1>9. QED
  BY <1>1, <1>5, <1>6, <1>7, <1>8, AgentsApart

(* A version is immutable: what an agent has been sent or has cached as a   *)
(* version is what policy_bundles holds as that version, since save_bundle  *)
(* refuses one that exists, whoever publishes or promotes it.               *)
THEOREM ImmutableVersions == Spec => []OnePolicyPerVersion
<1>1. Init => OnePolicyPerVersion
  BY DEF Init, OnePolicyPerVersion, Idle
<1>2. QED
  BY <1>1, InitType, NextType, NextImmutable, PTL DEF Spec

-----------------------------------------------------------------------------
(* Activations. *)

\* Only an activation changes what is active, only its statements what waits
\* for a commit, and only a read what was told.
LEMMA ActiveSteps ==
  ASSUME TypeInv, [Next]_vars
  PROVE  \/ \E e \in Environments, v \in Versions : Activation(e, v)
         \/ \E a \in Admins, e \in Environments, v \in Versions : Preparation(a, e, v)
         \/ \E e \in Environments : ReadRevision(e)
         \/ /\ UNCHANGED <<active, revision, told>>
            /\ \A x \in Admins : job'[x].op = "commit" => job'[x] = job[x]
<1>1. TypeOK
  BY DEF TypeInv
<1>3. Idle.op = "idle"
  BY DEF Idle
<1>4. ASSUME NEW a \in Admins, AdminStep(a)
      PROVE  \/ \E e \in Environments, v \in Versions : Activation(e, v)
             \/ \E e \in Environments, v \in Versions : Preparation(a, e, v)
             \/ /\ UNCHANGED <<active, revision, told>>
                /\ \A x \in Admins : job'[x].op = "commit" => job'[x] = job[x]
  <2>1. CASE \/ \E p \in Publications : PublishPolicy(a, p)
             \/ \E e \in Environments : CancelRollout(a, e)
    BY <2>1 DEF PublishPolicy, CancelRollout, adminVars
  <2>2. CASE \E p \in Promotions, activate \in BOOLEAN : PromotePolicy(a, p, activate)
    <3>1. PICK p \in Promotions, activate \in BOOLEAN : PromotePolicy(a, p, activate)
      BY <2>2
    <3>2. \/ job' = [job EXCEPT ![a] = [op |-> "promote", env |-> p.env, version |-> p.version]]
          \/ job' = [job EXCEPT ![a] = Idle]
      BY <3>1, Zenon DEF PromotePolicy
    <3>3. \A x \in Admins : job'[x].op = "commit" => job'[x] = job[x]
      BY <1>1, <1>3, <3>2 DEF TypeOK
    <3>4. QED
      BY <3>1, <3>3 DEF PromotePolicy
  <2>3. CASE \E e \in Environments, v \in Versions : ReadForRollout(a, e, v)
    BY <1>1, <2>3 DEF ReadForRollout, TypeOK
  <2>4. CASE RollbackCancel(a) \/ RolloutConflict(a) \/ \E C \in SUBSET Agents : WriteRollout(a, C)
    BY <1>1, <1>3, <2>4 DEF RollbackCancel, RolloutConflict, WriteRollout, TypeOK
  <2>5. QED
    BY <1>4, <2>1, <2>2, <2>3, <2>4, Activations DEF AdminStep
<1>5. ASSUME NEW g \in Agents, AgentStep(g) PROVE UNCHANGED <<active, revision, told, job>>
  BY <1>5 DEF AgentStep, ReadActive, ResolveActive, Receive, RequestFails, LoadCached, LoadFails,
              adminVars
<1>6. ASSUME NEW S \in SignerSets, Restart(S)
      PROVE  UNCHANGED <<active, revision, told>> /\ \A x \in Admins : job'[x].op # "commit"
  BY <1>3, <1>6 DEF Restart
<1>7. QED
  BY <1>4, <1>5, <1>6 DEF Next, vars, adminVars, Tick

\* The revision that was told is at most the present one, and while it is
\* the present one the version is active.
ToldCurrent ==
    \A e \in Environments :
        /\ told[e].revision <= revision[e]
        /\ told[e].revision = revision[e] => told[e].version = active[e]

\* What an activation that waits for its commit was shown is still active.
ShownActive ==
    \A a \in Admins : job[a].op = "commit" /\ job[a].shown # NoVersion =>
        active[job[a].env] = job[a].shown

\* An activation leaves older revisions behind.
LEMMA NextTold == TypeInv /\ ToldCurrent /\ [Next]_vars => ToldCurrent'
<1>1. SUFFICES ASSUME TypeInv, ToldCurrent, [Next]_vars, NEW f \in Environments
      PROVE  /\ told'[f].revision <= revision'[f]
             /\ told'[f].revision = revision'[f] => told'[f].version = active'[f]
  BY DEF ToldCurrent
<1>2. TypeOK /\ told[f].revision \in Nat /\ revision[f] \in Nat
  BY <1>1 DEF TypeInv, TypeOK
<1>3. ASSUME NEW e \in Environments, NEW v \in Versions, Activation(e, v)
      PROVE  /\ told'[f].revision <= revision'[f]
             /\ told'[f].revision = revision'[f] => told'[f].version = active'[f]
  <2>1. told' = told /\ active' = [active EXCEPT ![e] = v] /\ revision' = [revision EXCEPT ![e] = @ + 1]
    BY <1>3 DEF Activation, Activate
  <2>2. CASE f = e
    <3>1. revision'[f] = revision[f] + 1
      BY <1>2, <2>1, <2>2 DEF TypeOK
    <3>2. QED
      BY <1>1, <1>2, <2>1, <3>1 DEF ToldCurrent
  <2>3. CASE f # e
    BY <1>1, <1>2, <2>1, <2>3 DEF ToldCurrent, TypeOK
  <2>4. QED
    BY <2>2, <2>3
<1>4. ASSUME NEW e \in Environments, ReadRevision(e)
      PROVE  /\ told'[f].revision <= revision'[f]
             /\ told'[f].revision = revision'[f] => told'[f].version = active'[f]
  BY <1>1, <1>2, <1>4 DEF ReadRevision, ToldCurrent, TypeOK
<1>5. CASE UNCHANGED <<active, revision, told>>
  BY <1>1, <1>5 DEF ToldCurrent
<1>6. QED
  BY <1>1, <1>3, <1>4, <1>5, ActiveSteps DEF Preparation

\* The row is locked until the commit.
LEMMA NextShown == TypeInv /\ ToldCurrent /\ ShownActive /\ [Next]_vars => ShownActive'
<1>1. SUFFICES ASSUME TypeInv, ToldCurrent, ShownActive, [Next]_vars, NEW b \in Admins,
                      job'[b].op = "commit", job'[b].shown # NoVersion
      PROVE  active'[job'[b].env] = job'[b].shown
  BY DEF ShownActive
<1>2. TypeOK
  BY <1>1 DEF TypeInv
<1>3. ASSUME NEW e \in Environments, NEW v \in Versions, Activation(e, v)
      PROVE  active'[job'[b].env] = job'[b].shown
  <2>1. job'[b] = job[b] /\ job[b].env # e /\ job[b].env \in Environments
    BY <1>1, <1>2, <1>3, JobFields DEF Activation, Quiet
  <2>2. active' = [active EXCEPT ![e] = v]
    BY <1>3 DEF Activation, Activate
  <2>3. active'[job[b].env] = active[job[b].env]
    BY <1>2, <2>1, <2>2 DEF TypeOK
  <2>4. QED
    BY <1>1, <2>1, <2>3 DEF ShownActive
<1>4. ASSUME NEW a \in Admins, NEW e \in Environments, NEW v \in Versions, Preparation(a, e, v)
      PROVE  active'[job'[b].env] = job'[b].shown
  BY <1>1, <1>4 DEF Preparation, RevisionMatches, ToldCurrent, ShownActive
<1>5. CASE \E e \in Environments : ReadRevision(e)
  BY <1>1, <1>5 DEF ReadRevision, ShownActive
<1>6. CASE UNCHANGED active /\ \A x \in Admins : job'[x].op = "commit" => job'[x] = job[x]
  BY <1>1, <1>6 DEF ShownActive
<1>7. QED
  BY <1>1, <1>3, <1>4, <1>5, <1>6, ActiveSteps

(* An activation with the revision an administrator was told replaces the   *)
(* version that was active when it was read: the store's WHERE revision =   *)
(* expected rejects every lost update, and PostgreSQL's row lock keeps the  *)
(* version until the commit.                                                *)
THEOREM NoLostUpdates == Spec => NoLostActivation
<1>1. Init => ToldCurrent /\ ShownActive
  BY DEF Init, ToldCurrent, ShownActive, Idle
<1>2. TypeInv /\ ToldCurrent /\ ShownActive =>
        \A a \in Admins :
            /\ \A e \in Environments, v \in Versions :
                ActivatePolicy(a, e, v, told[e].revision) => active[e] = told[e].version
            /\ Commit(a) /\ job[a].shown # NoVersion => active[job[a].env] = job[a].shown
  BY ControlPlaneAssumption DEF ActivatePolicy, RevisionMatches, TypeInv, TypeOK, ToldCurrent,
                                Commit, ShownActive
<1>3. QED
  BY <1>1, <1>2, InitType, NextType, NextTold, NextShown, PTL DEF Spec, NoLostActivation

-----------------------------------------------------------------------------
(* Staleness. *)

\* What is in force has not been gone, and what is on its way to an agent or
\* in its cache has been gone no longer than it has been there.
InForceNow == \A e \in Environments, v \in Versions : v \in InForce(e) => gone[e][v] = 0
RequestsFresh ==
    \A g \in Agents :
        /\ req[g].op = "resolve" => gone[EnvOf[g]][req[g].primary] <= req[g].waited
        /\ req[g].op = "answer" => gone[EnvOf[g]][req[g].version] <= req[g].waited
CachesFresh ==
    \A g \in Agents : cache[g] # NoBundle =>
        gone[EnvOf[g]][cache[g].version] <= cache[g].age + RequestTicks

StaleInv == InForceNow /\ RequestsFresh /\ CachesFresh

\* The steps of administrators: what comes into force is no longer gone, and
\* what goes out of force starts to be.
Administration ==
    /\ UNCHANGED <<req, cache>>
    /\ gone' \in [Environments -> [Versions -> 0..Forgotten]]
    /\ \A e \in Environments, v \in Versions :
        /\ gone'[e][v] = gone[e][v] \/ gone'[e][v] = 0
        /\ v \in InForce(e)' => v \in InForce(e) \/ gone'[e][v] = 0

\* Such a step only brings versions closer.
LEMMA AdministrationFresh == ASSUME TypeInv, StaleInv, Administration PROVE StaleInv'
<1>1. TypeOK
  BY DEF TypeInv
<1>2. gone \in [Environments -> [Versions -> 0..Forgotten]] /\ Forgotten \in Nat /\ RequestTicks \in Nat
  BY <1>1, ControlPlaneAssumption DEF TypeOK, Forgotten
<1>3. InForceNow'
  BY <1>2 DEF StaleInv, InForceNow, Administration
<1>4. ASSUME NEW e \in Environments, NEW v \in Versions, NEW n \in Nat, gone[e][v] <= n
      PROVE  gone'[e][v] <= n
  BY <1>2, <1>4 DEF Administration
<1>5. RequestsFresh'
  <2>1. SUFFICES ASSUME NEW g \in Agents
        PROVE  /\ req[g].op = "resolve" => gone'[EnvOf[g]][req[g].primary] <= req[g].waited
               /\ req[g].op = "answer" => gone'[EnvOf[g]][req[g].version] <= req[g].waited
    BY DEF RequestsFresh, Administration
  <2>2. EnvOf[g] \in Environments
    BY ControlPlaneAssumption
  <2>3. req[g].op \in {"resolve", "answer"} => req[g].waited \in Nat
    BY <1>1, <1>2, RequestFields
  <2>4. QED
    BY <1>1, <1>4, <2>2, <2>3, RequestFields DEF StaleInv, RequestsFresh
<1>6. CachesFresh'
  <2>1. SUFFICES ASSUME NEW g \in Agents, cache[g] # NoBundle
        PROVE  gone'[EnvOf[g]][cache[g].version] <= cache[g].age + RequestTicks
    BY DEF CachesFresh, Administration
  <2>2. EnvOf[g] \in Environments
    BY ControlPlaneAssumption
  <2>3. cache[g].version \in Versions /\ cache[g].age + RequestTicks \in Nat
    BY <1>1, <1>2, <2>1, ControlPlaneAssumption DEF TypeOK, CacheFiles
  <2>4. QED
    BY <1>4, <2>1, <2>2, <2>3 DEF StaleInv, CachesFresh
<1>7. QED
  BY <1>3, <1>5, <1>6 DEF StaleInv

\* Every step but the agents' and the clock's is of that kind.
LEMMA Administrations ==
  ASSUME TypeInv, TypeInv', [Next]_vars, ~(\E g \in Agents : AgentStep(g)), ~Tick
  PROVE  Administration
<1>1. TypeOK /\ TypeOK'
  BY DEF TypeInv
<1>2. UNCHANGED <<req, cache>> /\ gone' \in [Environments -> [Versions -> 0..Forgotten]]
  BY <1>1, AgentsApart DEF TypeOK
<1>3. ASSUME UNCHANGED <<active, gone>>,
             \A e \in Environments : rollout'[e] = rollout[e] \/ rollout'[e] = NoRollout
      PROVE  Administration
  BY <1>2, <1>3 DEF Administration, InForce
<1>4. ASSUME NEW e \in Environments, NEW v \in Versions, Activation(e, v) PROVE Administration
  <2>1. /\ active' = [active EXCEPT ![e] = v]
        /\ \A f \in Environments : rollout'[f] = rollout[f] \/ rollout'[f] = NoRollout
        /\ gone' = [gone EXCEPT ![e][v] = 0]
    BY <1>1, <1>4 DEF Activation, Activate, TypeOK
  <2>2. ASSUME NEW f \in Environments, NEW w \in Versions
        PROVE  /\ gone'[f][w] = gone[f][w] \/ gone'[f][w] = 0
               /\ w \in InForce(f)' => w \in InForce(f) \/ gone'[f][w] = 0
    BY <1>1, <2>1 DEF TypeOK, InForce
  <2>3. QED
    BY <1>2, <2>2 DEF Administration
<1>5. ASSUME NEW a \in Admins, NEW C \in SUBSET Agents, WriteRollout(a, C) PROVE Administration
  <2>1. job[a].env \in Environments /\ job[a].primary \in Versions /\ job[a].candidate \in Versions
    BY <1>1, <1>5, JobFields DEF WriteRollout
  <2>2. /\ rollout'[job[a].env].primary = job[a].primary
        /\ rollout'[job[a].env].candidate = job[a].candidate
        /\ \A f \in Environments : f # job[a].env => rollout'[f] = rollout[f]
        /\ active' = active
    BY <1>1, <1>5, <2>1 DEF WriteRollout, TypeOK
  <2>3. gone' = [gone EXCEPT ![job[a].env][job[a].primary] = 0, ![job[a].env][job[a].candidate] = 0]
    BY <1>5 DEF WriteRollout
  <2>4. /\ gone'[job[a].env][job[a].primary] = 0 /\ gone'[job[a].env][job[a].candidate] = 0
        /\ \A f \in Environments, w \in Versions : gone'[f][w] = gone[f][w] \/ gone'[f][w] = 0
    BY <1>1, <2>1, <2>3 DEF TypeOK
  <2>5. ASSUME NEW f \in Environments, NEW w \in Versions
        PROVE  w \in InForce(f)' => w \in InForce(f) \/ gone'[f][w] = 0
    BY <2>1, <2>2, <2>4 DEF InForce
  <2>6. QED
    BY <1>2, <2>4, <2>5 DEF Administration
<1>6. ASSUME NEW a \in Admins, AdminStep(a) PROVE Administration
  <2>1. ASSUME NEW e, rollout' = [rollout EXCEPT ![e] = NoRollout], UNCHANGED <<active, gone>>
        PROVE  Administration
    BY <1>1, <1>3, <2>1 DEF TypeOK
  <2>2. CASE RollbackCancel(a) \/ \E e \in Environments : CancelRollout(a, e)
    BY <2>1, <2>2 DEF RollbackCancel, CancelRollout
  <2>3. CASE \/ \E p \in Publications : PublishPolicy(a, p)
             \/ \E p \in Promotions, activate \in BOOLEAN : PromotePolicy(a, p, activate)
             \/ \E e \in Environments, v \in Versions : ReadForRollout(a, e, v)
             \/ RolloutConflict(a)
    BY <1>3, <2>3 DEF PublishPolicy, PromotePolicy, ReadForRollout, RolloutConflict
  <2>4. ASSUME NEW e \in Environments, NEW v \in Versions, Preparation(a, e, v) PROVE Administration
    BY <1>3, <2>4 DEF Preparation
  <2>5. QED
    BY <1>4, <1>5, <1>6, <2>2, <2>3, <2>4, Activations DEF AdminStep
<1>7. QED
  BY <1>3, <1>6 DEF Next, vars, Restart, ReadRevision

\* A version an agent reads is in force, or was when the request began.
LEMMA AgentFresh == ASSUME TypeInv, StaleInv, NEW g \in Agents, AgentStep(g) PROVE StaleInv'
<1>1. TypeOK /\ EnvOf[g] \in Environments /\ RequestTicks \in Nat
  BY ControlPlaneAssumption DEF TypeInv
<1>2. UNCHANGED <<active, rollout, gone>>
  BY DEF AgentStep, ReadActive, ResolveActive, Receive, RequestFails, LoadCached, LoadFails
<1>3. InForceNow'
  BY <1>2 DEF StaleInv, InForceNow, InForce
<1>4. \A h \in Agents : h # g => req'[h] = req[h] /\ cache'[h] = cache[h]
  BY <1>1 DEF AgentStep, ReadActive, ResolveActive, Receive, RequestFails, LoadCached, LoadFails, TypeOK
<1>5. /\ req'[g].op = "resolve" => gone[EnvOf[g]][req'[g].primary] <= req'[g].waited
      /\ req'[g].op = "answer" => gone[EnvOf[g]][req'[g].version] <= req'[g].waited
  <2>1. CASE ReadActive(g)
    <3>1. req'[g] = [op |-> "resolve", primary |-> active[EnvOf[g]], waited |-> 0]
      BY <1>1, <2>1 DEF ReadActive, TypeOK
    <3>2. active[EnvOf[g]] \in Versions /\ active[EnvOf[g]] \in InForce(EnvOf[g])
      BY <1>1, <2>1 DEF ReadActive, TypeOK, InForce
    <3>3. gone[EnvOf[g]][active[EnvOf[g]]] = 0
      BY <1>1, <3>2 DEF StaleInv, InForceNow
    <3>4. QED
      BY <3>1, <3>3
  <2>2. CASE ResolveActive(g)
    <3>1. req'[g].op = "answer" /\ req'[g].version = Assigned(g) /\ req'[g].waited = req[g].waited
      BY <1>1, <2>2 DEF ResolveActive, TypeOK
    <3>2. req[g].op = "resolve" /\ req[g].waited \in 0..RequestTicks
      BY <1>1, <2>2, RequestFields DEF ResolveActive
    <3>3. Assigned(g) \in Versions /\ Assigned(g) \in InForce(EnvOf[g]) \cup {req[g].primary}
      BY <3>2, AssignedPublished
    <3>4. CASE Assigned(g) \in InForce(EnvOf[g])
      BY <1>1, <3>1, <3>2, <3>3, <3>4 DEF StaleInv, InForceNow
    <3>5. CASE Assigned(g) = req[g].primary
      BY <3>1, <3>2, <3>5 DEF StaleInv, RequestsFresh
    <3>6. QED
      BY <3>3, <3>4, <3>5
  <2>3. CASE Receive(g) \/ RequestFails(g) \/ LoadCached(g) \/ LoadFails(g)
    BY <1>1, <2>3 DEF Receive, RequestFails, LoadCached, LoadFails, TypeOK, Idle
  <2>4. QED
    BY <2>1, <2>2, <2>3 DEF AgentStep
<1>6. cache'[g] # NoBundle => gone[EnvOf[g]][cache'[g].version] <= cache'[g].age + RequestTicks
  <2>1. CASE Receive(g)
    <3>1. cache'[g].version = req[g].version /\ cache'[g].age = 0
      BY <1>1, <2>1 DEF Receive, TypeOK
    <3>2. /\ gone[EnvOf[g]][req[g].version] <= req[g].waited
          /\ req[g].waited \in 0..RequestTicks /\ req[g].version \in Versions
      BY <1>1, <2>1, RequestFields DEF Receive, StaleInv, RequestsFresh
    <3>3. gone[EnvOf[g]][req[g].version] \in Nat
      BY <1>1, <3>2 DEF TypeOK
    <3>4. QED
      BY <1>1, <3>1, <3>2, <3>3
  <2>2. CASE ~Receive(g)
    <3>1. cache' = cache
      BY <2>2 DEF AgentStep, ReadActive, ResolveActive, RequestFails, LoadCached, LoadFails
    <3>2. QED
      BY <3>1 DEF StaleInv, CachesFresh
  <2>3. QED
    BY <2>1, <2>2
<1>7. RequestsFresh'
  BY <1>2, <1>4, <1>5 DEF StaleInv, RequestsFresh
<1>8. CachesFresh'
  BY <1>2, <1>4, <1>6 DEF StaleInv, CachesFresh
<1>9. QED
  BY <1>3, <1>7, <1>8 DEF StaleInv

\* The clock ages requests, cached files and withdrawn versions alike.
LEMMA TickFresh == ASSUME TypeInv, StaleInv, Tick PROVE StaleInv'
<1>1. TypeOK /\ RequestTicks \in Nat /\ MaxStale \in Nat /\ Forgotten = MaxStale + RequestTicks + 1
  BY ControlPlaneAssumption DEF TypeInv, Forgotten
<1>2. UNCHANGED <<active, rollout>>
  BY DEF Tick
<1>3. ASSUME NEW e \in Environments, NEW v \in Versions
      PROVE  /\ gone[e][v] \in 0..Forgotten /\ gone'[e][v] \in 0..Forgotten
             /\ gone'[e][v] <= gone[e][v] + 1
             /\ v \in InForce(e) => gone'[e][v] = 0
  BY <1>1 DEF Tick, TypeOK, UpTo
<1>4. InForceNow'
  BY <1>2, <1>3 DEF InForceNow, InForce
<1>5. ASSUME NEW g \in Agents
      PROVE  /\ req'[g].op = "resolve" => gone'[EnvOf[g]][req'[g].primary] <= req'[g].waited
             /\ req'[g].op = "answer" => gone'[EnvOf[g]][req'[g].version] <= req'[g].waited
  <2>1. EnvOf[g] \in Environments
    BY ControlPlaneAssumption
  <2>2. CASE req[g].op = "resolve"
    <3>1. req[g].primary \in Versions /\ req[g].waited \in Nat
      BY <1>1, <2>2, RequestFields
    <3>2. gone[EnvOf[g]][req[g].primary] <= req[g].waited
      BY <2>2 DEF StaleInv, RequestsFresh
    <3>3. gone'[EnvOf[g]][req[g].primary] <= req[g].waited + 1
      BY <1>1, <1>3, <2>1, <3>1, <3>2
    <3>4. QED
      BY <1>1, <2>2, <3>3, TickRequest
  <2>3. CASE req[g].op = "answer"
    <3>1. req[g].version \in Versions /\ req[g].waited \in Nat
      BY <1>1, <2>3, RequestFields
    <3>2. gone[EnvOf[g]][req[g].version] <= req[g].waited
      BY <2>3 DEF StaleInv, RequestsFresh
    <3>3. gone'[EnvOf[g]][req[g].version] <= req[g].waited + 1
      BY <1>1, <1>3, <2>1, <3>1, <3>2
    <3>4. QED
      BY <1>1, <2>3, <3>3, TickRequest
  <2>4. QED
    BY <1>1, <2>2, <2>3, TickRequest
<1>6. ASSUME NEW g \in Agents, cache'[g] # NoBundle
      PROVE  gone'[EnvOf[g]][cache'[g].version] <= cache'[g].age + RequestTicks
  <2>1. /\ cache[g] # NoBundle /\ cache'[g].version = cache[g].version
        /\ cache'[g].age = UpTo(cache[g].age, MaxStale + 1)
    BY <1>1, <1>6, TickCache
  <2>2. cache[g].version \in Versions /\ cache[g].age \in 0..(MaxStale + 1) /\ EnvOf[g] \in Environments
    BY <1>1, <2>1, ControlPlaneAssumption DEF TypeOK, CacheFiles
  <2>3. gone[EnvOf[g]][cache[g].version] <= cache[g].age + RequestTicks
    BY <2>1 DEF StaleInv, CachesFresh
  <2>4. /\ gone[EnvOf[g]][cache[g].version] \in 0..Forgotten
        /\ gone'[EnvOf[g]][cache[g].version] \in 0..Forgotten
        /\ gone'[EnvOf[g]][cache[g].version] <= gone[EnvOf[g]][cache[g].version] + 1
    BY <1>3, <2>2
  <2>5. QED
    BY <1>1, <2>1, <2>2, <2>3, <2>4 DEF UpTo
<1>7. QED
  BY <1>4, <1>5, <1>6 DEF StaleInv, RequestsFresh, CachesFresh

(* Without allow_stale_on_error no agent is given a policy that has been    *)
(* withdrawn for longer than max_stale_seconds and the time of a request,   *)
(* also when control plane, cache and clock race.                           *)
THEOREM Staleness == Spec => BoundedStaleness
<1>1. Init => StaleInv
  <2>1. SUFFICES ASSUME Init PROVE StaleInv
    OBVIOUS
  <2>2. \A e \in Environments, v \in Versions : v \notin InForce(e)
    BY <2>1, ControlPlaneAssumption DEF Init, InForce
  <2>3. QED
    BY <2>1, <2>2 DEF Init, StaleInv, InForceNow, RequestsFresh, CachesFresh, Idle
<1>2. TypeInv /\ TypeInv' /\ StaleInv /\ [Next]_vars => StaleInv'
  BY AdministrationFresh, Administrations, AgentFresh, TickFresh
<1>3. TypeInv /\ StaleInv =>
        \A g \in Agents :
            /\ Receive(g) => gone[EnvOf[g]][req[g].version] <= RequestTicks
            /\ LoadCached(g) /\ ~AllowStale =>
                gone[EnvOf[g]][cache[g].version] <= MaxStale + RequestTicks
  <2>1. SUFFICES ASSUME TypeInv, StaleInv, NEW g \in Agents
        PROVE  /\ Receive(g) => gone[EnvOf[g]][req[g].version] <= RequestTicks
               /\ LoadCached(g) /\ ~AllowStale =>
                    gone[EnvOf[g]][cache[g].version] <= MaxStale + RequestTicks
    OBVIOUS
  <2>2. /\ TypeOK /\ EnvOf[g] \in Environments /\ RequestTicks \in Nat /\ MaxStale \in Nat
        /\ Forgotten = MaxStale + RequestTicks + 1
    BY <2>1, ControlPlaneAssumption DEF TypeInv, Forgotten
  <2>3. ASSUME Receive(g) PROVE gone[EnvOf[g]][req[g].version] <= RequestTicks
    <3>1. /\ gone[EnvOf[g]][req[g].version] <= req[g].waited
          /\ req[g].waited \in 0..RequestTicks /\ req[g].version \in Versions
      BY <2>1, <2>2, <2>3, RequestFields DEF Receive, StaleInv, RequestsFresh
    <3>2. gone[EnvOf[g]][req[g].version] \in Nat
      BY <2>2, <3>1 DEF TypeOK
    <3>3. QED
      BY <2>2, <3>1, <3>2
  <2>4. ASSUME LoadCached(g), ~AllowStale
        PROVE  gone[EnvOf[g]][cache[g].version] <= MaxStale + RequestTicks
    <3>1. cache[g] # NoBundle /\ cache[g].age <= MaxStale
      BY <2>4 DEF LoadCached, Fresh
    <3>2. cache[g].age \in Nat /\ cache[g].version \in Versions
      BY <2>2, <3>1 DEF TypeOK, CacheFiles
    <3>3. gone[EnvOf[g]][cache[g].version] <= cache[g].age + RequestTicks
      BY <2>1, <3>1 DEF StaleInv, CachesFresh
    <3>4. gone[EnvOf[g]][cache[g].version] \in Nat
      BY <2>2, <3>2 DEF TypeOK
    <3>5. QED
      BY <2>2, <3>1, <3>2, <3>3, <3>4
  <2>5. QED
    BY <2>3, <2>4
<1>4. QED
  BY <1>1, <1>2, <1>3, InitType, NextType, PTL DEF Spec, BoundedStaleness
=============================================================================
