----------------------------- MODULE Approvals -----------------------------
(***************************************************************************)
(* The approval workflow of approvals/base.py: brokers, each in a process  *)
(* of its own with its own cache, over one shared repository (SQLite or    *)
(* PostgreSQL), and the guarded runtime (runtime/context.py) that executes *)
(* a protected action only with a grant.  A broker's lock serialises its   *)
(* own calls, so a broker has at most one job; the repository calls of a   *)
(* job are separate actions, between which other brokers, the clock and a  *)
(* crash can step in.                                                      *)
(***************************************************************************)
EXTENDS Naturals

CONSTANTS
    Brokers,
    Checkpoints,     \* checkpoint ids: one per guarded tool call
    Actions,         \* action digests
    ActionOf,        \* ActionOf[c]: the action digest bound in checkpoint c
    People,
    Approvers,       \* people the authorizer lets decide
    Requester,       \* requested_by, or a value outside People if empty
    CheckpointTTL,   \* approval_ttl_seconds, in clock ticks
    GrantTTLs,       \* the ttl_seconds deciders ask for
    Consumable,      \* TRUE: the PostgreSQL repository, with consume_grant
    Horizon,         \* bound on the clock
    MaxFaults,       \* bound on restarts and failed calls out of a broker
    NoGrant,
    NoOffer

ASSUME ApprovalsAssumption ==
    /\ ActionOf \in [Checkpoints -> Actions]
    /\ Approvers \subseteq People
    /\ CheckpointTTL \in Nat
    /\ GrantTTLs \subseteq Nat
    /\ Consumable \in BOOLEAN
    /\ Horizon \in Nat
    /\ MaxFaults \in Nat

Grants == [action : Actions, by : People, until : Nat, checkpoint : Checkpoints]

\* A grant in the runtime's hands: offered by the broker, or admitted by
\* validate at the time `at`, from when on the handler may run.  History:
\* whether it was already consumed in the repository when it was offered.
Offers == [stage : {"offered", "admitted"}, checkpoint : Checkpoints, grant : Grants,
           at : Nat, spent : BOOLEAN]

ASSUME NullAssumption == NoGrant \notin Grants /\ NoOffer \notin Offers

Decided == {"approved", "denied"}
RecordStatuses == {"none", "pending", "expired"} \cup Decided

VARIABLES
    now,
    made,          \* checkpoints built so far
    expires,       \* expires[c]: expires_at_epoch_ms of checkpoint c
    repoRecord,    \* approval_records: status by checkpoint
    repoGrant,     \* approval_grants: grant by action digest
    consumed,      \* actions whose repository grant has consumed_at_utc set
    memRecord,     \* _records of each broker
    memGrant,      \* _grants of each broker, by checkpoint
    memAction,     \* _approved_actions of each broker, by action
    job,           \* job[b]: the call broker b is in the middle of
    offer,         \* offer[b]: a grant b returned, until the call it is for ends
    decisions,     \* history: decisions saved in the repository
    faults         \* restarts and failed calls so far

repoVars == <<repoRecord, repoGrant, consumed>>
memVars == <<memRecord, memGrant, memAction>>
vars == <<now, made, expires, repoVars, memVars, job, offer, decisions, faults>>

Idle == [op |-> "idle"]

Init ==
    /\ now = 0
    /\ made = {}
    /\ expires = [c \in Checkpoints |-> 0]
    /\ repoRecord = [c \in Checkpoints |-> "none"]
    /\ repoGrant = [a \in Actions |-> NoGrant]
    /\ consumed = {}
    /\ memRecord = [b \in Brokers |-> [c \in Checkpoints |-> "none"]]
    /\ memGrant = [b \in Brokers |-> [c \in Checkpoints |-> NoGrant]]
    /\ memAction = [b \in Brokers |-> [a \in Actions |-> NoGrant]]
    /\ job = [b \in Brokers |-> Idle]
    /\ offer = [b \in Brokers |-> NoOffer]
    /\ decisions = {}
    /\ faults = 0

\* repository.save_record without an expected revision: the last write wins.
SaveRecord(c, s) == repoRecord' = [repoRecord EXCEPT ![c] = s]

\* repository.save_grant replaces the action's grant, consumed or not.
StoreGrant(g) ==
    /\ repoGrant' = [repoGrant EXCEPT ![g.action] = g]
    /\ consumed' = consumed \ {g.action}

Min2(m, n) == IF m <= n THEN m ELSE n

-----------------------------------------------------------------------------
(* The guarded runtime asks for a protected action. *)

\* _approval_checkpoint: each tool call builds its checkpoint.
MakeCheckpoint(c) ==
    /\ c \notin made
    /\ made' = made \cup {c}
    /\ expires' = [expires EXCEPT ![c] = now + CheckpointTTL]
    /\ UNCHANGED <<now, repoVars, memVars, job, offer, decisions, faults>>

\* ApprovalGrant.validate; the mutant leaves out the expiry.
ValidIgnoresExpiry(g, c) == g.action = ActionOf[c] /\ g.checkpoint = c
Valid(g, c) ==
    /\ g.action = ActionOf[c]
    /\ g.checkpoint = c
    /\ now <= g.until

\* repository.get_record and get_grant.
StoredRecord(c) == repoRecord[c]
StoredGrant(a) == IF a \in consumed THEN NoGrant ELSE repoGrant[a]

\* The approved action __call__ looks at: the cached one hides the stored one.
ApprovedAction(b, a) ==
    IF memAction[b][a] # NoGrant THEN memAction[b][a] ELSE StoredGrant(a)

\* The stored grant, bound to checkpoint c and ending with it.
Replay(g, c) ==
    [action |-> ActionOf[c], by |-> g.by, until |-> Min2(g.until, expires[c]), checkpoint |-> c]

\* Grants in use do not interact, so one at a time per broker is enough.
Free(b) == job[b] = Idle /\ offer[b] = NoOffer

Offered(c, g, spent) ==
    [stage |-> "offered", checkpoint |-> c, grant |-> g, at |-> 0, spent |-> spent]

\* The very grant that consume_grant has marked.
Consumed(g) == g.action \in consumed /\ repoGrant[g.action] = g

\* __call__ returns a grant cached for this very checkpoint ...
CallCached(b, c) ==
    /\ Free(b)
    /\ c \in made
    /\ memGrant[b][c] # NoGrant
    /\ Valid(memGrant[b][c], c)
    /\ offer' = [offer EXCEPT ![b] = Offered(c, memGrant[b][c], Consumed(memGrant[b][c]))]
    /\ UNCHANGED <<now, made, expires, repoVars, memVars, job, decisions, faults>>

\* ... or a grant of the same action, bound to this checkpoint ...
CallReplayed(b, c) ==
    LET g == ApprovedAction(b, ActionOf[c]) IN
    /\ Free(b)
    /\ c \in made
    /\ memGrant[b][c] # NoGrant => ~Valid(memGrant[b][c], c)
    /\ g # NoGrant
    /\ now <= g.until
    /\ memGrant' = [memGrant EXCEPT ![b][c] = Replay(g, c)]
    /\ offer' = [offer EXCEPT ![b] = Offered(c, Replay(g, c), Consumed(g))]
    /\ UNCHANGED <<now, made, expires, repoVars, memRecord, memAction, job, decisions, faults>>

\* ... or finds none, forgets what has expired and goes on to the record.
CallMissed(b, c) ==
    LET g == ApprovedAction(b, ActionOf[c]) IN
    /\ Free(b)
    /\ c \in made
    /\ memGrant[b][c] # NoGrant => ~Valid(memGrant[b][c], c)
    /\ g # NoGrant => now > g.until
    /\ memGrant' = [memGrant EXCEPT ![b][c] = NoGrant]
    /\ memAction' = [memAction EXCEPT ![b][ActionOf[c]] = NoGrant]
    /\ job' = [job EXCEPT ![b] = [op |-> "lookup", checkpoint |-> c]]
    /\ UNCHANGED <<now, made, expires, repoVars, memRecord, offer, decisions, faults>>

\* The record of c, from the cache or the repository.
Current(b, c) == IF memRecord[b][c] # "none" THEN memRecord[b][c] ELSE StoredRecord(c)

\* A record exists: __call__ returns False; or a request has to be submitted.
Lookup(b) ==
    /\ job[b].op = "lookup"
    /\ LET c == job[b].checkpoint IN
        /\ memRecord' = [memRecord EXCEPT ![b][c] = Current(b, c)]
        /\ job' = [job EXCEPT ![b] = IF Current(b, c) # "none" THEN Idle
                                     ELSE [op |-> "submit", checkpoint |-> c]]
    /\ UNCHANGED <<now, made, expires, repoVars, memGrant, memAction, offer, decisions, faults>>

\* provider.submit answered, and the pending record is cached and saved.
Submitted(b) ==
    /\ job[b].op = "submit"
    /\ LET c == job[b].checkpoint IN
        /\ memRecord' = [memRecord EXCEPT ![b][c] = "pending"]
        /\ SaveRecord(c, "pending")
    /\ job' = [job EXCEPT ![b] = Idle]
    /\ UNCHANGED <<now, made, expires, repoGrant, consumed, memGrant, memAction,
                   offer, decisions, faults>>

\* A call out of broker b raises.
Fault ==
    /\ faults < MaxFaults
    /\ faults' = faults + 1

\* provider.submit raises and nothing is kept, or save_record raises when
\* the cache has the record already.
SubmitFailed(b) ==
    /\ job[b].op = "submit"
    /\ Fault
    /\ memRecord' \in {memRecord, [memRecord EXCEPT ![b][job[b].checkpoint] = "pending"]}
    /\ job' = [job EXCEPT ![b] = Idle]
    /\ UNCHANGED <<now, made, expires, repoVars, memGrant, memAction, offer, decisions>>

\* _authorize validates the grant it was given.
Admit(b) ==
    /\ offer[b] # NoOffer
    /\ offer[b].stage = "offered"
    /\ Valid(offer[b].grant, offer[b].checkpoint)
    /\ offer' = [offer EXCEPT ![b] = [@ EXCEPT !.stage = "admitted", !.at = now]]
    /\ UNCHANGED <<now, made, expires, repoVars, memVars, job, decisions, faults>>

\* The grant has expired on the way: GuardrailViolation.
Refuse(b) ==
    /\ offer[b] # NoOffer
    /\ offer[b].stage = "offered"
    /\ ~Valid(offer[b].grant, offer[b].checkpoint)
    /\ offer' = [offer EXCEPT ![b] = NoOffer]
    /\ UNCHANGED <<now, made, expires, repoVars, memVars, job, decisions, faults>>

\* Events, limits and the idempotency record follow, and then the handler runs,
\* perhaps much later and again whenever it is retried; the grant is not looked
\* at again.  The call ends with its handler, or before it began.
Execute(b) ==
    /\ offer[b] # NoOffer
    /\ offer[b].stage = "admitted"
    /\ offer' = [offer EXCEPT ![b] = NoOffer]
    /\ UNCHANGED <<now, made, expires, repoVars, memVars, job, decisions, faults>>

-----------------------------------------------------------------------------
(* Approvers decide. *)

\* Authorised, and not the requester.
MayDecide(p) == p \in Approvers /\ p # Requester

\* The record is still pending; the mutant only looks for one that expired.
UndecidedUnlessExpired(b, c) == Current(b, c) \notin {"none", "expired"}
Undecided(b, c) == Current(b, c) = "pending"

\* decide, up to the first repository write.
Decide(b, c, p, verdict, ttl) ==
    /\ job[b] = Idle
    /\ Undecided(b, c)
    /\ now <= expires[c]
    /\ MayDecide(p)
    /\ memRecord' = [memRecord EXCEPT ![b][c] = verdict]
    /\ job' = [job EXCEPT ![b] = [op |-> "decide", checkpoint |-> c, verdict |-> verdict,
                    by |-> p, until |-> Min2(now + ttl, expires[c])]]
    /\ UNCHANGED <<now, made, expires, repoVars, memGrant, memAction, offer, decisions, faults>>

\* decide comes too late; the first check, before authorisation.
DecideExpired(b, c) ==
    /\ job[b] = Idle
    /\ Undecided(b, c)
    /\ now > expires[c]
    /\ memRecord' = [memRecord EXCEPT ![b][c] = "expired"]
    /\ job' = [job EXCEPT ![b] = [op |-> "expire", checkpoint |-> c]]
    /\ UNCHANGED <<now, made, expires, repoVars, memGrant, memAction, offer, decisions, faults>>

\* decide raises: already decided, not authorised, or the requester.  The
\* record it loaded stays cached.
DecideRefused(b, c, p) ==
    /\ job[b] = Idle
    /\ Current(b, c) # "none"
    /\ ~Undecided(b, c) \/ (now <= expires[c] /\ ~MayDecide(p))
    /\ memRecord' = [memRecord EXCEPT ![b][c] = Current(b, c)]
    /\ UNCHANGED <<now, made, expires, repoVars, memGrant, memAction, job, offer, decisions, faults>>

\* repository.save_record(expired).
SaveExpired(b) ==
    /\ job[b].op = "expire"
    /\ SaveRecord(job[b].checkpoint, "expired")
    /\ job' = [job EXCEPT ![b] = Idle]
    /\ UNCHANGED <<now, made, expires, repoGrant, consumed, memVars, offer, decisions, faults>>

DecidedGrant(j) ==
    [action |-> ActionOf[j.checkpoint], by |-> j.by, until |-> j.until, checkpoint |-> j.checkpoint]

\* repository.save_record of the decision, then the grant in the cache.
GrantsOn(verdict) == verdict = "approved"

SaveDecision(b) ==
    /\ job[b].op = "decide"
    /\ LET j == job[b]
           c == j.checkpoint
           g == DecidedGrant(j)
       IN /\ SaveRecord(c, j.verdict)
          /\ decisions' = decisions \cup
                {[checkpoint |-> c, by |-> j.by, verdict |-> j.verdict, until |-> j.until]}
          /\ IF GrantsOn(j.verdict)
             THEN /\ memGrant' = [memGrant EXCEPT ![b][c] = g]
                  /\ memAction' = [memAction EXCEPT ![b][ActionOf[c]] = g]
                  /\ job' = [job EXCEPT ![b] = [op |-> "grant", grant |-> g]]
             ELSE /\ job' = [job EXCEPT ![b] = Idle]
                  /\ UNCHANGED <<memGrant, memAction>>
    /\ UNCHANGED <<now, made, expires, repoGrant, consumed, memRecord, offer, faults>>

\* repository.save_grant, the last step of an approval.
SaveGrant(b) ==
    /\ job[b].op = "grant"
    /\ StoreGrant(job[b].grant)
    /\ job' = [job EXCEPT ![b] = Idle]
    /\ UNCHANGED <<now, made, expires, repoRecord, memVars, offer, decisions, faults>>

\* A repository write of decide raises; what is cached stays cached.
SaveFailed(b) ==
    /\ job[b].op \in {"decide", "expire", "grant"}
    /\ Fault
    /\ job' = [job EXCEPT ![b] = Idle]
    /\ UNCHANGED <<now, made, expires, repoVars, memVars, offer, decisions>>

-----------------------------------------------------------------------------
\* PostgresApprovalRepository.consume_grant, which integrations call.
ConsumeGrant(a) ==
    /\ Consumable
    /\ StoredGrant(a) # NoGrant
    /\ now <= repoGrant[a].until
    /\ consumed' = consumed \cup {a}
    /\ UNCHANGED <<now, made, expires, repoRecord, repoGrant, memVars, job, offer, decisions, faults>>

\* External: the process of broker b is restarted and loses its memory.
Restart(b) ==
    /\ Fault
    /\ memRecord' = [memRecord EXCEPT ![b] = [c \in Checkpoints |-> "none"]]
    /\ memGrant' = [memGrant EXCEPT ![b] = [c \in Checkpoints |-> NoGrant]]
    /\ memAction' = [memAction EXCEPT ![b] = [a \in Actions |-> NoGrant]]
    /\ job' = [job EXCEPT ![b] = Idle]
    /\ offer' = [offer EXCEPT ![b] = NoOffer]
    /\ UNCHANGED <<now, made, expires, repoVars, decisions>>

\* External: the clock advances.
Tick ==
    /\ now < Horizon
    /\ now' = now + 1
    /\ UNCHANGED <<made, expires, repoVars, memVars, job, offer, decisions, faults>>

CallTool(b, c) == CallCached(b, c) \/ CallReplayed(b, c) \/ CallMissed(b, c)

BrokerStep(b) ==
    \/ \E c \in Checkpoints :
        \/ CallTool(b, c)
        \/ \E p \in People : \/ \E v \in Decided, ttl \in GrantTTLs : Decide(b, c, p, v, ttl)
                             \/ DecideRefused(b, c, p)
        \/ DecideExpired(b, c)
    \/ Admit(b) \/ Refuse(b) \/ Execute(b)
    \/ Lookup(b) \/ Submitted(b) \/ SubmitFailed(b)
    \/ SaveExpired(b) \/ SaveDecision(b) \/ SaveGrant(b) \/ SaveFailed(b)
    \/ Restart(b)

Next ==
    \/ \E b \in Brokers : BrokerStep(b)
    \/ \E c \in Checkpoints : MakeCheckpoint(c)
    \/ \E a \in Actions : ConsumeGrant(a)
    \/ Tick

Spec == Init /\ [][Next]_vars

-----------------------------------------------------------------------------
Decisions ==
    [checkpoint : Checkpoints, by : People, verdict : Decided, until : Nat]
Jobs ==
    [op : {"idle"}] \cup [op : {"lookup", "submit", "expire"}, checkpoint : Checkpoints]
    \cup [op : {"decide"}, checkpoint : Checkpoints, verdict : Decided, by : People,
          until : Nat]
    \cup [op : {"grant"}, grant : Grants]

(* Type invariant; a grant cached for a checkpoint names that checkpoint. *)
TypeOK ==
    /\ now \in Nat
    /\ made \subseteq Checkpoints
    /\ expires \in [Checkpoints -> Nat]
    /\ repoRecord \in [Checkpoints -> RecordStatuses]
    /\ repoGrant \in [Actions -> Grants \cup {NoGrant}]
    /\ consumed \subseteq Actions
    /\ memRecord \in [Brokers -> [Checkpoints -> RecordStatuses]]
    /\ memGrant \in [Brokers -> [Checkpoints -> Grants \cup {NoGrant}]]
    /\ memAction \in [Brokers -> [Actions -> Grants \cup {NoGrant}]]
    /\ job \in [Brokers -> Jobs]
    /\ offer \in [Brokers -> Offers \cup {NoOffer}]
    /\ decisions \subseteq Decisions
    /\ faults \in 0..MaxFaults
    /\ \A b \in Brokers, c \in Checkpoints :
        memGrant[b][c] # NoGrant => memGrant[b][c].checkpoint = c

\* p's approval of the action of checkpoint c was on file and in force at t.
Approved(c, p, t) ==
    /\ t <= expires[c]
    /\ \E d \in decisions :
        /\ d.verdict = "approved"
        /\ ActionOf[d.checkpoint] = ActionOf[c]
        /\ d.by = p
        /\ p \in Approvers
        /\ p # Requester
        /\ t <= d.until
        /\ d.until <= expires[d.checkpoint]

\* The runtime has let the call pass: its handler runs, or is about to.
Admitted(b) == offer[b] # NoOffer /\ offer[b].stage = "admitted"

(* "The handler executes only after the grant matches the current action"  *)
(* (ENTERPRISE_ARCHITECTURE.md, approval lifecycle): a handler of a        *)
(* protected action runs only after a saved approval of exactly that action*)
(* given by an authorised person other than the requester, and when the    *)
(* runtime validated it neither the grant nor the approved request nor the *)
(* call's own checkpoint had expired; whichever brokers, caches, restarts  *)
(* and failed writes the grant went through.                               *)
ExecutionsApproved ==
    \A b \in Brokers :
        Admitted(b) => Approved(offer[b].checkpoint, offer[b].grant.by, offer[b].at)

(* "Atomically consume a grant so it cannot authorize a second execution"  *)
(* (approvals/postgres.py:220): no handler runs under a grant that was     *)
(* consumed before the broker handed it out.                               *)
ConsumedIsSpent == \A b \in Brokers : Admitted(b) => ~offer[b].spent

(* "Approval request has already been decided" (approvals/base.py:312): a  *)
(* request is decided at most once.                                        *)
DecidedOnce ==
    \A d, e \in decisions : d.checkpoint = e.checkpoint => d = e
=============================================================================
