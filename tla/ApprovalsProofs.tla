--------------------------- MODULE ApprovalsProofs ---------------------------
(* The approval workflow's safety, for any number of brokers, checkpoints,  *)
(* actions and people, any lifetimes and any pattern of failures.           *)
EXTENDS Approvals, TLAPS

\* A saved approval of the grant's action, by its approver, outlives it.
Covered(g) ==
    \E d \in decisions :
        /\ d.verdict = "approved"
        /\ ActionOf[d.checkpoint] = g.action
        /\ d.by = g.by
        /\ g.until <= d.until

\* Records exist only for checkpoints that were built.
RecordsMade ==
    /\ \A c \in Checkpoints : repoRecord[c] # "none" => c \in made
    /\ \A b \in Brokers, c \in Checkpoints : memRecord[b][c] # "none" => c \in made

\* Whatever was decided was decided by the right people, in time.
DecisionsSound ==
    \A d \in decisions :
        /\ d.checkpoint \in made
        /\ d.by \in Approvers
        /\ d.by # Requester
        /\ d.until <= expires[d.checkpoint]

\* A job's data passed the checks of the step that began it.
JobsSound ==
    \A b \in Brokers :
        /\ job[b].op \in {"lookup", "submit", "expire", "decide"} => job[b].checkpoint \in made
        /\ job[b].op = "decide" =>
            /\ job[b].by \in Approvers
            /\ job[b].by # Requester
            /\ job[b].until <= expires[job[b].checkpoint]
        /\ job[b].op = "grant" => Covered(job[b].grant)

\* Grants kept for an action are covered by an approval of that action.
ActionGrantsSound ==
    /\ \A a \in Actions : repoGrant[a] # NoGrant => repoGrant[a].action = a /\ Covered(repoGrant[a])
    /\ \A b \in Brokers, a \in Actions :
        memAction[b][a] # NoGrant => memAction[b][a].action = a /\ Covered(memAction[b][a])

\* g is covered, is for the action of checkpoint c and ends with c.
FitsCheckpoint(g, c) ==
    /\ c \in made
    /\ g.action = ActionOf[c]
    /\ g.until <= expires[c]
    /\ Covered(g)

\* Grants kept or handed out for a checkpoint fit it, and the runtime let
\* none pass that had expired.
CheckpointGrantsSound ==
    /\ \A b \in Brokers, c \in Checkpoints :
        memGrant[b][c] # NoGrant => FitsCheckpoint(memGrant[b][c], c)
    /\ \A b \in Brokers :
        offer[b] # NoOffer =>
            /\ FitsCheckpoint(offer[b].grant, offer[b].checkpoint)
            /\ offer[b].stage = "admitted" => offer[b].at <= offer[b].grant.until

Inv ==
    /\ TypeOK
    /\ RecordsMade
    /\ DecisionsSound
    /\ JobsSound
    /\ ActionGrantsSound
    /\ CheckpointGrantsSound

-----------------------------------------------------------------------------
(* What the fields of each kind of job are.                                 *)
LEMMA JobFields ==
  ASSUME NEW j \in Jobs
  PROVE  /\ j.op \in {"idle", "lookup", "submit", "expire", "decide", "grant"}
         /\ j.op \in {"lookup", "submit", "expire", "decide"} => j.checkpoint \in Checkpoints
         /\ j.op = "decide" => j.verdict \in Decided /\ j.by \in People /\ j.until \in Nat
         /\ j.op = "grant" => j.grant \in Grants
  BY DEF Jobs

(* What a new job has to be to be a job.                                    *)
LEMMA JobMembers ==
  /\ Idle \in Jobs
  /\ \A c \in Checkpoints, o \in {"lookup", "submit", "expire"} :
        [op |-> o, checkpoint |-> c] \in Jobs
  /\ \A c \in Checkpoints, v \in Decided, p \in People, u \in Nat :
        [op |-> "decide", checkpoint |-> c, verdict |-> v, by |-> p, until |-> u] \in Jobs
  /\ \A g \in Grants : [op |-> "grant", grant |-> g] \in Jobs
  BY DEF Jobs, Idle

(* What the broker hands to the runtime.                                    *)
LEMMA OfferedMembers ==
  ASSUME NEW c \in Checkpoints, NEW g \in Grants, NEW h
  PROVE  \E o \in Offers : /\ o = Offered(c, g, Consumed(h))
                           /\ o.stage = "offered" /\ o.checkpoint = c /\ o.grant = g
<1>1. PICK s \in BOOLEAN : s = Consumed(h)
  BY DEF Consumed
<1>2. Offered(c, g, s) \in Offers
  BY DEF Offered, Offers
<1>3. QED
  BY <1>1, <1>2 DEF Offered

(* The initial state satisfies the inductive invariant. *)
LEMMA InitInv == Init => Inv
<1>1. SUFFICES ASSUME Init PROVE Inv
  OBVIOUS
<1>2. TypeOK
  BY <1>1, JobMembers, ApprovalsAssumption DEF Init, TypeOK, RecordStatuses
<1>3. RecordsMade /\ DecisionsSound
  BY <1>1 DEF Init, RecordsMade, DecisionsSound
<1>4. JobsSound
  BY <1>1 DEF Init, JobsSound, Idle
<1>5. ActionGrantsSound /\ CheckpointGrantsSound
  BY <1>1 DEF Init, ActionGrantsSound, CheckpointGrantsSound
<1>6. QED
  BY <1>2, <1>3, <1>4, <1>5 DEF Inv

(* A new checkpoint does not change the expiry of one that was built.       *)
LEMMA MakeCheckpointInv ==
  ASSUME NEW c \in Checkpoints, Inv, MakeCheckpoint(c)
  PROVE  Inv'
<1>1. /\ UNCHANGED <<now, repoRecord, repoGrant, consumed, memRecord, memGrant, memAction,
                     job, offer, decisions, faults>>
      /\ made' = made \cup {c}
      /\ \A d \in made : expires'[d] = expires[d]
      /\ expires' \in [Checkpoints -> Nat]
  BY ApprovalsAssumption DEF MakeCheckpoint, repoVars, memVars, Inv, TypeOK
<1>2. TypeOK'
  BY <1>1 DEF Inv, TypeOK
<1>3. RecordsMade' /\ DecisionsSound'
  BY <1>1 DEF Inv, RecordsMade, DecisionsSound
<1>4. \A g : Covered(g)' <=> Covered(g)
  BY <1>1 DEF Covered
<1>5. JobsSound'
  BY <1>1, <1>4 DEF Inv, JobsSound
<1>6. ActionGrantsSound'
  BY <1>1, <1>4 DEF Inv, ActionGrantsSound
<1>7. CheckpointGrantsSound'
  BY <1>1, <1>4 DEF Inv, CheckpointGrantsSound, FitsCheckpoint
<1>8. QED
  BY <1>2, <1>3, <1>5, <1>6, <1>7 DEF Inv

(* __call__ hands out grants that fit the checkpoint, cached or replayed.   *)
LEMMA CallToolInv ==
  ASSUME NEW b \in Brokers, NEW c \in Checkpoints, Inv, CallTool(b, c)
  PROVE  Inv'
<1>1. \A g : Covered(g)' <=> Covered(g)
  BY DEF Covered, CallTool, CallCached, CallReplayed, CallMissed
<1>2. /\ UNCHANGED <<now, made, expires, repoRecord, repoGrant, consumed, memRecord, decisions, faults>>
      /\ c \in made
  BY DEF CallTool, CallCached, CallReplayed, CallMissed, repoVars, memVars
<1>3. RecordsMade' /\ DecisionsSound'
  BY <1>2 DEF Inv, RecordsMade, DecisionsSound
<1>4. CASE CallCached(b, c)
  <2>1. /\ UNCHANGED <<memGrant, memAction, job>>
        /\ offer' = [offer EXCEPT ![b] = Offered(c, memGrant[b][c], Consumed(memGrant[b][c]))]
        /\ memGrant[b][c] # NoGrant
    BY <1>4 DEF CallCached, memVars
  <2>2. memGrant[b][c] \in Grants
    BY <2>1 DEF Inv, TypeOK
  <2>o. PICK o \in Offers : /\ o = Offered(c, memGrant[b][c], Consumed(memGrant[b][c]))
                            /\ o.stage = "offered" /\ o.checkpoint = c
                            /\ o.grant = memGrant[b][c]
    BY <2>2, OfferedMembers
  <2>3. TypeOK'
    BY <1>2, <2>1, <2>2, <2>o DEF Inv, TypeOK
  <2>4. JobsSound' /\ ActionGrantsSound'
    BY <1>1, <1>2, <2>1 DEF Inv, JobsSound, ActionGrantsSound
  <2>5. CheckpointGrantsSound'
    BY <1>1, <1>2, <2>1, <2>o DEF Inv, TypeOK, CheckpointGrantsSound, FitsCheckpoint
  <2>6. QED
    BY <1>3, <2>3, <2>4, <2>5 DEF Inv
<1>5. CASE CallReplayed(b, c)
  <2>1. PICK g : /\ g = ApprovedAction(b, ActionOf[c])
                 /\ g # NoGrant
                 /\ memGrant' = [memGrant EXCEPT ![b][c] = Replay(g, c)]
                 /\ offer' = [offer EXCEPT ![b] = Offered(c, Replay(g, c), Consumed(g))]
                 /\ UNCHANGED <<memAction, job>>
    BY <1>5 DEF CallReplayed
  <2>2. ActionOf[c] \in Actions
    BY ApprovalsAssumption
  <2>3. g \in Grants /\ g.action = ActionOf[c] /\ Covered(g)
    BY <2>1, <2>2 DEF Inv, TypeOK, ActionGrantsSound, ApprovedAction, StoredGrant
  <2>4. PICK r : r = Replay(g, c)
    OBVIOUS
  <2>5. r \in Grants
    BY <2>2, <2>3, <2>4 DEF Replay, Grants, Min2, Inv, TypeOK
  <2>o. PICK o \in Offers : /\ o = Offered(c, r, Consumed(g))
                            /\ o.stage = "offered" /\ o.checkpoint = c /\ o.grant = r
    BY <2>5, OfferedMembers
  <2>6. FitsCheckpoint(r, c)'
    <3>1. /\ r.action = ActionOf[c] /\ r.by = g.by
          /\ r.until <= expires[c] /\ r.until <= g.until
          /\ g.until \in Nat /\ r.until \in Nat
      BY <2>3, <2>4, <2>5 DEF Replay, Grants, Min2, Inv, TypeOK
    <3>2. Covered(r)
      BY <2>3, <3>1 DEF Covered, Inv, TypeOK, Decisions
    <3>3. QED
      BY <1>1, <1>2, <3>1, <3>2 DEF FitsCheckpoint
  <2>7. TypeOK'
    <3>1. r.checkpoint = c
      BY <2>4 DEF Replay
    <3>2. memGrant' \in [Brokers -> [Checkpoints -> Grants \cup {NoGrant}]]
      BY <2>1, <2>4, <2>5 DEF Inv, TypeOK
    <3>3. \A h \in Brokers, d \in Checkpoints :
            memGrant'[h][d] # NoGrant => memGrant'[h][d].checkpoint = d
      BY <2>1, <2>4, <3>1 DEF Inv, TypeOK
    <3>4. offer' \in [Brokers -> Offers \cup {NoOffer}]
      BY <2>1, <2>4, <2>o DEF Inv, TypeOK
    <3>5. QED
      BY <1>2, <2>1, <3>2, <3>3, <3>4 DEF Inv, TypeOK
  <2>8. JobsSound' /\ ActionGrantsSound'
    BY <1>1, <1>2, <2>1 DEF Inv, JobsSound, ActionGrantsSound
  <2>9. CheckpointGrantsSound'
    <3>1. \A h, d : FitsCheckpoint(h, d)' <=> FitsCheckpoint(h, d)
      BY <1>1, <1>2 DEF FitsCheckpoint
    <3>2. QED
      BY <2>1, <2>4, <2>6, <2>o, <3>1 DEF Inv, TypeOK, CheckpointGrantsSound
  <2>10. QED
    BY <1>3, <2>7, <2>8, <2>9 DEF Inv
<1>6. CASE CallMissed(b, c)
  <2>1. /\ memGrant' = [memGrant EXCEPT ![b][c] = NoGrant]
        /\ memAction' = [memAction EXCEPT ![b][ActionOf[c]] = NoGrant]
        /\ job' = [job EXCEPT ![b] = [op |-> "lookup", checkpoint |-> c]]
        /\ offer' = offer
    BY <1>6 DEF CallMissed
  <2>2. TypeOK'
    BY <1>2, <2>1, JobMembers, ApprovalsAssumption DEF Inv, TypeOK
  <2>3. JobsSound'
    BY <1>1, <1>2, <2>1 DEF Inv, TypeOK, JobsSound
  <2>4. ActionGrantsSound'
    BY <1>1, <1>2, <2>1 DEF Inv, TypeOK, ActionGrantsSound
  <2>5. CheckpointGrantsSound'
    BY <1>1, <1>2, <2>1 DEF Inv, TypeOK, CheckpointGrantsSound, FitsCheckpoint
  <2>6. QED
    BY <1>3, <2>2, <2>3, <2>4, <2>5 DEF Inv
<1>7. QED
  BY <1>4, <1>5, <1>6 DEF CallTool

(* The rest of __call__ writes records and jobs only.                       *)
LEMMA LookupInv ==
  ASSUME NEW b \in Brokers, Inv, Lookup(b) \/ Submitted(b) \/ SubmitFailed(b)
  PROVE  Inv'
<1>1. job[b] \in Jobs /\ job[b].op \in {"lookup", "submit"}
  BY DEF Inv, TypeOK, Lookup, Submitted, SubmitFailed
<1>2. PICK c \in Checkpoints : c = job[b].checkpoint /\ c \in made
  BY <1>1, JobFields DEF Inv, JobsSound
<1>3. /\ UNCHANGED <<now, made, expires, repoGrant, consumed, memGrant, memAction, offer, decisions>>
      /\ faults' \in 0..MaxFaults
      /\ \E j \in {Idle, [op |-> "submit", checkpoint |-> c]} : job' = [job EXCEPT ![b] = j]
      /\ \E s \in RecordStatuses : memRecord' = [memRecord EXCEPT ![b][c] = s]
      /\ repoRecord' = repoRecord \/ repoRecord' = [repoRecord EXCEPT ![c] = "pending"]
  <2>1. CASE Lookup(b)
    <3>1. Current(b, c) \in RecordStatuses
      BY DEF Current, StoredRecord, Inv, TypeOK
    <3>2. QED
      BY <1>2, <2>1, <3>1 DEF Lookup, repoVars, Inv, TypeOK
  <2>2. CASE Submitted(b)
    BY <1>2, <2>2 DEF Submitted, SaveRecord, Inv, TypeOK, RecordStatuses
  <2>3. CASE SubmitFailed(b)
    <3>1. faults' \in 0..MaxFaults
      BY <2>3, ApprovalsAssumption DEF SubmitFailed, Fault, Inv, TypeOK
    <3>2. memRecord = [memRecord EXCEPT ![b][c] = memRecord[b][c]] /\ memRecord[b][c] \in RecordStatuses
      BY DEF Inv, TypeOK
    <3>3. QED
      BY <1>2, <2>3, <3>1, <3>2 DEF SubmitFailed, repoVars, RecordStatuses
  <2>4. QED
    BY <2>1, <2>2, <2>3
<1>4. TypeOK'
  <2>1. job' \in [Brokers -> Jobs]
    <3>1. PICK j \in {Idle, [op |-> "submit", checkpoint |-> c]} : job' = [job EXCEPT ![b] = j]
      BY <1>3
    <3>2. j \in Jobs
      BY JobMembers
    <3>3. QED
      BY <3>1, <3>2 DEF Inv, TypeOK
  <2>2. /\ memRecord' \in [Brokers -> [Checkpoints -> RecordStatuses]]
        /\ repoRecord' \in [Checkpoints -> RecordStatuses]
    <3>1. "pending" \in RecordStatuses
      BY DEF RecordStatuses
    <3>2. PICK s \in RecordStatuses : memRecord' = [memRecord EXCEPT ![b][c] = s]
      BY <1>3
    <3>3. memRecord' \in [Brokers -> [Checkpoints -> RecordStatuses]]
      BY <3>2 DEF Inv, TypeOK
    <3>4. repoRecord' \in [Checkpoints -> RecordStatuses]
      BY <1>3, <3>1 DEF Inv, TypeOK
    <3>5. QED
      BY <3>3, <3>4
  <2>3. QED
    BY <1>3, <2>1, <2>2 DEF Inv, TypeOK
<1>5. RecordsMade' /\ DecisionsSound'
  BY <1>2, <1>3 DEF Inv, TypeOK, RecordsMade, DecisionsSound
<1>6. \A g : Covered(g)' <=> Covered(g)
  BY <1>3 DEF Covered
<1>7. JobsSound'
  BY <1>2, <1>3, <1>6 DEF Inv, TypeOK, JobsSound, Idle
<1>8. ActionGrantsSound' /\ CheckpointGrantsSound'
  BY <1>3, <1>6 DEF Inv, ActionGrantsSound, CheckpointGrantsSound, FitsCheckpoint
<1>9. QED
  BY <1>4, <1>5, <1>7, <1>8 DEF Inv

(* The runtime validates the grant it was offered and lets the call pass,   *)
(* or refuses it; a call that was let pass ends.                            *)
LEMMA UseOfferInv ==
  ASSUME NEW b \in Brokers, Inv, Admit(b) \/ Refuse(b) \/ Execute(b)
  PROVE  Inv'
<1>1. UNCHANGED <<now, made, expires, repoRecord, repoGrant, consumed, memRecord, memGrant,
                  memAction, job, decisions, faults>>
  BY DEF Admit, Execute, Refuse, repoVars, memVars
<1>2. \A g : Covered(g)' <=> Covered(g)
  BY <1>1 DEF Covered
<1>3. \A g, c : FitsCheckpoint(g, c)' <=> FitsCheckpoint(g, c)
  BY <1>1, <1>2 DEF FitsCheckpoint
<1>4. PICK o \in Offers \cup {NoOffer} :
        /\ offer' = [offer EXCEPT ![b] = o]
        /\ o # NoOffer => /\ FitsCheckpoint(o.grant, o.checkpoint)
                          /\ o.at <= o.grant.until
  <2>1. CASE Admit(b)
    <3>1. offer[b] \in Offers /\ FitsCheckpoint(offer[b].grant, offer[b].checkpoint)
      BY <2>1 DEF Admit, Inv, TypeOK, CheckpointGrantsSound
    <3>2. PICK o : o = [offer[b] EXCEPT !.stage = "admitted", !.at = now]
      OBVIOUS
    <3>3. /\ o \in Offers /\ o.grant = offer[b].grant /\ o.checkpoint = offer[b].checkpoint
          /\ o.at = now
      BY <3>1, <3>2 DEF Offers, Inv, TypeOK
    <3>4. offer' = [offer EXCEPT ![b] = o] /\ now <= offer[b].grant.until
      BY <2>1, <3>2 DEF Admit, Valid, Inv, TypeOK
    <3>5. QED
      BY <3>1, <3>3, <3>4
  <2>2. CASE Refuse(b) \/ Execute(b)
    BY <2>2 DEF Refuse, Execute
  <2>3. QED
    BY <2>1, <2>2
<1>5. TypeOK'
  BY <1>1, <1>4 DEF Inv, TypeOK
<1>6. RecordsMade' /\ DecisionsSound' /\ JobsSound' /\ ActionGrantsSound'
  BY <1>1, <1>2 DEF Inv, RecordsMade, DecisionsSound, JobsSound, ActionGrantsSound
<1>7. CheckpointGrantsSound'
  BY <1>1, <1>3, <1>4 DEF Inv, TypeOK, CheckpointGrantsSound
<1>8. QED
  BY <1>5, <1>6, <1>7 DEF Inv

(* decide checks the record, the expiry and the person before it writes.    *)
LEMMA DecideInv ==
  ASSUME NEW b \in Brokers, NEW c \in Checkpoints, NEW p, Inv,
         \/ p \in People /\ \E v \in Decided, ttl \in GrantTTLs : Decide(b, c, p, v, ttl)
         \/ DecideExpired(b, c)
         \/ DecideRefused(b, c, p)
  PROVE  Inv'
<1>1. Current(b, c) # "none" /\ Current(b, c) \in RecordStatuses
  BY DEF Decide, DecideExpired, DecideRefused, Undecided, Current, StoredRecord, Inv, TypeOK
<1>2. c \in made
  BY <1>1 DEF Current, StoredRecord, Inv, RecordsMade
<1>3. /\ UNCHANGED <<now, made, expires, repoRecord, repoGrant, consumed, memGrant, memAction,
                     offer, decisions, faults>>
      /\ \E s \in RecordStatuses : memRecord' = [memRecord EXCEPT ![b][c] = s]
  BY <1>1 DEF Decide, DecideExpired, DecideRefused, repoVars, RecordStatuses
<1>4. PICK j \in Jobs :
        /\ job' = [job EXCEPT ![b] = j]
        /\ \/ j = job[b]
           \/ j = [op |-> "expire", checkpoint |-> c]
           \/ \E v \in Decided, u \in Nat :
                /\ j = [op |-> "decide", checkpoint |-> c, verdict |-> v, by |-> p, until |-> u]
                /\ p \in Approvers /\ p # Requester /\ u <= expires[c]
  <2>1. ASSUME p \in People, NEW v \in Decided, NEW ttl \in GrantTTLs, Decide(b, c, p, v, ttl)
        PROVE  \E j \in Jobs : /\ job' = [job EXCEPT ![b] = j]
                               /\ \E u \in Nat :
                                    /\ j = [op |-> "decide", checkpoint |-> c, verdict |-> v,
                                            by |-> p, until |-> u]
                                    /\ p \in Approvers /\ p # Requester /\ u <= expires[c]
    <3>1. PICK u : u = Min2(now + ttl, expires[c])
      OBVIOUS
    <3>2. u \in Nat /\ u <= expires[c]
      BY <3>1, ApprovalsAssumption DEF Min2, Inv, TypeOK
    <3>3. QED
      BY <2>1, <3>1, <3>2, JobMembers DEF Decide, MayDecide
  <2>2. CASE DecideExpired(b, c)
    BY <2>2, JobMembers DEF DecideExpired
  <2>3. CASE DecideRefused(b, c, p)
    BY <2>3 DEF DecideRefused, Inv, TypeOK
  <2>4. QED
    BY <2>1, <2>2, <2>3
<1>5. TypeOK'
  BY <1>3, <1>4 DEF Inv, TypeOK
<1>6. RecordsMade' /\ DecisionsSound'
  BY <1>2, <1>3 DEF Inv, TypeOK, RecordsMade, DecisionsSound
<1>7. \A g : Covered(g)' <=> Covered(g)
  BY <1>3 DEF Covered
<1>8. JobsSound'
  BY <1>2, <1>3, <1>4, <1>7 DEF Inv, TypeOK, JobsSound
<1>9. ActionGrantsSound' /\ CheckpointGrantsSound'
  BY <1>3, <1>7 DEF Inv, ActionGrantsSound, CheckpointGrantsSound, FitsCheckpoint
<1>10. QED
  BY <1>5, <1>6, <1>8, <1>9 DEF Inv

(* The decision is on file before a grant of it exists anywhere.            *)
LEMMA SaveDecisionInv ==
  ASSUME NEW b \in Brokers, Inv, SaveDecision(b)
  PROVE  Inv'
<1>1. PICK j \in Jobs : j = job[b]
  BY DEF Inv, TypeOK
<1>2. /\ j.op = "decide" /\ j.checkpoint \in Checkpoints /\ j.checkpoint \in made
      /\ j.verdict \in Decided /\ j.by \in People /\ j.until \in Nat
      /\ j.by \in Approvers /\ j.by # Requester /\ j.until <= expires[j.checkpoint]
  BY <1>1, JobFields DEF SaveDecision, Inv, JobsSound
<1>3. PICK c \in Checkpoints : c = j.checkpoint
  BY <1>2
<1>4. PICK g : g = DecidedGrant(j)
  OBVIOUS
<1>5. PICK d : d = [checkpoint |-> c, by |-> j.by, verdict |-> j.verdict, until |-> j.until]
  OBVIOUS
<1>6. /\ repoRecord' = [repoRecord EXCEPT ![c] = j.verdict]
      /\ decisions' = decisions \cup {d}
      /\ UNCHANGED <<now, made, expires, repoGrant, consumed, memRecord, offer, faults>>
  BY <1>1, <1>3, <1>5 DEF SaveDecision, SaveRecord
<1>7. d \in Decisions
  BY <1>2, <1>3, <1>5 DEF Decisions
<1>8. ActionOf[c] \in Actions
  BY ApprovalsAssumption
<1>9. /\ g \in Grants /\ g.action = ActionOf[c] /\ g.by = j.by /\ g.until = j.until
      /\ g.checkpoint = c
  BY <1>2, <1>3, <1>4, <1>8 DEF DecidedGrant, Grants
<1>10. RecordsMade' /\ DecisionsSound'
  <2>1. RecordsMade'
    BY <1>2, <1>3, <1>6 DEF Inv, TypeOK, RecordsMade
  <2>2. DecisionsSound'
    BY <1>2, <1>3, <1>5, <1>6 DEF Inv, DecisionsSound
  <2>3. QED
    BY <2>1, <2>2
<1>11. \A h : Covered(h) => Covered(h)'
  BY <1>6 DEF Covered
<1>12. CASE GrantsOn(j.verdict)
  <2>1. /\ memGrant' = [memGrant EXCEPT ![b][c] = g]
        /\ memAction' = [memAction EXCEPT ![b][ActionOf[c]] = g]
        /\ job' = [job EXCEPT ![b] = [op |-> "grant", grant |-> g]]
    BY <1>1, <1>3, <1>4, <1>12 DEF SaveDecision
  <2>2. Covered(g)'
    BY <1>2, <1>3, <1>5, <1>6, <1>9, <1>12 DEF Covered, GrantsOn
  <2>3. TypeOK'
    BY <1>2, <1>6, <1>7, <1>8, <1>9, <2>1, JobMembers DEF Inv, TypeOK, RecordStatuses
  <2>4. JobsSound'
    BY <1>6, <1>11, <2>1, <2>2 DEF Inv, TypeOK, JobsSound
  <2>5. ActionGrantsSound'
    BY <1>6, <1>8, <1>9, <1>11, <2>1, <2>2 DEF Inv, TypeOK, ActionGrantsSound
  <2>6. CheckpointGrantsSound'
    <3>1. FitsCheckpoint(g, c)'
      BY <1>2, <1>3, <1>6, <1>9, <2>2 DEF FitsCheckpoint
    <3>2. \A h, e : FitsCheckpoint(h, e) => FitsCheckpoint(h, e)'
      BY <1>6, <1>11 DEF FitsCheckpoint
    <3>3. QED
      BY <1>6, <2>1, <3>1, <3>2 DEF Inv, TypeOK, CheckpointGrantsSound
  <2>7. QED
    BY <1>10, <2>3, <2>4, <2>5, <2>6 DEF Inv
<1>13. CASE ~GrantsOn(j.verdict)
  <2>1. UNCHANGED <<memGrant, memAction>> /\ job' = [job EXCEPT ![b] = Idle]
    BY <1>1, <1>13 DEF SaveDecision
  <2>2. TypeOK'
    BY <1>2, <1>6, <1>7, <2>1, JobMembers DEF Inv, TypeOK, RecordStatuses
  <2>3. JobsSound'
    BY <1>6, <1>11, <2>1 DEF Inv, TypeOK, JobsSound, Idle
  <2>4. ActionGrantsSound' /\ CheckpointGrantsSound'
    BY <1>6, <1>11, <2>1 DEF Inv, ActionGrantsSound, CheckpointGrantsSound, FitsCheckpoint
  <2>5. QED
    BY <1>10, <2>2, <2>3, <2>4 DEF Inv
<1>14. QED
  BY <1>12, <1>13

(* The other writes of decide move what a job holds into the repository.    *)
LEMMA SaveInv ==
  ASSUME NEW b \in Brokers, Inv, SaveExpired(b) \/ SaveGrant(b) \/ SaveFailed(b)
  PROVE  Inv'
<1>1. job[b] \in Jobs
  BY DEF Inv, TypeOK
<1>2. /\ UNCHANGED <<now, made, expires, memRecord, memGrant, memAction, offer, decisions>>
      /\ job' = [job EXCEPT ![b] = Idle]
  BY DEF SaveExpired, SaveGrant, SaveFailed, memVars
<1>3. faults' \in 0..MaxFaults
  BY ApprovalsAssumption DEF SaveExpired, SaveGrant, SaveFailed, Fault, Inv, TypeOK
<1>4. /\ repoRecord' \in [Checkpoints -> RecordStatuses]
      /\ RecordsMade'
  BY <1>1, <1>2, JobFields
  DEF SaveExpired, SaveRecord, SaveGrant, SaveFailed, repoVars, Inv, TypeOK, RecordsMade, JobsSound, RecordStatuses
<1>5. \A g : Covered(g)' <=> Covered(g)
  BY <1>2 DEF Covered
<1>6. /\ repoGrant' \in [Actions -> Grants \cup {NoGrant}]
      /\ consumed' \subseteq Actions
      /\ \A a \in Actions : repoGrant'[a] # NoGrant => repoGrant'[a].action = a /\ Covered(repoGrant'[a])
  <2>1. CASE SaveGrant(b)
    <3>1. PICK g \in Grants : g = job[b].grant /\ Covered(g)
      BY <1>1, <2>1, JobFields DEF SaveGrant, Inv, JobsSound
    <3>2. g.action \in Actions
      BY DEF Grants
    <3>3. QED
      BY <2>1, <3>1, <3>2 DEF SaveGrant, StoreGrant, Inv, TypeOK, ActionGrantsSound
  <2>2. CASE ~SaveGrant(b)
    BY <2>2 DEF SaveExpired, SaveFailed, repoVars, Inv, TypeOK, ActionGrantsSound
  <2>3. QED
    BY <2>1, <2>2
<1>7. TypeOK'
  BY <1>2, <1>3, <1>4, <1>6, JobMembers DEF Inv, TypeOK
<1>8. JobsSound'
  BY <1>2, <1>5 DEF Inv, TypeOK, JobsSound, Idle
<1>9. DecisionsSound' /\ ActionGrantsSound' /\ CheckpointGrantsSound'
  BY <1>2, <1>5, <1>6 DEF Inv, DecisionsSound, ActionGrantsSound, CheckpointGrantsSound, FitsCheckpoint
<1>10. QED
  BY <1>4, <1>7, <1>8, <1>9 DEF Inv

(* A restarted broker has empty caches.                                     *)
LEMMA RestartInv ==
  ASSUME NEW b \in Brokers, Inv, Restart(b)
  PROVE  Inv'
<1>1. /\ UNCHANGED <<now, made, expires, repoRecord, repoGrant, consumed, decisions>>
      /\ memRecord' = [memRecord EXCEPT ![b] = [c \in Checkpoints |-> "none"]]
      /\ memGrant' = [memGrant EXCEPT ![b] = [c \in Checkpoints |-> NoGrant]]
      /\ memAction' = [memAction EXCEPT ![b] = [a \in Actions |-> NoGrant]]
      /\ job' = [job EXCEPT ![b] = Idle]
      /\ offer' = [offer EXCEPT ![b] = NoOffer]
  BY DEF Restart, repoVars
<1>2. faults' \in 0..MaxFaults
  BY ApprovalsAssumption DEF Restart, Fault, Inv, TypeOK
<1>3. TypeOK'
  BY <1>1, <1>2, JobMembers DEF Inv, TypeOK, RecordStatuses
<1>4. \A g : Covered(g)' <=> Covered(g)
  BY <1>1 DEF Covered
<1>5. RecordsMade' /\ DecisionsSound'
  BY <1>1 DEF Inv, TypeOK, RecordsMade, DecisionsSound
<1>6. JobsSound'
  BY <1>1, <1>4 DEF Inv, TypeOK, JobsSound, Idle
<1>7. ActionGrantsSound'
  BY <1>1, <1>4 DEF Inv, TypeOK, ActionGrantsSound
<1>8. CheckpointGrantsSound'
  BY <1>1, <1>4 DEF Inv, TypeOK, CheckpointGrantsSound, FitsCheckpoint
<1>9. QED
  BY <1>3, <1>5, <1>6, <1>7, <1>8 DEF Inv

(* consume_grant, the clock and stuttering leave every grant as it is.      *)
LEMMA QuietInv ==
  ASSUME Inv, (\E a \in Actions : ConsumeGrant(a)) \/ Tick \/ UNCHANGED vars
  PROVE  Inv'
<1>1. /\ UNCHANGED <<made, expires, repoRecord, repoGrant, memRecord, memGrant, memAction, job,
                     offer, decisions, faults>>
      /\ now' \in Nat
      /\ consumed' \subseteq Actions
  BY DEF ConsumeGrant, Tick, vars, repoVars, memVars, Inv, TypeOK
<1>2. \A g : Covered(g)' <=> Covered(g)
  BY <1>1 DEF Covered
<1>3. TypeOK'
  BY <1>1 DEF Inv, TypeOK
<1>4. RecordsMade' /\ DecisionsSound' /\ JobsSound'
  BY <1>1, <1>2 DEF Inv, RecordsMade, DecisionsSound, JobsSound
<1>5. ActionGrantsSound' /\ CheckpointGrantsSound'
  BY <1>1, <1>2 DEF Inv, ActionGrantsSound, CheckpointGrantsSound, FitsCheckpoint
<1>6. QED
  BY <1>3, <1>4, <1>5 DEF Inv

(* Every step preserves the inductive invariant. *)
LEMMA NextInv == Inv /\ [Next]_vars => Inv'
<1>1. SUFFICES ASSUME Inv, [Next]_vars PROVE Inv'
  OBVIOUS
<1>2. ASSUME NEW b \in Brokers, BrokerStep(b) PROVE Inv'
  <2>1. ASSUME NEW c \in Checkpoints, CallTool(b, c) PROVE Inv'
    BY <1>1, <2>1, CallToolInv
  <2>2. ASSUME NEW c \in Checkpoints, NEW p \in People,
               \/ \E v \in Decided, ttl \in GrantTTLs : Decide(b, c, p, v, ttl)
               \/ DecideRefused(b, c, p)
        PROVE  Inv'
    BY <1>1, <2>2, DecideInv
  <2>3. ASSUME NEW c \in Checkpoints, DecideExpired(b, c) PROVE Inv'
    BY <1>1, <2>3, DecideInv
  <2>4. CASE Admit(b) \/ Refuse(b) \/ Execute(b) \/ Lookup(b) \/ Submitted(b) \/ SubmitFailed(b)
    BY <1>1, <2>4, UseOfferInv, LookupInv
  <2>5. CASE SaveExpired(b) \/ SaveDecision(b) \/ SaveGrant(b) \/ SaveFailed(b) \/ Restart(b)
    BY <1>1, <2>5, SaveDecisionInv, SaveInv, RestartInv
  <2>6. QED
    BY <1>2, <2>1, <2>2, <2>3, <2>4, <2>5 DEF BrokerStep
<1>3. ASSUME NEW c \in Checkpoints, MakeCheckpoint(c) PROVE Inv'
  BY <1>1, <1>3, MakeCheckpointInv
<1>4. QED
  BY <1>1, <1>2, <1>3, QuietInv DEF Next

(* The inductive invariant holds throughout every behaviour. *)
LEMMA SpecInv == Spec => []Inv
  BY InitInv, NextInv, PTL DEF Spec

(* The types hold in every reachable state. *)
THEOREM TypeCorrect == Spec => []TypeOK
<1>1. Inv => TypeOK
  BY DEF Inv
<1>2. QED
  BY <1>1, SpecInv, PTL

(* For any brokers, caches, restarts and failed writes, a protected action  *)
(* runs only under a saved approval of that very action which an authorised *)
(* person other than the requester gave and which was in force when the     *)
(* runtime let the call pass.                                               *)
THEOREM OnlyApprovedExecutes == Spec => []ExecutionsApproved
<1>1. ASSUME Inv, NEW b \in Brokers, Admitted(b)
      PROVE  Approved(offer[b].checkpoint, offer[b].grant.by, offer[b].at)
  <2>1. offer[b] \in Offers
    BY <1>1 DEF Admitted, Inv, TypeOK
  <2>2. PICK c \in Checkpoints, g \in Grants, t \in Nat :
            offer[b].checkpoint = c /\ offer[b].grant = g /\ offer[b].at = t
    BY <2>1 DEF Offers
  <2>3. FitsCheckpoint(g, c) /\ t <= g.until
    BY <1>1, <2>2 DEF Admitted, Inv, CheckpointGrantsSound
  <2>4. PICK d \in decisions : /\ d.verdict = "approved"
                               /\ ActionOf[d.checkpoint] = g.action
                               /\ d.by = g.by
                               /\ g.until <= d.until
    BY <2>3 DEF FitsCheckpoint, Covered
  <2>5. /\ d.by \in Approvers /\ d.by # Requester /\ d.until <= expires[d.checkpoint]
    BY <1>1, <2>4 DEF Inv, DecisionsSound
  <2>6. g.until \in Nat /\ d.until \in Nat /\ expires[c] \in Nat
    BY <1>1, <2>2, <2>4 DEF Inv, TypeOK, Grants, Decisions
  <2>7. t <= expires[c] /\ t <= d.until
    BY <2>3, <2>4, <2>6 DEF FitsCheckpoint
  <2>8. QED
    BY <2>2, <2>3, <2>4, <2>5, <2>7 DEF Approved, FitsCheckpoint
<1>2. Inv => ExecutionsApproved
  BY <1>1 DEF ExecutionsApproved
<1>3. QED
  BY <1>2, SpecInv, PTL

-----------------------------------------------------------------------------
(* Deciding once.  It needs a single broker: two of them may both read a    *)
(* pending record before either saves its decision.                         *)

OneBroker == \A b, c \in Brokers : b = c

\* What becomes a decision is in the cache first.
DecidingCached ==
    \A b \in Brokers : job[b].op = "decide" => memRecord[b][job[b].checkpoint] \in Decided

\* Broker b knows the decision on checkpoint c or will read it, and is doing
\* nothing that would replace its record.
Respects(b, c) ==
    /\ memRecord[b][c] \in Decided \cup {"none"}
    /\ job[b].op \in {"submit", "expire", "decide"} => job[b].checkpoint # c

\* A saved decision stays on record and is respected.
Settled ==
    \A d \in decisions :
        /\ repoRecord[d.checkpoint] \in Decided
        /\ \A b \in Brokers : Respects(b, d.checkpoint)

OnceInv == DecidingCached /\ Settled /\ DecidedOnce

(* A broker asked about a decided checkpoint finds the decision.            *)
LEMMA DecisionFound ==
  ASSUME OnceInv, NEW b \in Brokers, NEW d \in decisions
  PROVE  Current(b, d.checkpoint) \in Decided
<1>1. repoRecord[d.checkpoint] \in Decided /\ memRecord[b][d.checkpoint] \in Decided \cup {"none"}
  BY DEF OnceInv, Settled, Respects
<1>2. QED
  BY <1>1 DEF Current, StoredRecord

(* What a step of the one broker that saves no decision has to keep.        *)
LEMMA KeepsOnce ==
  ASSUME OneBroker, OnceInv, NEW b \in Brokers, UNCHANGED decisions,
         \A d \in decisions :
            /\ repoRecord'[d.checkpoint] \in Decided
            /\ memRecord'[b][d.checkpoint] \in Decided \cup {"none"}
            /\ job'[b].op \in {"submit", "expire", "decide"} => job'[b].checkpoint # d.checkpoint,
         job'[b].op = "decide" => memRecord'[b][job'[b].checkpoint] \in Decided
  PROVE  OnceInv'
<1>1. \A a \in Brokers : a = b
  BY DEF OneBroker
<1>2. DecidingCached'
  BY <1>1 DEF DecidingCached
<1>3. Settled' /\ DecidedOnce'
  BY <1>1 DEF Settled, Respects, OnceInv, DecidedOnce
<1>4. QED
  BY <1>2, <1>3 DEF OnceInv

(* Steps that leave the records alone.                                      *)
LEMMA UnrecordedOnce ==
  ASSUME OneBroker, Inv, OnceInv, NEW b \in Brokers,
         \/ \E c \in Checkpoints : CallTool(b, c)
         \/ Admit(b) \/ Refuse(b) \/ Execute(b) \/ SaveGrant(b) \/ SaveFailed(b)
  PROVE  OnceInv'
<1>1. UNCHANGED <<repoRecord, memRecord, decisions>>
  BY DEF CallTool, CallCached, CallReplayed, CallMissed, Admit, Execute, Refuse, SaveGrant, SaveFailed,
         repoVars, memVars
<1>2. job'[b] = job[b] \/ job'[b].op \in {"idle", "lookup"}
  BY DEF CallTool, CallCached, CallReplayed, CallMissed, Admit, Execute, Refuse, SaveGrant, SaveFailed,
         Inv, TypeOK, Idle
<1>3. \A d \in decisions : repoRecord[d.checkpoint] \in Decided /\ Respects(b, d.checkpoint)
  BY DEF OnceInv, Settled
<1>4. job[b].op = "decide" => memRecord[b][job[b].checkpoint] \in Decided
  BY DEF OnceInv, DecidingCached
<1>5. QED
  BY <1>1, <1>2, <1>3, <1>4, KeepsOnce DEF Respects

(* A request is looked up and submitted only while it has no record, and    *)
(* with one broker nothing comes between the two.                           *)
LEMMA LookupOnce ==
  ASSUME OneBroker, Inv, OnceInv, NEW b \in Brokers, Lookup(b) \/ Submitted(b) \/ SubmitFailed(b)
  PROVE  OnceInv'
<1> DEFINE c == job[b].checkpoint
<1>1. job[b] \in Jobs /\ c \in Checkpoints /\ decisions' = decisions
  BY JobFields DEF Lookup, Submitted, SubmitFailed, Inv, TypeOK
<1>2. \A d \in decisions : /\ repoRecord[d.checkpoint] \in Decided /\ Respects(b, d.checkpoint)
                           /\ d.checkpoint \in Checkpoints
                           /\ Current(b, d.checkpoint) \in Decided
  BY DecisionFound DEF OnceInv, Settled, Inv, TypeOK, Decisions
<1>3. CASE Lookup(b)
  <2>1. /\ repoRecord' = repoRecord
        /\ memRecord'[b] = [memRecord[b] EXCEPT ![c] = Current(b, c)]
        /\ memRecord[b] \in [Checkpoints -> RecordStatuses]
        /\ job'[b] = IF Current(b, c) # "none" THEN Idle ELSE [op |-> "submit", checkpoint |-> c]
    BY <1>3 DEF Lookup, Inv, TypeOK, repoVars
  <2>2. \A d \in decisions : memRecord'[b][d.checkpoint] \in Decided \cup {"none"}
    BY <1>1, <1>2, <2>1 DEF Respects
  <2>3. \A d \in decisions : job'[b].op \in {"submit", "expire", "decide"} => job'[b].checkpoint # d.checkpoint
    BY <1>2, <2>1 DEF Idle, Decided
  <2>4. job'[b].op # "decide"
    BY <2>1 DEF Idle
  <2>5. QED
    BY <1>1, <1>2, <2>1, <2>2, <2>3, <2>4, KeepsOnce
<1>4. CASE Submitted(b) \/ SubmitFailed(b)
  <2>1. \A d \in decisions : d.checkpoint # c
    BY <1>2, <1>4 DEF Submitted, SubmitFailed, Respects
  <2>2. /\ \A d \in Checkpoints \ {c} : repoRecord'[d] = repoRecord[d] /\ memRecord'[b][d] = memRecord[b][d]
        /\ job'[b] = Idle
    BY <1>1, <1>4 DEF Submitted, SubmitFailed, SaveRecord, Inv, TypeOK, repoVars
  <2>3. QED
    BY <1>1, <1>2, <2>1, <2>2, KeepsOnce DEF Respects, Idle
<1>5. QED
  BY <1>3, <1>4

(* decide refuses a decided request, before it writes anything.             *)
LEMMA DecideOnce ==
  ASSUME OneBroker, Inv, OnceInv, NEW b \in Brokers, NEW c \in Checkpoints,
         \/ \E p \in People, v \in Decided, ttl \in GrantTTLs : Decide(b, c, p, v, ttl)
         \/ DecideExpired(b, c)
         \/ \E p \in People : DecideRefused(b, c, p)
  PROVE  OnceInv'
<1>1. decisions' = decisions /\ repoRecord' = repoRecord /\ memRecord[b] \in [Checkpoints -> RecordStatuses]
  BY DEF Decide, DecideExpired, DecideRefused, repoVars, Inv, TypeOK
<1>2. \A d \in decisions : /\ repoRecord[d.checkpoint] \in Decided /\ Respects(b, d.checkpoint)
                           /\ d.checkpoint \in Checkpoints
                           /\ Current(b, d.checkpoint) \in Decided
  BY DecisionFound DEF OnceInv, Settled, Inv, TypeOK, Decisions
<1>3. CASE \E p \in People : DecideRefused(b, c, p)
  <2>1. memRecord'[b] = [memRecord[b] EXCEPT ![c] = Current(b, c)] /\ job'[b] = Idle
    BY <1>3 DEF DecideRefused, Inv, TypeOK
  <2>2. \A d \in decisions : memRecord'[b][d.checkpoint] \in Decided \cup {"none"}
    BY <1>1, <1>2, <2>1 DEF Respects
  <2>3. QED
    BY <1>1, <1>2, <2>1, <2>2, KeepsOnce DEF Idle
<1>4. CASE \/ \E p \in People, v \in Decided, ttl \in GrantTTLs : Decide(b, c, p, v, ttl)
           \/ DecideExpired(b, c)
  <2>1. Current(b, c) = "pending"
    BY <1>4 DEF Decide, DecideExpired, Undecided
  <2>2. \A d \in decisions : d.checkpoint # c
    BY <1>2, <2>1 DEF Decided
  <2>3. PICK v \in Decided \cup {"expired"} :
            /\ memRecord'[b] = [memRecord[b] EXCEPT ![c] = v]
            /\ job'[b].op = (IF v = "expired" THEN "expire" ELSE "decide")
            /\ job'[b].checkpoint = c
    <3>1. ASSUME NEW p \in People, NEW v \in Decided, NEW ttl \in GrantTTLs, Decide(b, c, p, v, ttl)
          PROVE  /\ memRecord'[b] = [memRecord[b] EXCEPT ![c] = v]
                 /\ job'[b].op = "decide" /\ job'[b].checkpoint = c /\ v # "expired"
      BY <3>1 DEF Decide, Inv, TypeOK, Decided
    <3>2. ASSUME DecideExpired(b, c)
          PROVE  /\ memRecord'[b] = [memRecord[b] EXCEPT ![c] = "expired"]
                 /\ job'[b].op = "expire" /\ job'[b].checkpoint = c
      BY <3>2 DEF DecideExpired, Inv, TypeOK
    <3>3. QED
      BY <1>4, <3>1, <3>2
  <2>4. \A d \in decisions : memRecord'[b][d.checkpoint] \in Decided \cup {"none"}
    BY <1>1, <1>2, <2>2, <2>3 DEF Respects
  <2>5. job'[b].op = "decide" => memRecord'[b][job'[b].checkpoint] \in Decided
    BY <1>1, <2>3
  <2>6. QED
    BY <1>1, <1>2, <2>2, <2>3, <2>4, <2>5, KeepsOnce
<1>5. QED
  BY <1>3, <1>4

(* The record of a request found expired, or a restart.                     *)
LEMMA ForgetOnce ==
  ASSUME OneBroker, Inv, OnceInv, NEW b \in Brokers, SaveExpired(b) \/ Restart(b)
  PROVE  OnceInv'
<1>1. decisions' = decisions /\ job'[b] = Idle
  BY DEF SaveExpired, Restart, Inv, TypeOK
<1>2. \A d \in decisions : /\ repoRecord[d.checkpoint] \in Decided /\ Respects(b, d.checkpoint)
                           /\ d.checkpoint \in Checkpoints
  BY DEF OnceInv, Settled, Inv, TypeOK, Decisions
<1>3. CASE SaveExpired(b)
  <2>1. \A d \in decisions : d.checkpoint # job[b].checkpoint
    BY <1>2, <1>3 DEF SaveExpired, Respects
  <2>2. \A d \in decisions : repoRecord'[d.checkpoint] = repoRecord[d.checkpoint]
    BY <1>2, <1>3, <2>1 DEF SaveExpired, SaveRecord, Inv, TypeOK
  <2>3. memRecord' = memRecord
    BY <1>3 DEF SaveExpired, memVars
  <2>4. QED
    BY <1>1, <1>2, <2>2, <2>3, KeepsOnce DEF Respects, Idle
<1>4. CASE Restart(b)
  <2>1. repoRecord' = repoRecord /\ \A c \in Checkpoints : memRecord'[b][c] = "none"
    BY <1>4 DEF Restart, repoVars, Inv, TypeOK
  <2>2. QED
    BY <1>1, <1>2, <2>1, KeepsOnce DEF Idle
<1>5. QED
  BY <1>3, <1>4

(* A decision is saved for a request that has none.                         *)
LEMMA SaveDecisionOnce ==
  ASSUME OneBroker, Inv, OnceInv, NEW b \in Brokers, SaveDecision(b)
  PROVE  OnceInv'
<1> DEFINE j == job[b]  c == j.checkpoint
           d == [checkpoint |-> c, by |-> j.by, verdict |-> j.verdict, until |-> j.until]
<1>1. \A a \in Brokers : a = b
  BY DEF OneBroker
<1>2. j.op = "decide" /\ c \in Checkpoints /\ j.verdict \in Decided
  BY JobFields DEF SaveDecision, Inv, TypeOK
<1>3. /\ decisions' = decisions \cup {d} /\ memRecord' = memRecord
      /\ repoRecord' = [repoRecord EXCEPT ![c] = j.verdict]
      /\ job'[b].op \in {"idle", "grant"}
  BY DEF SaveDecision, SaveRecord, Inv, TypeOK, Idle
<1>4. \A e \in decisions : /\ repoRecord[e.checkpoint] \in Decided
                           /\ memRecord[b][e.checkpoint] \in Decided \cup {"none"}
                           /\ e.checkpoint # c /\ e.checkpoint \in Checkpoints
  BY <1>2 DEF OnceInv, Settled, Respects, Inv, TypeOK, Decisions
<1>5. memRecord[b][c] \in Decided /\ d.checkpoint = c
  BY <1>2 DEF OnceInv, DecidingCached
<1>6. repoRecord'[c] \in Decided /\ \A e \in decisions : repoRecord'[e.checkpoint] = repoRecord[e.checkpoint]
  BY <1>2, <1>3, <1>4 DEF Inv, TypeOK
<1> HIDE DEF d, c, j
<1>7. \A e \in decisions' : /\ repoRecord'[e.checkpoint] \in Decided
                            /\ memRecord'[b][e.checkpoint] \in Decided \cup {"none"}
  BY <1>3, <1>4, <1>5, <1>6
<1>8. DecidingCached' /\ Settled'
  BY <1>1, <1>3, <1>7 DEF DecidingCached, Settled, Respects
<1>9. DecidedOnce'
  BY <1>3, <1>4, <1>5 DEF DecidedOnce, OnceInv
<1>10. QED
  BY <1>8, <1>9 DEF OnceInv

(* Every step preserves it.                                                 *)
LEMMA NextOnce == ASSUME OneBroker, Inv, OnceInv, [Next]_vars PROVE OnceInv'
<1>1. ASSUME NEW b \in Brokers, BrokerStep(b) PROVE OnceInv'
  BY <1>1, UnrecordedOnce, LookupOnce, DecideOnce, ForgetOnce, SaveDecisionOnce DEF BrokerStep
<1>2. ASSUME UNCHANGED <<repoRecord, memRecord, job, decisions>> PROVE OnceInv'
  BY <1>2 DEF OnceInv, DecidingCached, Settled, Respects, DecidedOnce
<1>3. CASE UNCHANGED vars
  BY <1>2, <1>3 DEF vars, repoVars, memVars
<1>4. CASE \/ \E c \in Checkpoints : MakeCheckpoint(c)
           \/ \E a \in Actions : ConsumeGrant(a)
           \/ Tick
  BY <1>2, <1>4 DEF MakeCheckpoint, ConsumeGrant, Tick, repoVars, memVars
<1>5. QED
  BY <1>1, <1>3, <1>4 DEF Next

(* With one broker a request is decided at most once, whatever restarts and *)
(* failed writes come between the steps of decide.                          *)
THEOREM DecidesOnce ==
  ASSUME OneBroker
  PROVE  Spec => []DecidedOnce
<1>1. Init => OnceInv
  BY DEF Init, OnceInv, DecidingCached, Settled, DecidedOnce, Idle
<1>2. Inv /\ OnceInv /\ [Next]_vars => OnceInv'
  BY NextOnce
<1>3. OnceInv => DecidedOnce
  BY DEF OnceInv
<1>4. QED
  BY <1>1, <1>2, <1>3, SpecInv, PTL DEF Spec
=============================================================================
