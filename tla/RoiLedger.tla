------------------------------ MODULE RoiLedger ------------------------------
(***************************************************************************)
(* The value and cost ledger of roi/ledger.py and roi/postgres.py, for one *)
(* organization: opportunities with their status history, value and cost   *)
(* records, and the portfolio summary.  transition and record_value read   *)
(* the opportunity in one transaction and write in another; a summary      *)
(* reads opportunities, values and costs in three statements.  An amount   *)
(* is abstracted away: a total is the set of the records it adds up.       *)
(***************************************************************************)
EXTENDS Naturals, Sequences, FiniteSets

CONSTANTS
    Users,
    Opps,        \* opportunity ids
    SourceOf,    \* SourceOf[o]: source_key
    AgentOf,     \* AgentOf[o]: agent_id
    CurrencyOf,  \* CurrencyOf[o]: currency_code
    Agents,
    Currencies,
    Default,     \* the currency of a portfolio without opportunities
    Evidence,    \* evidence keys of values
    Bills,       \* evidence keys of costs
    Page,        \* limit of list_opportunities
    InputStages, \* stages of the values that are recorded
    MaxRevision, \* bound: transitions of o begin below revision MaxRevision[o]
    None

ASSUME LedgerAssumption ==
    /\ AgentOf \in [Opps -> Agents]
    /\ CurrencyOf \in [Opps -> Currencies]
    /\ Default \in Currencies
    /\ Page \in Nat /\ MaxRevision \in [Opps -> Nat]
    /\ InputStages \subseteq {"potential", "forecast", "realized", "validated"}
    /\ None \notin Opps /\ None \notin Agents /\ None \notin Currencies

Statuses == {"proposed", "approved", "in_progress", "realizing", "validated",
             "rejected", "closed"}

Stages == {"potential", "forecast", "realized", "validated"}

\* _ALLOWED_TRANSITIONS
Allowed(s) ==
    CASE s = "proposed" -> {"approved", "rejected"}
      [] s = "approved" -> {"in_progress", "rejected"}
      [] s = "in_progress" -> {"realizing", "closed"}
      [] s = "realizing" -> {"validated", "closed"}
      [] s \in {"validated", "rejected"} -> {"closed"}
      [] OTHER -> {}

VARIABLES
    created,   \* opportunities in the order of created_at_utc
    status,    \* status[o], "absent" before create_opportunity
    revision,
    history,   \* history[o]: the rows of roi_status_history
    values,    \* values[e]: the roi_values row with evidence key e, or None
    costs,     \* costs[b]: the roi_costs row with evidence key b, or None
    job,       \* job[u]: the operation u is in the middle of
    billed     \* history: billed[e]: the costs on record before value e

rows == <<created, status, revision, history, values, costs>>
vars == <<rows, job, billed>>

Idle == [op |-> "idle"]

Init ==
    /\ created = <<>>
    /\ status = [o \in Opps |-> "absent"]
    /\ revision = [o \in Opps |-> 0]
    /\ history = [o \in Opps |-> <<>>]
    /\ values = [e \in Evidence |-> None]
    /\ costs = [b \in Bills |-> None]
    /\ job = [u \in Users |-> Idle]
    /\ billed = [e \in Evidence |-> {}]

Exists(o) == status[o] # "absent"

-----------------------------------------------------------------------------
(* Opportunities. *)

\* The unique constraint of (organization_id, source_key).
SourceFree(o) == \A p \in Opps : Exists(p) => SourceOf[p] # SourceOf[o]

CreateOpportunity(o) ==
    /\ ~Exists(o)
    /\ SourceFree(o)
    /\ created' = Append(created, o)
    /\ status' = [status EXCEPT ![o] = "proposed"]
    /\ revision' = [revision EXCEPT ![o] = 1]
    /\ UNCHANGED <<history, values, costs, job, billed>>

\* get_opportunity, for a user who will decide on the next status.
GetOpportunity(u, o) ==
    /\ job[u] = Idle
    /\ Exists(o)
    /\ job' = [job EXCEPT ![u] = [op |-> "seen", opp |-> o, status |-> status[o],
                                 revision |-> revision[o]]]
    /\ UNCHANGED <<rows, billed>>

\* transition reads the current status; expected is what the user has seen,
\* whose revision is the expected_revision, or None.
BeginTransition(u, o, new, expected) ==
    /\ Exists(o)
    /\ revision[o] < MaxRevision[o]
    /\ new \in Allowed(status[o])
    /\ job' = [job EXCEPT ![u] = [op |-> "transition", opp |-> o, old |-> status[o],
                                 new |-> new, expected |-> expected]]
    /\ UNCHANGED <<rows, billed>>
TransitionAny(u, o, new) == job[u] = Idle /\ BeginTransition(u, o, new, None)
TransitionSeen(u, new) == job[u].op = "seen" /\ BeginTransition(u, job[u].opp, new, job[u])

\* The WHERE clause of the update; the first mutant drops the status, the
\* second the revision.
MatchesRevisionOnly(j) == j.expected # None => j.expected.revision = revision[j.opp]
MatchesStatusOnly(j) == status[j.opp] = j.old
Matches(j) ==
    /\ status[j.opp] = j.old
    /\ j.expected # None => j.expected.revision = revision[j.opp]

\* The row and its history entry are written in one transaction.
Transition(u) ==
    /\ job[u].op = "transition"
    /\ Matches(job[u])
    /\ status' = [status EXCEPT ![job[u].opp] = job[u].new]
    /\ revision' = [revision EXCEPT ![job[u].opp] = @ + 1]
    /\ history' = [history EXCEPT ![job[u].opp] =
                       Append(@, [old |-> job[u].old, new |-> job[u].new])]
    /\ job' = [job EXCEPT ![u] = Idle]
    /\ UNCHANGED <<created, values, costs, billed>>

\* "ROI opportunity revision conflict"
TransitionConflict(u) ==
    /\ job[u].op = "transition"
    /\ ~Matches(job[u])
    /\ job' = [job EXCEPT ![u] = Idle]
    /\ UNCHANGED <<rows, billed>>

-----------------------------------------------------------------------------
(* Values and costs. *)

\* Realized and validated values need an opportunity that has begun; the
\* mutant asks for no more than its approval.
ReadyOnceApproved(o, stage) ==
    stage \in {"realized", "validated"} =>
        status[o] \in {"approved", "in_progress", "realizing", "validated"}
Ready(o, stage) ==
    stage \in {"realized", "validated"} =>
        status[o] \in {"in_progress", "realizing", "validated"}

\* record_value checks the opportunity ...
BeginValue(u, o, stage, e) ==
    /\ job[u] = Idle
    /\ Exists(o)
    /\ Ready(o, stage)
    /\ job' = [job EXCEPT ![u] = [op |-> "value", opp |-> o, stage |-> stage, evidence |-> e]]
    /\ UNCHANGED <<rows, billed>>

\* The unique constraint of (organization_id, evidence_key).
Uncounted(e) == values[e] = None

\* ... and inserts the value, with the opportunity's currency.
RecordValue(u) ==
    /\ job[u].op = "value"
    /\ Uncounted(job[u].evidence)
    /\ values' = [values EXCEPT ![job[u].evidence] =
                      [opp |-> job[u].opp, stage |-> job[u].stage]]
    /\ billed' = [billed EXCEPT ![job[u].evidence] = {b \in Bills : costs[b] # None}]
    /\ job' = [job EXCEPT ![u] = Idle]
    /\ UNCHANGED <<created, status, revision, history, costs>>

\* "This evidence_key has already been counted", also for a repeated call.
ValueRefused(u) ==
    /\ job[u].op = "value"
    /\ ~Uncounted(job[u].evidence)
    /\ job' = [job EXCEPT ![u] = Idle]
    /\ UNCHANGED <<rows, billed>>

\* The caller is done, gives up, or dies between the check and the write.
Return(u) ==
    /\ job[u] # Idle
    /\ job' = [job EXCEPT ![u] = Idle]
    /\ UNCHANGED <<rows, billed>>

\* record_cost; organization and agent of an opportunity never change, so
\* that its check may as well be part of the insert.  Any currency will do.
RecordCost(b, agent, cur, o) ==
    /\ costs[b] = None
    /\ o # None => Exists(o) /\ AgentOf[o] = agent
    /\ costs' = [costs EXCEPT ![b] = [agent |-> agent, currency |-> cur, opp |-> o]]
    /\ UNCHANGED <<created, status, revision, history, values, job, billed>>

-----------------------------------------------------------------------------
(* portfolio_summary *)

\* list_opportunities: the first page, oldest first.
OfAgent(agent) ==
    {i \in 1..Len(created) : agent = None \/ AgentOf[created[i]] = agent}
Listed(agent) ==
    {created[i] : i \in {j \in OfAgent(agent) :
                            Cardinality({k \in OfAgent(agent) : k < j}) < Page}}

\* The currency asked for, or the only one of the listed opportunities; a
\* mixed portfolio is refused.
Selectable(listed, cur) ==
    IF cur # None THEN {cur}
    ELSE IF listed = {} THEN {Default}
    ELSE {c \in Currencies : \A o \in listed : CurrencyOf[o] = c}

ListOpportunities(u, agent, cur) ==
    /\ job[u] = Idle
    /\ \E c \in Selectable(Listed(agent), cur) :
        job' = [job EXCEPT ![u] =
                   [op |-> "listed", agent |-> agent, currency |-> c,
                    opps |-> {o \in Listed(agent) : CurrencyOf[o] = c},
                    values |-> {}, costs |-> {},
                    before |-> {e \in Evidence : values[e] # None}]]
    /\ UNCHANGED <<rows, billed>>

\* Realized and validated values of the listed opportunities; the mutant
\* leaves out those that are only realized.
ValidatedOnly(opps) ==
    {e \in Evidence : values[e] # None /\ values[e].opp \in opps /\ values[e].stage = "validated"}
ValuesNow(opps) ==
    {e \in Evidence :
        /\ values[e] # None
        /\ values[e].opp \in opps
        /\ values[e].stage \in {"realized", "validated"}}

\* Costs in the currency, of the agent, and of a listed opportunity or none;
\* the mutant counts only the costs of no opportunity.
SharedCosts(r) ==
    {b \in Bills :
        /\ costs[b] # None
        /\ costs[b].currency = r.currency
        /\ r.agent # None => costs[b].agent = r.agent
        /\ costs[b].opp = None}
CostsNow(r) ==
    {b \in Bills :
        /\ costs[b] # None
        /\ costs[b].currency = r.currency
        /\ r.agent # None => costs[b].agent = r.agent
        /\ costs[b].opp # None => costs[b].opp \in r.opps}

ReadValues(u) ==
    /\ job[u].op = "listed"
    /\ job' = [job EXCEPT ![u] = [@ EXCEPT !.op = "valued", !.values = ValuesNow(job[u].opps)]]
    /\ UNCHANGED <<rows, billed>>

ReadCosts(u) ==
    /\ job[u].op = "valued"
    /\ job' = [job EXCEPT ![u] = [@ EXCEPT !.op = "summary", !.costs = CostsNow(job[u])]]
    /\ UNCHANGED <<rows, billed>>

Next ==
    \/ \E o \in Opps : CreateOpportunity(o)
    \/ \E u \in Users :
        \/ \E o \in Opps :
            \/ GetOpportunity(u, o)
            \/ \E s \in Statuses : TransitionAny(u, o, s)
            \/ \E stage \in InputStages, e \in Evidence : BeginValue(u, o, stage, e)
        \/ \E s \in Statuses : TransitionSeen(u, s)
        \/ Transition(u) \/ TransitionConflict(u)
        \/ RecordValue(u) \/ ValueRefused(u)
        \/ \E agent \in Agents \cup {None}, cur \in Currencies \cup {None} :
            ListOpportunities(u, agent, cur)
        \/ ReadValues(u) \/ ReadCosts(u) \/ Return(u)
    \/ \E b \in Bills, agent \in Agents, cur \in Currencies, o \in Opps \cup {None} :
        RecordCost(b, agent, cur, o)

Spec == Init /\ [][Next]_vars

-----------------------------------------------------------------------------
Seen == [op : {"seen"}, opp : Opps, status : Statuses, revision : Nat]
Jobs ==
    {Idle} \cup Seen
    \cup [op : {"transition"}, opp : Opps, old : Statuses, new : Statuses,
          expected : Seen \cup {None}]
    \cup [op : {"value"}, opp : Opps, stage : Stages, evidence : Evidence]
    \cup [op : {"listed", "valued", "summary"}, agent : Agents \cup {None},
          currency : Currencies, opps : SUBSET Opps, values : SUBSET Evidence,
          costs : SUBSET Bills, before : SUBSET Evidence]

(* Type invariant.  No two opportunities have one source_key. *)
TypeOK ==
    /\ created \in Seq(Opps)
    /\ status \in [Opps -> Statuses \cup {"absent"}]
    /\ revision \in [Opps -> Nat]
    /\ history \in [Opps -> Seq([old : Statuses, new : Statuses])]
    /\ values \in [Evidence -> [opp : Opps, stage : Stages] \cup {None}]
    /\ costs \in [Bills -> [agent : Agents, currency : Currencies, opp : Opps \cup {None}]
                             \cup {None}]
    /\ job \in [Users -> Jobs]
    /\ billed \in [Evidence -> SUBSET Bills]
    /\ \A o, p \in Opps : Exists(o) /\ Exists(p) /\ SourceOf[o] = SourceOf[p] => o = p

(* The status history accounts for the status: its entries lead by allowed *)
(* transitions, each from where the one before ended, from "proposed" to   *)
(* the current status, and the revision counts them; however many users    *)
(* transition an opportunity from the status they have read.               *)
HistoryIsPath ==
    \A o \in Opps : Exists(o) =>
        /\ \A i \in 1..Len(history[o]) :
            /\ history[o][i].old = IF i = 1 THEN "proposed" ELSE history[o][i - 1].new
            /\ history[o][i].new \in Allowed(history[o][i].old)
        /\ status[o] = IF history[o] = <<>> THEN "proposed" ELSE history[o][Len(history[o])].new
        /\ revision[o] = Len(history[o]) + 1

(* "Realized or validated value requires an in-progress opportunity"       *)
(* (roi/ledger.py:450), as far as it holds when the status is checked in   *)
(* an earlier transaction, after which the opportunity may be closed: work *)
(* on it did begin, and it was not and will not be rejected.               *)
RealizedWasBegun ==
    \A e \in Evidence : values[e] # None /\ values[e].stage \in {"realized", "validated"} =>
        /\ \E i \in 1..Len(history[values[e].opp]) :
            history[values[e].opp][i].new = "in_progress"
        /\ status[values[e].opp] \in {"in_progress", "realizing", "validated", "closed"}

(* A transition with an expected revision moves the opportunity from the   *)
(* very status its caller has seen with that revision.                     *)
NoLostTransition ==
    [][\A u \in Users :
        Transition(u) /\ job[u].expected # None =>
            status[job[u].opp] = job[u].expected.status]_vars

(* While the opportunities fit on one page of list_opportunities, a        *)
(* summary counts every realized or validated value in its currency that   *)
(* was on record when it began.                                            *)
SummaryComplete ==
    \A u \in Users :
        job[u].op \in {"valued", "summary"} /\ Len(created) <= Page =>
            \A e \in job[u].before :
                /\ values[e].stage \in {"realized", "validated"}
                /\ CurrencyOf[values[e].opp] = job[u].currency
                /\ job[u].agent \in {None, AgentOf[values[e].opp]}
                => e \in job[u].values

(* Values are read before costs: a summary that counts a value counts the  *)
(* costs of its opportunity, in its currency, that were on record before   *)
(* it, so that recording costs first never overstates the net value.       *)
ValueWithItsCosts ==
    \A u \in Users : job[u].op = "summary" =>
        \A e \in job[u].values : \A b \in billed[e] :
            costs[b].opp = values[e].opp /\ costs[b].currency = job[u].currency
                => b \in job[u].costs
=============================================================================
