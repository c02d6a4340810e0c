-------------------------- MODULE SentinelRunProofs --------------------------
(***************************************************************************)
(* Proofs about SentinelRun, for any number of calls, any tools and prices *)
(* and any limits.  Only one call is between its request and its start at  *)
(* a time, so that what it was charged is still unspent when its handler   *)
(* begins; and each place of a call or of the runner determines which      *)
(* events the audit store must hold by then.                               *)
(***************************************************************************)
EXTENDS SentinelRun, TLAPS

Solo == \A c, d \in Calls : pc[c] \in Preparing /\ pc[d] \in Preparing => c = d

\* A call that has been charged and has not run yet.
Unspent ==
    \A c \in Calls : pc[c] \in {"authorize", "start"} =>
        ran + 1 <= toolCalls /\ spent + Cost[tool[c]] <= cost

BudgetInv ==
    /\ phase \in {"new", "start"} => steps = 0
    /\ Solo /\ Unspent /\ BudgetKept

-----------------------------------------------------------------------------
(* The type invariant. *)

LEMMA PcTypes ==
    /\ Preparing \subseteq Active
    /\ \A p \in Active : p # "idle"
    /\ \A p \in Raised : p # "idle"
  BY DEF Preparing, Active, Raised

\* What an event of a call, and of the runner, is.
LEMMA EventTyped ==
    ASSUME NEW type \in EventTypes, NEW of \in Calls \cup Results \cup {None}
    PROVE  Event(type, of) \in Events
  BY DEF Event, Events

LEMMA LogTyped ==
    ASSUME TypeOK, NEW e \in Events, Logged(e) \/ LogFails(e)
    PROVE  log' \in Seq(Events) /\ faults' \in Nat
<1>1. log \in Seq(Events) /\ faults \in Nat
  BY DEF TypeOK
<1>2. Append(log, e) \in Seq(Events)
  BY <1>1
<1>3. faults' \in Nat
  BY <1>1 DEF Logged, LogFails
<1>4. log' = log \/ log' = Append(log, e)
  BY DEF Logged, LogFails
<1> QED
  BY <1>1, <1>2, <1>3, <1>4

\* What a call that is cut off may have been recording.
CallEvents ==
    {"authorization_decision", "authorization_denied", "tool_requested", "approval_granted",
     "approval_required", "tool_authorized", "tool_started", "tool_completed", "tool_failed"}

LEMMA EmitsTyped ==
    ASSUME NEW c
    PROVE  Emits(c) \subseteq CallEvents /\ CallEvents \subseteq EventTypes
  BY DEF Emits, CallEvents, EventTypes

LEMMA CutOffTyped ==
    ASSUME TypeOK, NEW c \in Calls, NEW next \in Raised \cup {"exit"}, CutOff(c, next),
           tool' = tool
    PROVE  /\ log' \in Seq(Events)
           /\ pc' \in [Calls -> Active \cup Raised \cup {"idle", "done", "exit", "abandoned"}]
           /\ \A d \in Calls : pc'[d] # "idle" => tool'[d] \in Tools
<1>1. pc[c] # "idle"
  BY PcTypes DEF CutOff
<1>2. \A type \in Emits(c) : Event(type, c) \in Events
  BY EmitsTyped, EventTyped
<1>3. log' \in Seq(Events)
  BY <1>2 DEF CutOff, TypeOK
<1> QED
  BY <1>1, <1>3 DEF CutOff, TypeOK

\* The shape of a step that emits an event.
LEMMA EmitTyped ==
    ASSUME TypeOK, NEW c \in Calls, NEW type \in EventTypes,
           NEW next \in Active \cup Raised \cup {"done"},
           Emit(c, type, next), tool[c] \in Tools, UNCHANGED <<Other, counters, ran, spent>>
    PROVE  TypeOK'
<1>1. Event(type, c) \in Events
  BY EventTyped
<1>2. log' \in Seq(Events) /\ faults' \in Nat
  BY <1>1, LogTyped DEF Emit
<1>3. pc' \in [Calls -> Active \cup Raised \cup {"idle", "done", "exit", "abandoned"}]
  BY DEF Emit, TypeOK, Raised
<1>4. \A d \in Calls : pc'[d] # "idle" => tool'[d] \in Tools
  BY DEF Emit, TypeOK, Other
<1> QED
  BY <1>2, <1>3, <1>4 DEF TypeOK, Other, counters

LEMMA CallTyped ==
    ASSUME TypeOK, NEW c \in Calls, CallStep(c) \/ HandlerEnds(c) \/ Exit(c)
    PROVE  TypeOK'
<1>0. pc[c] # "idle" => tool[c] \in Tools
  BY DEF TypeOK
<1>1. CASE Access(c)
  <2>1. PICK next \in {"request", "deny"} : Emit(c, "authorization_decision", next)
    BY <1>1 DEF Access
  <2> QED
    BY <1>0, <1>1, <2>1, EmitTyped DEF Access, EventTypes, Active, Preparing
<1>2. CASE Deny(c)
  BY <1>0, <1>2, EmitTyped DEF Deny, EventTypes, Raised
<1>3. CASE Request(c)
  BY <1>0, <1>3, EmitTyped DEF Request, EventTypes, Active, Preparing
<1>4. CASE Approve(c)
  <2>1. CASE Emit(c, "approval_granted", "admit")
    BY <1>0, <1>4, <2>1, EmitTyped DEF Approve, EventTypes, Active, Preparing
  <2>2. CASE Emit(c, "approval_required", "approval")
    BY <1>0, <1>4, <2>2, EmitTyped DEF Approve, EventTypes, Raised
  <2>3. CASE GrantInvalid(c)
    BY <1>0, <1>4, <2>3 DEF Approve, GrantInvalid, TypeOK, Raised, Other, counters
  <2> QED
    BY <1>4, <2>1, <2>2, <2>3 DEF Approve
<1>5. CASE Admit(c)
  <2>1. tool[c] \in Tools /\ Cost[tool[c]] \in Nat
    BY <1>0, <1>5, RunAssumption DEF Admit
  <2>2. toolCalls' \in Nat /\ cost' \in Nat
    BY <1>5, <2>1 DEF Admit, Charge, TypeOK
  <2>3. pc' \in [Calls -> Active \cup Raised \cup {"idle", "done", "exit", "abandoned"}]
    BY <1>5 DEF Admit, TypeOK, Active, Preparing, Raised
  <2>4. \A d \in Calls : pc'[d] # "idle" => tool'[d] \in Tools
    BY <1>5, <2>1 DEF Admit, TypeOK, Other
  <2> QED
    BY <1>5, <2>2, <2>3, <2>4 DEF Admit, TypeOK, Other
<1>6. CASE Authorized(c)
  BY <1>0, <1>6, EmitTyped DEF Authorized, EventTypes, Active, Preparing
<1>7. CASE Started(c)
  <2>1. tool[c] \in Tools /\ Cost[tool[c]] \in Nat
    BY <1>0, <1>7, RunAssumption DEF Started
  <2>2. ran' \in Nat /\ spent' \in Nat
    BY <1>7, <2>1 DEF Started, TypeOK
  <2>3. Event("tool_started", c) \in Events
    BY EventTyped DEF EventTypes
  <2>4. log' \in Seq(Events) /\ faults' \in Nat
    BY <1>7, <2>3, LogTyped DEF Started, StartEvent, Emit
  <2>5. pc' \in [Calls -> Active \cup Raised \cup {"idle", "done", "exit", "abandoned"}]
    BY <1>7 DEF Started, StartEvent, Emit, TypeOK, Active, Raised
  <2>6. \A d \in Calls : pc'[d] # "idle" => tool'[d] \in Tools
    BY <1>7, <2>1 DEF Started, StartEvent, Emit, TypeOK, Other
  <2> QED
    BY <1>7, <2>2, <2>4, <2>5, <2>6 DEF Started, TypeOK, Other, counters
<1>8. CASE CallEnds(c)
  BY <1>0, <1>8, EmitTyped DEF CallEnds, FailEvent, EventTypes, Raised
<1>9. CASE HandlerEnds(c)
  BY <1>0, <1>9 DEF HandlerEnds, TypeOK, Active, Other, counters
<1>10. CASE Unchecked(c) \/ Unfit(c)
  BY <1>0, <1>10 DEF Unchecked, Unfit, TypeOK, Active, Preparing, Raised, Other, counters
<1>11. CASE Exit(c)
  <2>1. CutOff(c, "exit") /\ tool' = tool
    BY <1>11 DEF Exit, Other
  <2> QED
    BY <1>11, <2>1, CutOffTyped DEF Exit, TypeOK, Other, counters
<1> QED
  BY <1>1, <1>2, <1>3, <1>4, <1>5, <1>6, <1>7, <1>8, <1>9, <1>10, <1>11 DEF CallStep

LEMMA AgentTyped ==
    ASSUME TypeOK,
           \/ \E c \in Calls : (\E t \in Tools : BeginCall(c, t)) \/ Catch(c) \/ Propagate(c)
           \/ BumpStep \/ BumpToolCall \/ AddCost \/ AgentEnds
    PROVE  TypeOK'
<1>1. ASSUME NEW c \in Calls, NEW t \in Tools, BeginCall(c, t) PROVE TypeOK'
  <2>1. pc' \in [Calls -> Active \cup Raised \cup {"idle", "done", "exit", "abandoned"}]
    BY <1>1 DEF BeginCall, TypeOK, Active, Preparing, Raised
  <2>2. tool' \in [Calls -> Tools \cup {None}]
        /\ \A d \in Calls : pc'[d] # "idle" => tool'[d] \in Tools
    BY <1>1 DEF BeginCall, TypeOK
  <2>3. inline' \subseteq Calls
    BY <1>1 DEF BeginCall, TypeOK
  <2> QED
    BY <1>1, <2>1, <2>2, <2>3 DEF BeginCall, TypeOK, counters
<1>2. ASSUME NEW c \in Calls, Catch(c) \/ Propagate(c) PROVE TypeOK'
  <2>1. pc[c] # "idle" /\ pc' = [pc EXCEPT ![c] = "done"]
    BY <1>2 DEF Catch, Propagate, Raised
  <2>2. phase' \in Phases
    BY <1>2 DEF Catch, Propagate, TypeOK, Phases
  <2> QED
    BY <1>2, <2>1, <2>2 DEF Catch, Propagate, TypeOK, Rest, counters
<1>3. CASE BumpStep
  BY <1>3 DEF BumpStep, TypeOK, Rest
<1>4. CASE AddCost
  BY <1>4 DEF AddCost, TypeOK, Rest
<1>6. CASE BumpToolCall
  BY <1>6 DEF BumpToolCall, TypeOK, Rest
<1>5. CASE AgentEnds
  BY <1>5 DEF AgentEnds, TypeOK, Phases, Rest, counters
<1> QED
  BY <1>1, <1>2, <1>3, <1>4, <1>5, <1>6

LEMMA InterruptTyped ==
    ASSUME TypeOK, Alarm \/ Timeout \/ Cancel \/ Abort
    PROVE  TypeOK'
<1>1. CASE Alarm
  <2>1. /\ log' \in Seq(Events)
        /\ pc' \in [Calls -> Active \cup Raised \cup {"idle", "done", "exit", "abandoned"}]
        /\ \A d \in Calls : pc'[d] # "idle" => tool'[d] \in Tools
    <3>0. tool' = tool
      BY <1>1 DEF Alarm
    <3>1. ASSUME NEW c \in Calls, CutOff(c, "error")
          PROVE  <2>1!1 /\ <2>1!2 /\ <2>1!3
      BY <3>0, <3>1, CutOffTyped DEF Raised
    <3>2. CASE /\ log' = log
               /\ \/ pc' = pc
                  \/ \E c \in Calls : pc[c] = "running" /\ pc' = [pc EXCEPT ![c] = "fail"]
      BY <3>0, <3>2 DEF TypeOK, Active
    <3> QED
      BY <1>1, <3>1, <3>2 DEF Alarm
  <2>2. phase' \in Phases /\ alarm' \in Calls \cup {"agent", None}
    BY <1>1 DEF Alarm, TypeOK, Phases
  <2> QED
    BY <1>1, <2>1, <2>2 DEF Alarm, TypeOK, counters
<1>2. ASSUME Abandon
      PROVE  /\ pc' \in [Calls -> Active \cup Raised \cup {"idle", "done", "exit", "abandoned"}]
             /\ \A d \in Calls : pc'[d] # "idle" => pc[d] # "idle"
  BY <1>2 DEF Abandon, TypeOK
<1>3. CASE Timeout
  BY <1>2, <1>3 DEF Timeout, TypeOK, Rest, counters
<1>4. CASE Cancel \/ Abort
  <2>1. /\ phase' \in Phases
        /\ outcome' \in Results \cup {"refused", "cancelled", "interrupted", None}
    BY <1>4 DEF Cancel, Abort, Phases, TypeOK
  <2> QED
    BY <1>2, <1>4, <2>1 DEF Cancel, Abort, TypeOK, Rest, counters
<1> QED
  BY <1>1, <1>3, <1>4

LEMMA RunnerTyped ==
    ASSUME TypeOK, RunnerStep
    PROVE  TypeOK'
<1>1. \A type \in {"run_started", "agent_output", "decision_made", "run_failed"} :
        Event(type, None) \in Events
  BY EventTyped DEF EventTypes
<1>2. \A r \in Results : Event("run_completed", r) \in Events
  BY EventTyped DEF EventTypes
<1>3. CASE FirstHeartbeat
  BY <1>3, RunAssumption DEF FirstHeartbeat, Still, counters, TypeOK, Phases, Results
<1>11. CASE Refuse
  BY <1>11 DEF Refuse, TypeOK, Still, counters, Phases
<1>4. CASE Start
  <2>1. log' \in Seq(Events) /\ faults' \in Nat
    BY <1>1, <1>4, LogTyped DEF Start
  <2>2. steps' \in Nat /\ phase' \in Phases /\ result' \in Results \cup {"refused", None}
    BY <1>4 DEF Start, TypeOK, Phases, Results
  <2> QED
    BY <1>4, <2>1, <2>2 DEF Start, TypeOK
<1>5. CASE Success
  <2>1. log' \in Seq(Events) /\ faults' \in Nat
    BY <1>1, <1>2, <1>5, LogTyped DEF Success, Results
  <2>2. phase' \in Phases /\ result' \in Results \cup {"refused", None}
    BY <1>5 DEF Success, SuccessFails, TypeOK, Phases, Results
  <2> QED
    BY <1>5, <2>1, <2>2 DEF Success, TypeOK, Still, counters
<1>6. CASE DecisionRaises
  BY <1>6 DEF DecisionRaises, TypeOK, Still, counters, Phases
<1>7. ASSUME NEW e \in Events, NEW p, NEW next \in Phases, NEW r \in Results \cup {"refused", None},
             Closing(p, e, next, r)
      PROVE  TypeOK'
  <2>1. log' \in Seq(Events) /\ faults' \in Nat
    BY <1>7, LogTyped DEF Closing
  <2>2. phase' \in Phases /\ result' \in Results \cup {"refused", None}
    BY <1>7 DEF Closing, Phases, Results
  <2> QED
    BY <1>7, <2>1, <2>2 DEF Closing, TypeOK, Still, counters
<1>8. CASE ApprovalResult
  <2>1. "pending_completed" \in Phases /\ "heartbeat" \in Phases /\ result \in Results \cup {"refused", None}
    BY DEF Phases, TypeOK
  <2> QED
    BY <1>1, <1>2, <1>7, <1>8, <2>1 DEF ApprovalResult, Results
<1>9. CASE Failure
  <2>1. "failed_completed" \in Phases /\ "heartbeat" \in Phases /\ result \in Results \cup {"refused", None}
    BY DEF Phases, TypeOK
  <2> QED
    BY <1>1, <1>2, <1>7, <1>9, <2>1 DEF Failure, Results
<1>10. CASE LastHeartbeat
  BY <1>10, RunAssumption DEF LastHeartbeat, Still, counters, TypeOK, Phases, Results
<1> QED
  BY <1>3, <1>4, <1>5, <1>6, <1>8, <1>9, <1>10, <1>11 DEF RunnerStep

LEMMA TypeInit == Init => TypeOK
<1> SUFFICES ASSUME Init PROVE TypeOK
  OBVIOUS
<1>1. /\ mode \in Modes /\ phase \in Phases
      /\ inline \subseteq Calls /\ alarm \in Calls \cup {"agent", None}
  BY Zenon DEF Init, Phases
<1>2. /\ log \in Seq(Events)
      /\ steps \in Nat /\ toolCalls \in Nat /\ cost \in Nat
      /\ ran \in Nat /\ spent \in Nat /\ faults \in Nat
  BY SMT DEF Init
<1>3. /\ result \in Results \cup {"refused", None} /\ outcome \in Results \cup {"refused", "cancelled", "interrupted", None}
      /\ pc \in [Calls -> Active \cup Raised \cup {"idle", "done", "exit", "abandoned"}]
      /\ tool \in [Calls -> Tools \cup {None}]
      /\ \A c \in Calls : pc[c] # "idle" => tool[c] \in Tools
  BY DEF Init
<1> QED
  BY <1>1, <1>2, <1>3, Zenon DEF TypeOK

LEMMA TypeNext == TypeOK /\ [Next]_vars => TypeOK'
<1> SUFFICES ASSUME TypeOK, [Next]_vars PROVE TypeOK'
  OBVIOUS
<1>1. CASE UNCHANGED vars
  BY <1>1 DEF TypeOK, vars, counters
<1> QED
  BY <1>1, CallTyped, AgentTyped, InterruptTyped, RunnerTyped DEF Next, Ended

-----------------------------------------------------------------------------
(* The limits. *)

\* A step that takes nothing from the budget.
LEMMA NothingSpent ==
    ASSUME TypeOK, BudgetInv, UNCHANGED <<counters, ran, spent>>,
           phase' \in {"new", "start"} => phase \in {"new", "start"},
           Solo',
           \A c \in Calls : pc'[c] \in {"authorize", "start"} =>
                pc[c] \in {"authorize", "start"} /\ tool'[c] = tool[c]
    PROVE  BudgetInv'
<1>1. Unspent'
  BY DEF BudgetInv, Unspent, counters
<1> QED
  BY <1>1 DEF BudgetInv, BudgetKept, counters

\* A step of a call whose turn it is leaves at most that call preparing.
LEMMA TurnSolo ==
    ASSUME TypeOK, NEW c \in Calls, Turn(c), NEW next, pc' = [pc EXCEPT ![c] = next]
    PROVE  Solo'
  BY DEF TypeOK, Turn, Holds, Solo

LEMMA EmitBudget ==
    ASSUME TypeOK, BudgetInv, NEW c \in Calls, NEW type, NEW next, Emit(c, type, next),
           next \in {"authorize", "start"} => pc[c] \in {"authorize", "start"},
           UNCHANGED <<Other, counters, ran, spent>>
    PROVE  BudgetInv'
<1>1. Turn(c) /\ (pc' = [pc EXCEPT ![c] = next] \/ pc' = [pc EXCEPT ![c] = "error"])
  BY DEF Emit
<1>2. Solo'
  BY <1>1, TurnSolo
<1>3. \A d \in Calls : pc'[d] \in {"authorize", "start"} => pc[d] \in {"authorize", "start"}
  BY <1>1 DEF TypeOK
<1> QED
  BY <1>2, <1>3, NothingSpent DEF Other

LEMMA CallBudget ==
    ASSUME TypeOK, BudgetInv, NEW c \in Calls, CallStep(c) \/ HandlerEnds(c) \/ Exit(c)
    PROVE  BudgetInv'
<1>0. pc[c] # "idle" => tool[c] \in Tools /\ Cost[tool[c]] \in Nat
  BY RunAssumption DEF TypeOK
<1>1. CASE Access(c)
  <2>1. PICK next \in {"request", "deny"} : Emit(c, "authorization_decision", next)
    BY <1>1 DEF Access
  <2> QED
    BY <1>1, <2>1, EmitBudget DEF Access
<1>2. CASE Deny(c)
  BY <1>2, EmitBudget DEF Deny
<1>3. CASE Request(c)
  <2>1. (IF tool[c] \in Protected THEN "approve" ELSE "admit") \notin {"authorize", "start"}
    OBVIOUS
  <2> QED
    BY <1>3, <2>1, EmitBudget DEF Request
<1>10. CASE Unchecked(c) \/ Unfit(c)
  <2>1. PICK next \in {"request", "deny", "error", "violation"} :
            Turn(c) /\ pc' = [pc EXCEPT ![c] = next]
    BY <1>10 DEF Unchecked, Unfit
  <2>2. Solo'
    BY <2>1, TurnSolo
  <2>3. \A d \in Calls : pc'[d] \in {"authorize", "start"} => pc[d] \in {"authorize", "start"}
    BY <2>1 DEF TypeOK
  <2> QED
    BY <1>10, <2>2, <2>3, NothingSpent DEF Unchecked, Unfit, Other
<1>4. CASE Approve(c)
  <2>1. CASE Emit(c, "approval_granted", "admit") \/ Emit(c, "approval_required", "approval")
    BY <1>4, <2>1, EmitBudget DEF Approve
  <2>2. CASE GrantInvalid(c)
    <3>1. Turn(c) /\ pc' = [pc EXCEPT ![c] = "violation"]
      BY <1>4, <2>2 DEF Approve, GrantInvalid
    <3>2. Solo'
      BY <3>1, TurnSolo
    <3>3. \A d \in Calls : pc'[d] \in {"authorize", "start"} => pc[d] \in {"authorize", "start"}
      BY <3>1 DEF TypeOK
    <3> QED
      BY <1>4, <3>2, <3>3, NothingSpent DEF Approve, Other
  <2> QED
    BY <1>4, <2>1, <2>2 DEF Approve
<1>5. CASE Admit(c)
  <2>1. CASE Limits(steps, toolCalls + 1, cost + Cost[tool[c]])
    <3>1. /\ Turn(c) /\ pc' = [pc EXCEPT ![c] = "authorize"]
          /\ toolCalls' = toolCalls + 1 /\ cost' = cost + Cost[tool[c]]
          /\ UNCHANGED <<Other, steps, ran, spent>>
      BY <1>5, <2>1 DEF Admit, Charge
    <3>2. Solo'
      BY <3>1, TurnSolo
    <3>3. \A d \in Calls : pc'[d] \in {"authorize", "start"} => d = c
      BY <3>1 DEF TypeOK, Turn, Holds, Preparing
    <3>4. ran <= toolCalls /\ spent <= cost /\ Cost[tool[c]] \in Nat
      BY <1>0, <1>5 DEF BudgetInv, BudgetKept, Admit
    <3>5. ran + 1 <= toolCalls' /\ spent + Cost[tool[c]] <= cost'
      BY <3>1, <3>4 DEF TypeOK
    <3>6. Unspent'
      BY <3>1, <3>3, <3>5 DEF Unspent, Other
    <3>7. BudgetKept'
      <4>1. steps' <= MaxSteps /\ toolCalls' <= MaxCalls /\ cost' <= MaxCost
        BY <2>1, <3>1 DEF Limits
      <4>2. ran' <= toolCalls' /\ spent' <= cost'
        BY <3>1, <3>4 DEF TypeOK
      <4> QED
        BY <4>1, <4>2 DEF BudgetKept
    <3> QED
      BY <3>1, <3>2, <3>6, <3>7 DEF BudgetInv, Other
  <2>2. CASE ~Limits(steps, toolCalls + 1, cost + Cost[tool[c]])
    <3>1. /\ Turn(c) /\ pc' = [pc EXCEPT ![c] = "violation"]
          /\ UNCHANGED <<Other, counters, ran, spent>>
      BY <1>5, <2>2 DEF Admit, counters
    <3>2. Solo'
      BY <3>1, TurnSolo
    <3>3. \A d \in Calls : pc'[d] \in {"authorize", "start"} => pc[d] \in {"authorize", "start"}
      BY <3>1 DEF TypeOK
    <3> QED
      BY <3>1, <3>2, <3>3, NothingSpent DEF Other
  <2> QED BY <2>1, <2>2
<1>6. CASE Authorized(c)
  BY <1>6, EmitBudget DEF Authorized
<1>7. CASE Started(c)
  <2>1. CASE pc'[c] = "running"
    <3>1. /\ Turn(c) /\ pc' = [pc EXCEPT ![c] = "running"]
          /\ ran' = ran + 1 /\ spent' = spent + Cost[tool[c]]
          /\ UNCHANGED <<Other, counters>> /\ pc[c] = "start"
      BY <1>7, <2>1 DEF Started, StartEvent, Emit, TypeOK
    <3>2. Solo'
      BY <3>1, TurnSolo
    <3>3. \A d \in Calls : pc'[d] \notin {"authorize", "start"}
      BY <3>1 DEF TypeOK, Turn, Holds, Preparing
    <3>4. ran + 1 <= toolCalls /\ spent + Cost[tool[c]] <= cost
      BY <3>1 DEF BudgetInv, Unspent
    <3> QED
      BY <3>1, <3>2, <3>3, <3>4 DEF BudgetInv, BudgetKept, Unspent, Other, counters
  <2>2. CASE pc'[c] # "running"
    <3>1. Emit(c, "tool_started", "running") /\ UNCHANGED <<Other, counters, ran, spent>>
      BY <1>7, <2>2 DEF Started, StartEvent
    <3> QED
      BY <3>1, EmitBudget
  <2> QED BY <2>1, <2>2
<1>8. CASE CallEnds(c)
  BY <1>8, EmitBudget DEF CallEnds, FailEvent
<1>9. CASE HandlerEnds(c)
  <2>1. PICK next \in {"complete", "fail"} : pc' = [pc EXCEPT ![c] = next]
    BY <1>9 DEF HandlerEnds
  <2>2. Solo'
    BY <1>9, <2>1, TurnSolo DEF HandlerEnds
  <2>3. \A d \in Calls : pc'[d] \in {"authorize", "start"} => pc[d] \in {"authorize", "start"}
    BY <2>1 DEF TypeOK
  <2> QED
    BY <1>9, <2>2, <2>3, NothingSpent DEF HandlerEnds, Other
<1>11. CASE Exit(c)
  <2>1. Turn(c) /\ pc' = [pc EXCEPT ![c] = "exit"]
    BY <1>11 DEF Exit, CutOff
  <2>2. Solo'
    BY <2>1, TurnSolo
  <2>3. \A d \in Calls : pc'[d] \in {"authorize", "start"} => pc[d] \in {"authorize", "start"}
    BY <2>1 DEF TypeOK
  <2> QED
    BY <1>11, <2>2, <2>3, NothingSpent DEF Exit, Other
<1> QED
  BY <1>1, <1>2, <1>3, <1>4, <1>5, <1>6, <1>7, <1>8, <1>9, <1>10, <1>11 DEF CallStep

LEMMA AgentBudget ==
    ASSUME TypeOK, BudgetInv,
           \/ \E c \in Calls : (\E t \in Tools : BeginCall(c, t)) \/ Catch(c) \/ Propagate(c)
           \/ BumpStep \/ BumpToolCall \/ AddCost \/ AgentEnds
    PROVE  BudgetInv'
<1>1. ASSUME NEW c \in Calls, NEW t \in Tools, BeginCall(c, t) PROVE BudgetInv'
  <2>1. PICK next \in {"access", "violation"} : pc' = [pc EXCEPT ![c] = next]
    BY <1>1 DEF BeginCall
  <2>2. Solo'
    BY <1>1, <2>1, TurnSolo DEF BeginCall
  <2>3. \A d \in Calls : pc'[d] \in {"authorize", "start"} =>
            pc[d] \in {"authorize", "start"} /\ tool'[d] = tool[d]
    BY <1>1, <2>1 DEF TypeOK, BeginCall
  <2> QED
    BY <1>1, <2>2, <2>3, NothingSpent DEF BeginCall
<1>2. ASSUME NEW c \in Calls, Catch(c) \/ Propagate(c) PROVE BudgetInv'
  <2>1. /\ pc' = [pc EXCEPT ![c] = "done"]
        /\ phase' \in {"new", "start"} => phase \in {"new", "start"}
        /\ UNCHANGED <<counters, ran, spent, tool>>
    BY <1>2 DEF Catch, Propagate, Rest
  <2>2. Solo'
    BY <2>1 DEF BudgetInv, Solo, TypeOK, Preparing
  <2>3. \A d \in Calls : pc'[d] \in {"authorize", "start"} => pc[d] \in {"authorize", "start"}
    BY <2>1 DEF TypeOK
  <2> QED
    BY <2>1, <2>2, <2>3, NothingSpent
<1>3. CASE BumpStep \/ BumpToolCall \/ AddCost
  <2>1. /\ \A c \in Calls : pc[c] \notin Preparing
        /\ phase = "agent" /\ UNCHANGED <<pc, phase, ran, spent>>
    BY <1>3 DEF BumpStep, BumpToolCall, AddCost, AgentActs, Holds, Rest
  <2>2. BudgetKept'
    BY <1>3, <2>1 DEF BumpStep, BumpToolCall, AddCost, BudgetInv, BudgetKept, Limits, TypeOK
  <2> QED
    BY <2>1, <2>2 DEF BudgetInv, Solo, Unspent, Preparing
<1>4. CASE AgentEnds
  <2>1. Solo'
    BY <1>4 DEF AgentEnds, BudgetInv, Solo
  <2> QED
    BY <1>4, <2>1, NothingSpent DEF AgentEnds, Rest
<1> QED
  BY <1>1, <1>2, <1>3, <1>4

LEMMA OtherBudget ==
    ASSUME TypeOK, BudgetInv, Alarm \/ Timeout \/ Cancel \/ Abort \/ RunnerStep \/ UNCHANGED vars
    PROVE  BudgetInv'
<1>1. ASSUME \A d \in Calls : pc'[d] \in Preparing => pc'[d] = pc[d]
      PROVE  Solo' /\ (\A d \in Calls : pc'[d] \in {"authorize", "start"} =>
                            pc[d] \in {"authorize", "start"})
  <2>1. "authorize" \in Preparing /\ "start" \in Preparing
    BY DEF Preparing
  <2> QED
    BY <1>1, <2>1 DEF BudgetInv, Solo
<1>2. CASE Alarm
  <2>1. \A d \in Calls : pc'[d] \in Preparing => pc'[d] = pc[d]
    BY <1>2 DEF Alarm, CutOff, TypeOK, Preparing
  <2> QED
    BY <1>1, <1>2, <2>1, NothingSpent DEF Alarm
<1>3. CASE Timeout \/ Cancel \/ Abort
  <2>1. \A d \in Calls : pc'[d] \in Preparing => pc'[d] = pc[d]
    BY <1>3 DEF Timeout, Cancel, Abort, Abandon, Preparing
  <2> QED
    BY <1>1, <1>3, <2>1, NothingSpent DEF Timeout, Cancel, Abort, Rest
<1>4. CASE Start
  <2>1. steps = 0 /\ steps' \in {0, 1} /\ phase' \notin {"new", "start"}
        /\ UNCHANGED <<toolCalls, cost, pc, tool, ran, spent>>
    BY <1>4 DEF Start, BudgetInv
  <2> QED
    BY <2>1, RunAssumption DEF BudgetInv, BudgetKept, Solo, Unspent
<1>5. ASSUME UNCHANGED Still, phase' \in {"new", "start"} => phase \in {"new", "start"}
      PROVE  BudgetInv'
  BY <1>1, <1>5, NothingSpent DEF Still
<1>6. CASE FirstHeartbeat \/ Refuse \/ Success \/ DecisionRaises \/ ApprovalResult \/ Failure \/ LastHeartbeat
  BY <1>5, <1>6 DEF FirstHeartbeat, Refuse, Success, SuccessFails, DecisionRaises, ApprovalResult,
                    Failure, Closing, LastHeartbeat
<1>7. CASE UNCHANGED vars
  BY <1>5, <1>7 DEF vars, Still, counters
<1> QED
  BY <1>2, <1>3, <1>4, <1>6, <1>7 DEF RunnerStep

-----------------------------------------------------------------------------
(* Theorems: types and limits. *)

\* Every variable keeps its type; a call that has begun has its tool.
THEOREM TypeCorrect == Spec => []TypeOK
  BY TypeInit, TypeNext, PTL DEF Spec

\* Guardrails' limits are never exceeded, and no handler runs unpaid, for any
\* number of calls that overlap, fail or are left behind.
THEOREM BudgetHolds == Spec => []BudgetKept
<1>1. Init => BudgetInv
  <2> SUFFICES ASSUME Init PROVE BudgetInv
    OBVIOUS
  <2>1. \A c \in Calls : pc[c] = "idle"
    BY DEF Init
  <2>2. 0 <= MaxSteps /\ 0 <= MaxCalls /\ 0 <= MaxCost
    BY RunAssumption
  <2> QED
    BY <2>1, <2>2 DEF Init, BudgetInv, BudgetKept, Solo, Unspent, Preparing
<1>2. TypeOK /\ BudgetInv /\ [Next]_vars => BudgetInv'
  BY CallBudget, AgentBudget, OtherBudget DEF Next, Ended
<1>3. BudgetInv => BudgetKept
  BY DEF BudgetInv
<1> QED
  BY <1>1, <1>2, <1>3, TypeCorrect, PTL DEF Spec

-----------------------------------------------------------------------------
(* The audit trail of a call. *)

\* The log of a step: unchanged, or one event longer.
Grows == log' = log \/ \E e \in Events : log' = Append(log, e)

Asked(c) ==
    \E i \in 1..Len(log) :
        /\ log[i] = Event("tool_requested", c)
        /\ tool[c] \in Protected => \E a \in i..Len(log) : log[a] = Event("approval_granted", c)
Cleared(c) ==
    \E i, j \in 1..Len(log) :
        /\ i < j
        /\ log[i] = Event("tool_requested", c)
        /\ log[j] = Event("tool_authorized", c)
        /\ tool[c] \in Protected => \E a \in i..j : log[a] = Event("approval_granted", c)
Audited(c) ==
    \E i, j, k \in 1..Len(log) :
        /\ i < j /\ j < k
        /\ log[i] = Event("tool_requested", c)
        /\ log[j] = Event("tool_authorized", c)
        /\ log[k] = Event("tool_started", c)
        /\ tool[c] \in Protected => \E a \in i..j : log[a] = Event("approval_granted", c)

Handled == {"running", "complete", "fail", "abandoned"}

\* What is on record of a call that has got to p.
Trail(c, p) ==
    /\ p = "approve" => Recorded("tool_requested", c)
    /\ p \in {"admit", "authorize"} => Asked(c)
    /\ p = "start" => Cleared(c)
    /\ p \in Handled => Audited(c)

TrailInv == \A c \in Calls : Trail(c, pc[c])

\* A log that grows keeps what it holds where it was.
LEMMA GrowsKeeps ==
    ASSUME TypeOK, Grows
    PROVE  /\ Len(log) \in Nat /\ Len(log') \in Nat /\ Len(log) <= Len(log')
           /\ \A i \in 1..Len(log) : log'[i] = log[i]
<1>1. log \in Seq(Events)
  BY DEF TypeOK
<1>2. ASSUME NEW e \in Events, log' = Append(log, e)
      PROVE  /\ Len(log) \in Nat /\ Len(log') \in Nat /\ Len(log) <= Len(log')
             /\ \A i \in 1..Len(log) : log'[i] = log[i]
  BY <1>1, <1>2
<1> QED
  BY <1>1, <1>2 DEF Grows

LEMMA AppendLast ==
    ASSUME TypeOK, NEW e \in Events, log' = Append(log, e)
    PROVE  Len(log') = Len(log) + 1 /\ log'[Len(log')] = e
<1>1. log \in Seq(Events)
  BY DEF TypeOK
<1> QED
  BY <1>1

\* What is on record of a call stays on record.
LEMMA TrailGrows ==
    ASSUME TypeOK, Grows, NEW c \in Calls, tool'[c] = tool[c], NEW p, Trail(c, p)
    PROVE  Trail(c, p)'
<1>1. /\ Len(log) \in Nat /\ Len(log') \in Nat /\ Len(log) <= Len(log')
      /\ \A i \in 1..Len(log) : log'[i] = log[i]
  BY GrowsKeeps
<1>2. 1..Len(log) \subseteq 1..Len(log')
  BY <1>1
<1>3. Recorded("tool_requested", c) => Recorded("tool_requested", c)'
  BY <1>1, <1>2 DEF Recorded, Event
<1>4. Asked(c) => Asked(c)'
  <2> SUFFICES ASSUME Asked(c) PROVE Asked(c)'
    OBVIOUS
  <2>1. PICK i \in 1..Len(log) :
            /\ log[i] = Event("tool_requested", c)
            /\ tool[c] \in Protected => \E a \in i..Len(log) : log[a] = Event("approval_granted", c)
    BY DEF Asked
  <2>2. i..Len(log) \subseteq 1..Len(log) /\ i..Len(log) \subseteq i..Len(log')
    BY <1>1
  <2>3. tool[c] \in Protected => \E a \in i..Len(log') : log'[a] = Event("approval_granted", c)
    BY <2>1, <2>2, <1>1
  <2> QED
    BY <2>1, <2>3, <1>1, <1>2 DEF Asked, Event
<1>5. Cleared(c) => Cleared(c)'
  <2> SUFFICES ASSUME Cleared(c) PROVE Cleared(c)'
    OBVIOUS
  <2>1. PICK i, j \in 1..Len(log) :
            /\ i < j
            /\ log[i] = Event("tool_requested", c)
            /\ log[j] = Event("tool_authorized", c)
            /\ tool[c] \in Protected => \E a \in i..j : log[a] = Event("approval_granted", c)
    BY DEF Cleared
  <2>2. i..j \subseteq 1..Len(log)
    BY <1>1
  <2>3. tool[c] \in Protected => \E a \in i..j : log'[a] = Event("approval_granted", c)
    BY <2>1, <2>2, <1>1
  <2>4. /\ log'[i] = Event("tool_requested", c) /\ log'[j] = Event("tool_authorized", c)
        /\ i \in 1..Len(log') /\ j \in 1..Len(log')
    BY <2>1, <1>1, <1>2
  <2> QED
    BY <2>1, <2>3, <2>4 DEF Cleared, Event
<1>6. Audited(c) => Audited(c)'
  <2> SUFFICES ASSUME Audited(c) PROVE Audited(c)'
    OBVIOUS
  <2>1. PICK i, j, k \in 1..Len(log) :
            /\ i < j /\ j < k
            /\ log[i] = Event("tool_requested", c)
            /\ log[j] = Event("tool_authorized", c)
            /\ log[k] = Event("tool_started", c)
            /\ tool[c] \in Protected => \E a \in i..j : log[a] = Event("approval_granted", c)
    BY DEF Audited
  <2>2. i..j \subseteq 1..Len(log)
    BY <1>1
  <2>3. tool[c] \in Protected => \E a \in i..j : log'[a] = Event("approval_granted", c)
    BY <2>1, <2>2, <1>1
  <2>4. /\ log'[i] = Event("tool_requested", c) /\ log'[j] = Event("tool_authorized", c)
        /\ log'[k] = Event("tool_started", c)
        /\ i \in 1..Len(log') /\ j \in 1..Len(log') /\ k \in 1..Len(log')
    BY <2>1, <1>1, <1>2
  <2> QED
    BY <2>1, <2>3, <2>4 DEF Audited, Event
<1> QED
  BY <1>3, <1>4, <1>5, <1>6 DEF Trail

\* A step that moves one call to next, where its trail is in order.
LEMMA OneCallMoves ==
    ASSUME TypeOK, TrailInv, Grows, NEW c \in Calls, NEW next,
           pc' = [pc EXCEPT ![c] = next], \A d \in Calls \ {c} : tool'[d] = tool[d],
           Trail(c, next)'
    PROVE  TrailInv'
<1> SUFFICES ASSUME NEW d \in Calls PROVE Trail(d, pc[d])'
  BY DEF TrailInv
<1>1. CASE d = c
  <2>1. pc'[d] = next
    BY <1>1 DEF TypeOK
  <2> QED
    BY <1>1, <2>1
<1>2. CASE d # c
  <2>1. pc'[d] = pc[d] /\ Trail(d, pc[d])
    BY <1>2 DEF TypeOK, TrailInv
  <2> QED
    BY <1>2, <2>1, TrailGrows
<1> QED BY <1>1, <1>2

\* Where nothing need be on record.
Free == {"idle", "access", "deny", "request", "violation", "approval", "error", "exit", "done"}
LEMMA FreeTrail ==
    ASSUME NEW c \in Calls, NEW p \in Free
    PROVE  Trail(c, p)'
  BY DEF Trail, Free, Handled

LEMMA LogGrows ==
    ASSUME NEW e \in Events, Logged(e) \/ LogFails(e)
    PROVE  Grows
  BY DEF Grows, Logged, LogFails

\* A call that emits an event: trailing records what its next place needs.
LEMMA EmitTrail ==
    ASSUME TypeOK, TrailInv, NEW c \in Calls, NEW type \in EventTypes, NEW next,
           Emit(c, type, next), UNCHANGED Other,
           log' = Append(log, Event(type, c)) => Trail(c, next)'
    PROVE  TrailInv'
<1>1. Event(type, c) \in Events
  BY EventTyped
<1>2. Grows
  BY <1>1, LogGrows DEF Emit
<1>3. "error" \in Free
  BY DEF Free
<1>4. CASE Logged(Event(type, c)) /\ pc' = [pc EXCEPT ![c] = next]
  BY <1>2, <1>4, OneCallMoves DEF Logged, Other
<1>5. CASE pc' = [pc EXCEPT ![c] = "error"]
  BY <1>2, <1>3, <1>5, FreeTrail, OneCallMoves DEF Other
<1> QED
  BY <1>4, <1>5 DEF Emit

\* A call that is cut off.
LEMMA CutOffTrail ==
    ASSUME TypeOK, TrailInv, NEW c \in Calls, NEW next \in Free, CutOff(c, next), tool' = tool
    PROVE  TrailInv'
<1>1. \A type \in Emits(c) : Event(type, c) \in Events
  BY EmitsTyped, EventTyped
<1>2. Grows /\ pc' = [pc EXCEPT ![c] = next]
  BY <1>1 DEF CutOff, Grows
<1> QED
  BY <1>2, FreeTrail, OneCallMoves

LEMMA CallTrail ==
    ASSUME TypeOK, TrailInv, NEW c \in Calls, CallStep(c) \/ HandlerEnds(c) \/ Exit(c)
    PROVE  TrailInv'
<1>0. Trail(c, pc[c])
  BY DEF TrailInv
<1>1. CASE Access(c)
  <2>1. PICK next \in {"request", "deny"} : Emit(c, "authorization_decision", next)
    BY <1>1 DEF Access
  <2>2. next \in Free
    BY DEF Free
  <2> QED
    BY <1>1, <2>1, <2>2, FreeTrail, EmitTrail DEF Access, EventTypes
<1>2. CASE Deny(c)
  BY <1>2, FreeTrail, EmitTrail DEF Deny, EventTypes, Free
<1>3. CASE Request(c)
  <2>0. UNCHANGED Other /\ "tool_requested" \in EventTypes
    BY <1>3 DEF Request, EventTypes
  <2>1. ASSUME log' = Append(log, Event("tool_requested", c))
        PROVE  Len(log') \in 1..Len(log') /\ log'[Len(log')] = Event("tool_requested", c)
    BY <2>0, <2>1, AppendLast, EventTyped DEF TypeOK
  <2>2. CASE tool[c] \in Protected
    <3>1. ASSUME log' = Append(log, Event("tool_requested", c)) PROVE Trail(c, "approve")'
      BY <2>1, <3>1 DEF Trail, Recorded, Handled, Event
    <3> QED
      BY <1>3, <2>0, <2>2, <3>1, EmitTrail DEF Request
  <2>3. CASE tool[c] \notin Protected
    <3>1. ASSUME log' = Append(log, Event("tool_requested", c)) PROVE Trail(c, "admit")'
      <4>1. tool'[c] \notin Protected
        BY <2>0, <2>3 DEF Other
      <4> QED
        BY <2>1, <3>1, <4>1 DEF Trail, Asked, Handled, Event
    <3> QED
      BY <1>3, <2>0, <2>3, <3>1, EmitTrail DEF Request
  <2> QED BY <2>2, <2>3
<1>10. CASE Unchecked(c) \/ Unfit(c)
  <2>1. PICK next \in Free : pc' = [pc EXCEPT ![c] = next]
    BY <1>10 DEF Unchecked, Unfit, Free
  <2>2. Grows /\ UNCHANGED Other
    BY <1>10 DEF Unchecked, Unfit, Grows
  <2> QED
    BY <2>1, <2>2, FreeTrail, OneCallMoves DEF Other
<1>4. CASE Approve(c)
  <2>0. UNCHANGED Other /\ "approval_granted" \in EventTypes /\ "approval_required" \in EventTypes
    BY <1>4 DEF Approve, EventTypes
  <2>1. CASE Emit(c, "approval_granted", "admit")
    <3>1. ASSUME log' = Append(log, Event("approval_granted", c)) PROVE Trail(c, "admit")'
      <4>1. Event("approval_granted", c) \in Events
        BY <2>0, EventTyped
      <4>2. Len(log') = Len(log) + 1 /\ log'[Len(log')] = Event("approval_granted", c) /\ Grows
        BY <3>1, <4>1, AppendLast DEF Grows
      <4>3. PICK i \in 1..Len(log) : log[i] = Event("tool_requested", c)
        BY <1>0, <1>4 DEF Trail, Recorded, Approve
      <4>4. /\ log'[i] = Event("tool_requested", c) /\ i \in 1..Len(log')
            /\ Len(log') \in i..Len(log')
        BY <4>2, <4>3, GrowsKeeps
      <4> QED
        BY <4>2, <4>4 DEF Trail, Asked, Handled, Event
    <3> QED
      BY <2>0, <2>1, <3>1, EmitTrail
  <2>2. CASE Emit(c, "approval_required", "approval")
    BY <2>0, <2>2, FreeTrail, EmitTrail DEF Free
  <2>3. CASE GrantInvalid(c)
    BY <2>0, <2>3, FreeTrail, OneCallMoves DEF GrantInvalid, Free, Grows, Other
  <2> QED
    BY <1>4, <2>1, <2>2, <2>3 DEF Approve
<1>5. CASE Admit(c)
  <2>1. Grows /\ UNCHANGED Other /\ log' = log
    BY <1>5 DEF Admit, Grows
  <2>2. CASE pc' = [pc EXCEPT ![c] = "authorize"]
    <3>1. Trail(c, "authorize")
      BY <1>0, <1>5 DEF Trail, Admit, Handled
    <3>2. Trail(c, "authorize")'
      BY <2>1, <3>1, TrailGrows DEF Other
    <3> QED
      BY <2>1, <2>2, <3>2, OneCallMoves DEF Other
  <2>3. CASE pc' = [pc EXCEPT ![c] = "violation"]
    BY <2>1, <2>3, FreeTrail, OneCallMoves DEF Free, Other
  <2> QED
    BY <1>5, <2>2, <2>3 DEF Admit
<1>6. CASE Authorized(c)
  <2>0. UNCHANGED Other /\ "tool_authorized" \in EventTypes
    BY <1>6 DEF Authorized, EventTypes
  <2>1. ASSUME log' = Append(log, Event("tool_authorized", c)) PROVE Trail(c, "start")'
    <3>1. Event("tool_authorized", c) \in Events
      BY <2>0, EventTyped
    <3>2. Len(log') = Len(log) + 1 /\ log'[Len(log')] = Event("tool_authorized", c) /\ Grows
      BY <2>1, <3>1, AppendLast DEF Grows
    <3>3. PICK i \in 1..Len(log) :
            /\ log[i] = Event("tool_requested", c)
            /\ tool[c] \in Protected =>
                \E a \in i..Len(log) : log[a] = Event("approval_granted", c)
      BY <1>0, <1>6 DEF Trail, Asked, Authorized
    <3>4. /\ log'[i] = Event("tool_requested", c) /\ i \in 1..Len(log') /\ i < Len(log')
          /\ Len(log') \in 1..Len(log')
      BY <3>2, <3>3, GrowsKeeps
    <3>5. tool[c] \in Protected =>
            \E a \in i..Len(log') : log'[a] = Event("approval_granted", c)
      <4> SUFFICES ASSUME NEW a \in i..Len(log), log[a] = Event("approval_granted", c)
                   PROVE  a \in i..Len(log') /\ log'[a] = Event("approval_granted", c)
        BY <3>3
      <4> QED
        BY <3>2, GrowsKeeps
    <3>6. tool'[c] = tool[c]
      BY <2>0 DEF Other
    <3> QED
      BY <3>2, <3>4, <3>5, <3>6 DEF Trail, Cleared, Handled, Event
  <2> QED
    BY <1>6, <2>0, <2>1, EmitTrail DEF Authorized
<1>7. CASE Started(c)
  <2>0. UNCHANGED Other /\ "tool_started" \in EventTypes
    BY <1>7 DEF Started, EventTypes
  <2>1. ASSUME log' = Append(log, Event("tool_started", c)) PROVE Trail(c, "running")'
    <3>1. Event("tool_started", c) \in Events
      BY <2>0, EventTyped
    <3>2. Len(log') = Len(log) + 1 /\ log'[Len(log')] = Event("tool_started", c) /\ Grows
      BY <2>1, <3>1, AppendLast DEF Grows
    <3>3. PICK i, j \in 1..Len(log) :
            /\ i < j
            /\ log[i] = Event("tool_requested", c)
            /\ log[j] = Event("tool_authorized", c)
            /\ tool[c] \in Protected => \E a \in i..j : log[a] = Event("approval_granted", c)
      BY <1>0, <1>7 DEF Trail, Cleared, Started
    <3>4. /\ log'[i] = Event("tool_requested", c) /\ i \in 1..Len(log')
          /\ log'[j] = Event("tool_authorized", c) /\ j \in 1..Len(log')
          /\ j < Len(log') /\ Len(log') \in 1..Len(log')
      BY <3>2, <3>3, GrowsKeeps
    <3>5. tool[c] \in Protected => \E a \in i..j : log'[a] = Event("approval_granted", c)
      <4> SUFFICES ASSUME NEW a \in i..j, log[a] = Event("approval_granted", c)
                   PROVE  log'[a] = Event("approval_granted", c)
        BY <3>3
      <4> QED
        BY <3>2, GrowsKeeps
    <3>6. tool'[c] = tool[c]
      BY <2>0 DEF Other
    <3> QED
      BY <3>2, <3>3, <3>4, <3>5, <3>6 DEF Trail, Audited, Handled, Event
  <2> QED
    BY <1>7, <2>0, <2>1, EmitTrail DEF Started, StartEvent
<1>8. CASE CallEnds(c)
  BY <1>8, FreeTrail, EmitTrail DEF CallEnds, FailEvent, EventTypes, Free
<1>9. CASE HandlerEnds(c)
  <2>1. PICK next \in {"complete", "fail"} : pc' = [pc EXCEPT ![c] = next]
    BY <1>9 DEF HandlerEnds
  <2>2. Grows /\ UNCHANGED Other
    BY <1>9 DEF HandlerEnds, Grows
  <2>3. Trail(c, next)
    BY <1>0, <1>9 DEF Trail, HandlerEnds, Handled
  <2>4. Trail(c, next)'
    BY <2>2, <2>3, TrailGrows DEF Other
  <2> QED
    BY <2>1, <2>2, <2>4, OneCallMoves DEF Other
<1>11. CASE Exit(c)
  BY <1>11, CutOffTrail DEF Exit, Free, Other
<1> QED
  BY <1>1, <1>2, <1>3, <1>4, <1>5, <1>6, <1>7, <1>8, <1>9, <1>10, <1>11 DEF CallStep

\* Every other step leaves a call where it is, or where less is needed.
LEMMA OtherTrail ==
    ASSUME TypeOK, TrailInv,
           \/ \E c \in Calls : (\E t \in Tools : BeginCall(c, t)) \/ Catch(c) \/ Propagate(c)
           \/ BumpStep \/ BumpToolCall \/ AddCost \/ AgentEnds
           \/ Alarm \/ Timeout \/ Cancel \/ Abort \/ RunnerStep
           \/ UNCHANGED vars
    PROVE  TrailInv'
<1>1. ASSUME NEW c \in Calls, NEW t \in Tools, BeginCall(c, t) PROVE TrailInv'
  <2>1. PICK next \in {"access", "violation"} : pc' = [pc EXCEPT ![c] = next]
    BY <1>1 DEF BeginCall
  <2>2. Trail(c, next)'
    BY <2>1, FreeTrail DEF Free
  <2>3. Grows /\ \A d \in Calls \ {c} : tool'[d] = tool[d]
    BY <1>1 DEF BeginCall, Grows, TypeOK
  <2> QED
    BY <2>1, <2>2, <2>3, OneCallMoves
<1>2. ASSUME NEW c \in Calls, Catch(c) \/ Propagate(c) PROVE TrailInv'
  <2>1. pc' = [pc EXCEPT ![c] = "done"] /\ Grows /\ tool' = tool
    BY <1>2 DEF Catch, Propagate, Rest, Grows
  <2> QED
    BY <2>1, FreeTrail, OneCallMoves DEF Free
<1>3. ASSUME Grows, tool' = tool,
             \A c \in Calls : \/ pc'[c] = pc[c]
                              \/ pc'[c] \in Free
                              \/ pc'[c] \in Handled /\ pc[c] \in Handled
      PROVE  TrailInv'
  <2> SUFFICES ASSUME NEW c \in Calls PROVE Trail(c, pc[c])'
    BY DEF TrailInv
  <2>1. Trail(c, pc[c])
    BY DEF TrailInv
  <2>2. CASE pc'[c] \in Free
    BY <2>2, FreeTrail
  <2>3. CASE pc'[c] = pc[c] \/ (pc'[c] \in Handled /\ pc[c] \in Handled)
    <3>1. Trail(c, pc'[c])
      BY <2>1, <2>3 DEF Trail, Handled
    <3> QED
      BY <1>3, <3>1, TrailGrows
  <2> QED BY <1>3, <2>2, <2>3
<1>4. CASE BumpStep \/ BumpToolCall \/ AddCost \/ AgentEnds \/ UNCHANGED vars
  BY <1>3, <1>4 DEF BumpStep, BumpToolCall, AddCost, AgentEnds, Rest, Grows, vars
<1>5. CASE Alarm
  <2>1. ASSUME NEW c \in Calls, CutOff(c, "error") PROVE TrailInv'
    BY <1>5, <2>1, CutOffTrail DEF Alarm, Free
  <2>2. CASE /\ log' = log
             /\ \/ pc' = pc
                \/ \E c \in Calls : pc[c] = "running" /\ pc' = [pc EXCEPT ![c] = "fail"]
    <3>1. \A c \in Calls : pc'[c] = pc[c] \/ (pc'[c] \in Handled /\ pc[c] \in Handled)
      BY <2>2 DEF TypeOK, Handled
    <3> QED
      BY <1>3, <1>5, <2>2, <3>1 DEF Alarm, Grows
  <2> QED
    BY <1>5, <2>1, <2>2 DEF Alarm
<1>6. CASE Timeout \/ Cancel \/ Abort
  <2>0. PICK S \in SUBSET {c \in Calls \ inline : pc[c] \in {"running", "complete", "fail"}} :
            pc' = [c \in Calls |-> IF c \in S THEN "abandoned" ELSE pc[c]]
    BY <1>6 DEF Timeout, Cancel, Abort, Abandon
  <2>1. \A c \in Calls : \/ pc'[c] = pc[c]
                         \/ pc'[c] \in Handled /\ pc[c] \in Handled
    BY <2>0 DEF Handled
  <2> QED
    BY <1>3, <1>6, <2>1 DEF Timeout, Cancel, Abort, Rest, Grows
<1>7. CASE RunnerStep
  <2>1. Grows
    <3>1. \A type \in {"run_started", "agent_output", "decision_made", "run_failed"} :
            Event(type, None) \in Events
      BY EventTyped DEF EventTypes
    <3>2. \A r \in Results : Event("run_completed", r) \in Events
      BY EventTyped DEF EventTypes
    <3>3. CASE FirstHeartbeat \/ Refuse \/ DecisionRaises \/ LastHeartbeat
      BY <3>3 DEF FirstHeartbeat, Refuse, DecisionRaises, LastHeartbeat, Grows
    <3>4. CASE Start
      BY <3>1, <3>4, LogGrows DEF Start
    <3>5. CASE Success
      BY <3>1, <3>2, <3>5, LogGrows DEF Success, Results
    <3>6. CASE ApprovalResult \/ Failure
      BY <3>1, <3>2, <3>6, LogGrows DEF ApprovalResult, Failure, Closing, Results
    <3> QED
      BY <1>7, <3>3, <3>4, <3>5, <3>6 DEF RunnerStep
  <2>2. UNCHANGED <<pc, tool>>
    BY <1>7 DEF RunnerStep, FirstHeartbeat, Refuse, Start, Success, DecisionRaises, ApprovalResult,
                Failure, Closing, LastHeartbeat, Still
  <2> QED
    BY <1>3, <2>1, <2>2
<1> QED
  BY <1>1, <1>2, <1>4, <1>5, <1>6, <1>7

\* No handler runs before its request, approval, authorization and start are
\* on record in that order, whichever records fail and whoever interrupts.
THEOREM ExecutionOnRecord == Spec => []ExecutionAudited
<1>1. Init => TrailInv
  <2> SUFFICES ASSUME Init, NEW c \in Calls PROVE Trail(c, pc[c])
    BY DEF TrailInv
  <2> QED
    BY DEF Init, Trail, Handled
<1>2. TypeOK /\ TrailInv /\ [Next]_vars => TrailInv'
  BY CallTrail, OtherTrail DEF Next, Ended
<1>3. TrailInv => ExecutionAudited
  BY DEF TrailInv, Trail, ExecutionAudited, Audited, Handled
<1> QED
  BY <1>1, <1>2, <1>3, TypeCorrect, PTL DEF Spec

-----------------------------------------------------------------------------
(* What the caller gets, and the end of the trail. *)

Opened == Recorded("run_started", None)
Completed(r) == Recorded("run_completed", r)

CompletionInv ==
    /\ phase \in {"new", "start"} => ~Opened
    /\ phase \in {"new", "start", "agent", "output", "decision", "completed", "pending",
                 "pending_completed"} => \A r \in Results : ~Completed(r)
    /\ phase \in {"failed", "failed_completed"} /\ faults = 0 => \A r \in Results : ~Completed(r)
    /\ phase = "heartbeat" =>
        /\ result \in Results \cup {"refused"}
        /\ result = "refused" => ~Opened
        /\ result # "error" => \A r \in Results : Completed(r) <=> r = result
        /\ result = "error" /\ faults = 0 => \A r \in Results : Completed(r) <=> r = "error"
    /\ phase # "ended" => outcome = None
    /\ ResultMatchesLog

LEMMA EventsDiffer ==
    ASSUME NEW t, NEW u, NEW c, NEW d
    PROVE  Event(t, c) = Event(u, d) <=> t = u /\ c = d
  BY DEF Event

\* What is on record after an event.
LEMMA RecordedAfter ==
    ASSUME TypeOK, NEW e \in Events, log' = Append(log, e), NEW type, NEW of
    PROVE  Recorded(type, of)' <=> Recorded(type, of) \/ e = Event(type, of)
<1> DEFINE f == Event(type, of)
<1>1. /\ Len(log) \in Nat /\ Len(log') = Len(log) + 1
      /\ \A i \in 1..Len(log) : log'[i] = log[i]
      /\ log'[Len(log) + 1] = e
  BY DEF TypeOK
<1>2. f' = f
  BY DEF Event
<1>3. Recorded(type, of) <=> \E i \in 1..Len(log) : log[i] = f
  BY DEF Recorded
<1>4. Recorded(type, of)' <=> \E i \in 1..Len(log') : log'[i] = f
  BY <1>2 DEF Recorded
<1> HIDE DEF f
<1>5. (\E i \in 1..Len(log') : log'[i] = f) <=> (\E i \in 1..Len(log) : log[i] = f) \/ e = f
  BY <1>1
<1> QED
  BY <1>3, <1>4, <1>5 DEF f

LEMMA CallShape ==
    ASSUME NEW c \in Calls, CallStep(c) \/ HandlerEnds(c) \/ Exit(c)
    PROVE  /\ pc[c] \in Active /\ phase \in {"agent", "ended"} /\ UNCHANGED Other
           /\ faults' = faults \/ faults' = faults + 1
           /\ log' = log \/ \E type \in CallEvents : log' = Append(log, Event(type, c))
           /\ \E next : pc' = [pc EXCEPT ![c] = next]
<1>1. ASSUME NEW type \in CallEvents, NEW next, Emit(c, type, next)
      PROVE  /\ phase \in {"agent", "ended"}
             /\ faults' = faults \/ faults' = faults + 1
             /\ log' = log \/ \E t \in CallEvents : log' = Append(log, Event(t, c))
             /\ \E n : pc' = [pc EXCEPT ![c] = n]
  BY <1>1 DEF Emit, Turn, Logged, LogFails
<1>2. CASE Access(c) \/ Deny(c) \/ Request(c)
  <2>1. pc[c] \in Active /\ UNCHANGED Other
    BY <1>2 DEF Access, Deny, Request, Active, Preparing
  <2>2. \E type \in CallEvents, next \in Active \cup Raised : Emit(c, type, next)
    BY <1>2 DEF Access, Deny, Request, CallEvents, Active, Preparing, Raised
  <2> QED
    BY <1>1, <2>1, <2>2
<1>3. CASE Approve(c)
  <2>1. pc[c] \in Active /\ UNCHANGED Other
    BY <1>3 DEF Approve, Active, Preparing
  <2>2. CASE \E type \in CallEvents, next \in Active \cup Raised : Emit(c, type, next)
    BY <1>1, <2>1, <2>2
  <2>3. CASE GrantInvalid(c)
    BY <1>3, <2>1, <2>3 DEF Approve, GrantInvalid, Turn
  <2> QED
    BY <1>3, <2>2, <2>3 DEF Approve, CallEvents, Active, Preparing, Raised
<1>4. CASE Admit(c)
  BY <1>4 DEF Admit, Active, Preparing, Turn
<1>5. CASE Authorized(c) \/ Started(c) \/ CallEnds(c)
  <2>1. pc[c] \in Active /\ UNCHANGED Other
    BY <1>5 DEF Authorized, Started, CallEnds, Active, Preparing
  <2>2. \E type \in CallEvents, next \in Active \cup Raised \cup {"done"} : Emit(c, type, next)
    BY <1>5 DEF Authorized, Started, StartEvent, CallEnds, FailEvent, CallEvents, Active,
                Preparing, Raised
  <2> QED
    BY <1>1, <2>1, <2>2
<1>6. CASE HandlerEnds(c)
  BY <1>6 DEF HandlerEnds, Active, Turn
<1>8. CASE Exit(c)
  BY <1>8, EmitsTyped DEF Exit, CutOff, Turn
<1>7. CASE Unchecked(c) \/ Unfit(c)
  BY <1>7 DEF Unchecked, Unfit, Active, Preparing, Turn
<1> QED
  BY <1>2, <1>3, <1>4, <1>5, <1>6, <1>7, <1>8 DEF CallStep

\* ResultMatchesLog in terms of what is on record of the run.
LEMMA Matching ==
    ResultMatchesLog <=>
        /\ outcome \in {"ok", "pending_approval"} =>
            \A r \in Results : Completed(r) <=> r = outcome
        /\ outcome = "error" /\ faults = 0 => \A r \in Results : Completed(r) <=> r = "error"
        /\ outcome = "refused" => ~Opened /\ \A r \in Results : ~Completed(r)
  BY DEF ResultMatchesLog, Completed, Opened

LEMMA MatchingNext ==
    ResultMatchesLog' <=>
        /\ outcome' \in {"ok", "pending_approval"} =>
            \A r \in Results : Completed(r)' <=> r = outcome'
        /\ outcome' = "error" /\ faults' = 0 => \A r \in Results : Completed(r)' <=> r = "error"
        /\ outcome' = "refused" => ~Opened' /\ \A r \in Results : ~Completed(r)'
  BY DEF ResultMatchesLog, Completed, Opened

\* A step that neither opens nor completes a run.
LEMMA CompletionKept ==
    ASSUME TypeOK, CompletionInv, \A r \in Results : Completed(r)' <=> Completed(r),
           Opened' <=> Opened,
           faults' = faults \/ faults' = faults + 1, result' = result,
           \/ phase' = phase /\ outcome' = outcome
           \/ /\ phase = "agent"
              /\ phase' \in {"output", "pending", "failed"} /\ outcome' = outcome
           \/ phase' = "ended" /\ outcome' \in {"cancelled", "interrupted"}
    PROVE  CompletionInv'
<1>0. faults' = 0 => faults = 0
  BY DEF TypeOK
<1>1. ResultMatchesLog'
  BY <1>0, Matching, MatchingNext DEF CompletionInv
<1> QED
  BY <1>0, <1>1 DEF CompletionInv

LEMMA SameLog ==
    ASSUME log' = log
    PROVE  (\A r : Completed(r)' <=> Completed(r)) /\ (Opened' <=> Opened)
  BY DEF Completed, Opened, Recorded, Event

\* The events of calls.
LEMMA CallLog ==
    ASSUME TypeOK, NEW c \in Calls,
           log' = log \/ \E type \in CallEvents : log' = Append(log, Event(type, c))
    PROVE  (\A r \in Results : Completed(r)' <=> Completed(r)) /\ (Opened' <=> Opened)
<1>1. ASSUME NEW type \in CallEvents, log' = Append(log, Event(type, c)), NEW r \in Results
      PROVE  (Completed(r)' <=> Completed(r)) /\ (Opened' <=> Opened)
  <2>1. Event(type, c) \in Events
    BY EventTyped DEF CallEvents, EventTypes
  <2>2. Event(type, c) # Event("run_completed", r) /\ Event(type, c) # Event("run_started", None)
    BY EventsDiffer DEF CallEvents
  <2> QED
    BY <1>1, <2>1, <2>2, RecordedAfter DEF Completed, Opened
<1>2. "ok" \in Results
  BY DEF Results
<1> QED
  BY <1>1, <1>2, SameLog

LEMMA AgentCompletion ==
    ASSUME TypeOK, CompletionInv,
           \/ \E c \in Calls :
                \/ \E t \in Tools : BeginCall(c, t)
                \/ CallStep(c) \/ HandlerEnds(c) \/ Exit(c) \/ Catch(c) \/ Propagate(c)
           \/ BumpStep \/ BumpToolCall \/ AddCost \/ AgentEnds
           \/ Alarm \/ Timeout \/ Cancel \/ Abort
           \/ UNCHANGED vars
    PROVE  CompletionInv'
<1>1. ASSUME NEW c \in Calls, CallStep(c) \/ HandlerEnds(c) \/ Exit(c) PROVE CompletionInv'
  <2>1. /\ UNCHANGED Other
        /\ faults' = faults \/ faults' = faults + 1
        /\ log' = log \/ \E type \in CallEvents : log' = Append(log, Event(type, c))
    BY <1>1, CallShape
  <2> QED
    BY <2>1, CallLog, CompletionKept DEF Other
<1>3. ASSUME NEW c \in Calls, (\E t \in Tools : BeginCall(c, t)) \/ Catch(c) \/ Propagate(c)
      PROVE  CompletionInv'
  BY <1>3, SameLog, CompletionKept DEF BeginCall, Catch, Propagate, AgentActs, Rest
<1>4. CASE BumpStep \/ BumpToolCall \/ AddCost \/ AgentEnds \/ UNCHANGED vars
  BY <1>4, SameLog, CompletionKept DEF BumpStep, BumpToolCall, AddCost, AgentEnds, AgentActs, Rest, vars
<1>5. CASE Alarm
  <2>1. /\ phase = "agent" /\ phase' \in {"agent", "failed"}
        /\ UNCHANGED <<result, outcome, faults>>
    BY <1>5 DEF Alarm
  <2>2. (\A r \in Results : Completed(r)' <=> Completed(r)) /\ (Opened' <=> Opened)
    <3>1. ASSUME NEW c \in Calls, CutOff(c, "error") PROVE <2>2
      BY <3>1, CallLog, EmitsTyped DEF CutOff
    <3> QED
      BY <1>5, <3>1, SameLog DEF Alarm
  <2> QED
    BY <2>1, <2>2, CompletionKept
<1>6. CASE Timeout \/ Cancel \/ Abort
  BY <1>6, SameLog, CompletionKept DEF Timeout, Cancel, Abort, AgentActs, Rest
<1> QED
  BY <1>1, <1>3, <1>4, <1>5, <1>6

LEMMA RunnerCompletion ==
    ASSUME TypeOK, CompletionInv, RunnerStep
    PROVE  CompletionInv'
<1>1. ASSUME log' = log
      PROVE  (\A r \in Results : Completed(r)' <=> Completed(r)) /\ (Opened' <=> Opened)
  BY <1>1, SameLog
<1>2. ASSUME NEW type \in {"run_started", "agent_output", "decision_made", "run_failed"},
             log' = Append(log, Event(type, None)), NEW r \in Results
      PROVE  Completed(r)' <=> Completed(r)
  <2>1. Event(type, None) \in Events
    BY EventTyped DEF EventTypes
  <2>2. Event(type, None) # Event("run_completed", r)
    BY EventsDiffer
  <2> QED
    BY <1>2, <2>1, <2>2, RecordedAfter DEF Completed
<1>3. ASSUME NEW s \in Results, log' = Append(log, Event("run_completed", s)), NEW r \in Results
      PROVE  Completed(r)' <=> (Completed(r) \/ r = s)
  <2>1. Event("run_completed", s) \in Events
    BY EventTyped DEF EventTypes
  <2>2. Event("run_completed", s) = Event("run_completed", r) <=> r = s
    BY EventsDiffer
  <2> QED
    BY <1>3, <2>1, <2>2, RecordedAfter DEF Completed
<1>4. ASSUME outcome' = None PROVE ResultMatchesLog'
  BY <1>4, RunAssumption DEF ResultMatchesLog
<1>5. ASSUME NEW e, LogFails(e) PROVE faults' # 0
  BY <1>5 DEF LogFails, TypeOK
<1>6. CASE FirstHeartbeat
  <2>1. (\A r \in Results : Completed(r)' <=> Completed(r)) /\ (Opened' <=> Opened)
    BY <1>1, <1>6 DEF FirstHeartbeat
  <2>2. CASE phase' = "start"
    BY <1>4, <1>6, <2>1, <2>2 DEF FirstHeartbeat, CompletionInv
  <2>3. CASE phase' = "ended"
    <3>1. faults' # 0 /\ outcome' = "error"
      BY <1>6, <2>3 DEF FirstHeartbeat, TypeOK
    <3> QED
      BY <2>3, <3>1 DEF CompletionInv, ResultMatchesLog
  <2> QED
    BY <1>6, <2>2, <2>3 DEF FirstHeartbeat
<1>14. CASE Refuse
  <2>1. /\ \A r \in Results : ~Completed(r)'
        /\ ~Opened' /\ outcome' = None
    BY <1>1, <1>14 DEF Refuse, CompletionInv
  <2>2. "refused" \notin Results
    BY DEF Results
  <2> QED
    BY <1>4, <1>14, <2>1, <2>2 DEF Refuse, CompletionInv
<1>7. CASE Start
  <2>1. outcome' = None
    BY <1>7 DEF Start, CompletionInv
  <2>2. CASE Logged(Event("run_started", None)) /\ phase' = "agent"
    <3>1. \A r \in Results : Completed(r)' <=> Completed(r)
      BY <1>2, <2>2 DEF Logged
    <3> QED
      BY <1>4, <1>7, <2>1, <2>2, <3>1 DEF Start, CompletionInv
  <2>3. CASE LogFails(Event("run_started", None)) /\ phase' = "heartbeat" /\ result' = "error"
    BY <1>4, <1>5, <2>1, <2>3 DEF CompletionInv, Results
  <2> QED
    BY <1>7, <2>2, <2>3 DEF Start
<1>8. CASE Success
  <2>0. outcome' = None /\ \A r \in Results : ~Completed(r)
    BY <1>8 DEF Success, CompletionInv
  <2>1. CASE phase = "output" /\ Logged(Event("agent_output", None)) /\ phase' = "decision"
    <3>1. \A r \in Results : Completed(r)' <=> Completed(r)
      BY <1>2, <2>1 DEF Logged
    <3> QED
      BY <1>4, <2>0, <2>1, <3>1 DEF CompletionInv
  <2>2. CASE phase = "decision" /\ Logged(Event("decision_made", None)) /\ phase' = "completed"
    <3>1. \A r \in Results : Completed(r)' <=> Completed(r)
      BY <1>2, <2>2 DEF Logged
    <3> QED
      BY <1>4, <2>0, <2>2, <3>1 DEF CompletionInv
  <2>3. CASE Logged(Event("run_completed", "ok")) /\ phase' = "heartbeat" /\ result' = "ok"
    <3>1. \A r \in Results : Completed(r)' <=> r = "ok"
      BY <1>3, <2>0, <2>3 DEF Logged, Results
    <3> QED
      BY <1>4, <2>0, <2>3, <3>1 DEF CompletionInv, Results
  <2>4. CASE faults' # 0 /\ phase' = "failed"
    BY <1>4, <2>0, <2>4 DEF CompletionInv
  <2> QED
    BY <1>5, <1>8, <2>1, <2>2, <2>3, <2>4 DEF Success, SuccessFails
<1>9. CASE DecisionRaises
  <2>1. /\ \A r \in Results : Completed(r)' <=> Completed(r)
        /\ outcome' = None /\ \A r \in Results : ~Completed(r)
    BY <1>1, <1>9 DEF DecisionRaises, CompletionInv
  <2> QED
    BY <1>4, <1>9, <2>1 DEF DecisionRaises, CompletionInv
<1>10. ASSUME NEW type \in {"decision_made", "run_failed"},
              NEW p \in {"pending", "failed"}, NEW next \in {"pending_completed", "failed_completed"},
              p = "pending" <=> next = "pending_completed",
              Closing(p, Event(type, None), next, result)
       PROVE  CompletionInv'
  <2>1. CASE Logged(Event(type, None)) /\ phase' = next
    <3>1. /\ \A r \in Results : Completed(r)' <=> Completed(r)
          /\ outcome' = None /\ faults' = faults /\ phase = p
      BY <1>2, <1>10, <2>1 DEF Logged, Closing, CompletionInv
    <3> QED
      BY <1>4, <1>10, <2>1, <3>1 DEF CompletionInv
  <2>2. CASE LogFails(Event(type, None)) /\ phase' = "heartbeat" /\ result' = "error"
    <3>1. outcome' = None
      BY <1>10 DEF Closing, CompletionInv
    <3> QED
      BY <1>4, <1>5, <2>2, <3>1 DEF CompletionInv, Results
  <2> QED
    BY <1>10, <2>1, <2>2 DEF Closing
<1>11. ASSUME NEW s \in {"pending_approval", "error"},
              NEW p \in {"pending_completed", "failed_completed"},
              p = "pending_completed" <=> s = "pending_approval",
              Closing(p, Event("run_completed", s), "heartbeat", s)
       PROVE  CompletionInv'
  <2>0. outcome' = None /\ phase = p /\ s \in Results
    BY <1>11 DEF Closing, CompletionInv, Results
  <2>1. CASE Logged(Event("run_completed", s)) /\ phase' = "heartbeat" /\ result' = s
    <3>1. /\ \A r \in Results : Completed(r)' <=> (Completed(r) \/ r = s)
          /\ faults' = faults
      BY <1>3, <2>0, <2>1 DEF Logged
    <3>2. (s = "error" /\ faults' # 0) \/ \A r \in Results : ~Completed(r)
      BY <1>11, <2>0, <3>1 DEF CompletionInv
    <3> QED
      BY <1>4, <1>11, <2>0, <2>1, <3>1, <3>2 DEF CompletionInv
  <2>2. CASE LogFails(Event("run_completed", s)) /\ phase' = "heartbeat" /\ result' = "error"
    BY <1>4, <1>5, <2>0, <2>2 DEF CompletionInv, Results
  <2> QED
    BY <1>11, <2>1, <2>2 DEF Closing
<1>12. CASE ApprovalResult \/ Failure
  BY <1>10, <1>11, <1>12 DEF ApprovalResult, Failure
<1>13. CASE LastHeartbeat
  <2>1. /\ (\A r \in Results : Completed(r)' <=> Completed(r)) /\ (Opened' <=> Opened)
        /\ phase = "heartbeat" /\ phase' = "ended"
    BY <1>1, <1>13 DEF LastHeartbeat
  <2>2. CASE outcome' = result /\ (faults' = 0 => faults = 0)
    <3>1. outcome' # "error" => \A r \in Results : Completed(r)' <=> r = outcome'
      BY <2>1, <2>2 DEF CompletionInv
    <3>2. outcome' = "error" /\ faults' = 0 => \A r \in Results : Completed(r)' <=> r = "error"
      BY <2>1, <2>2 DEF CompletionInv
    <3>3. outcome' = "refused" => ~Opened'
      BY <2>1, <2>2 DEF CompletionInv
    <3>4. "refused" \notin Results
      BY DEF Results
    <3>5. ResultMatchesLog'
      BY <3>1, <3>2, <3>3, <3>4, MatchingNext
    <3> QED
      BY <2>1, <3>5 DEF CompletionInv
  <2>3. CASE outcome' = "error" /\ faults' # 0
    BY <2>1, <2>3 DEF CompletionInv, ResultMatchesLog
  <2> QED
    BY <1>13, <2>2, <2>3 DEF LastHeartbeat, TypeOK
<1> QED
  BY <1>6, <1>7, <1>8, <1>9, <1>12, <1>13, <1>14 DEF RunnerStep

LEMMA CompletionInit == Init => CompletionInv
<1> SUFFICES ASSUME Init PROVE CompletionInv
  OBVIOUS
<1>1. (\A r : ~Completed(r)) /\ ~Opened
  BY DEF Init, Completed, Opened, Recorded
<1> QED
  BY <1>1, RunAssumption DEF Init, CompletionInv, ResultMatchesLog

LEMMA CompletionNext == TypeOK /\ CompletionInv /\ [Next]_vars => CompletionInv'
  BY AgentCompletion, RunnerCompletion DEF Next, Ended

\* The caller's result is the one on record, whatever fails on the way.
THEOREM ResultOnRecord == Spec => []ResultMatchesLog
<1>1. CompletionInv => ResultMatchesLog
  BY DEF CompletionInv
<1> QED
  BY <1>1, CompletionInit, CompletionNext, TypeCorrect, PTL DEF Spec

-----------------------------------------------------------------------------
(* A synchronous run accounts for the tools it started. *)

Began(c) == Recorded("tool_started", c)
Succeeded(c) == Recorded("tool_completed", c)
Failed(c) == Recorded("tool_failed", c)

\* The records of a call that has got to p.
Account(c, p) ==
    /\ p \in Preparing \cup {"idle"} => ~Began(c) /\ ~Succeeded(c) /\ ~Failed(c)
    /\ p \in {"running", "complete", "fail"} => Began(c) /\ ~Succeeded(c) /\ ~Failed(c)
    /\ p \in Raised \cup {"done"} =>
        \/ ~Began(c)
        \/ Succeeded(c) /\ ~Failed(c)
        \/ ~Succeeded(c) /\ Failed(c)

\* In a synchronous run without faults the accounts of all calls but those cut
\* off are in order, and only the agent's phase has calls under way.
Accounts ==
    /\ \A c \in Calls : pc[c] # "abandoned"
    /\ \A c \in Calls : pc[c] \in Active => c \in inline
    /\ phase # "agent" => \A c \in Calls : pc[c] \notin Active
    /\ faults = 0 => \A c \in Calls : c # alarm => Account(c, pc[c])

AccountInv == mode = "run" => Accounts

\* A step that records nothing of c keeps its account.
LEMMA AccountKept ==
    ASSUME TypeOK, NEW c, NEW p, Account(c, p),
           \/ log' = log
           \/ \E e \in Events : /\ log' = Append(log, e)
                               /\ e \notin {Event("tool_started", c), Event("tool_completed", c),
                                            Event("tool_failed", c)}
    PROVE  Account(c, p)'
<1>1. (Began(c)' <=> Began(c)) /\ (Succeeded(c)' <=> Succeeded(c)) /\ (Failed(c)' <=> Failed(c))
  <2>1. CASE log' = log
    BY <2>1 DEF Began, Succeeded, Failed, Recorded, Event
  <2>2. ASSUME NEW e \in Events, log' = Append(log, e),
               e \notin {Event("tool_started", c), Event("tool_completed", c),
                         Event("tool_failed", c)}
        PROVE  /\ Began(c)' <=> Began(c)
               /\ Succeeded(c)' <=> Succeeded(c)
               /\ Failed(c)' <=> Failed(c)
    BY <2>2, RecordedAfter DEF Began, Succeeded, Failed
  <2> QED BY <2>1, <2>2
<1> QED
  BY <1>1 DEF Account

\* A call that moves on without a record of its start or end.
LEMMA QuietMove ==
    ASSUME NEW c, NEW p \in Preparing, NEW q \in Preparing \cup Raised, Account(c, p)
    PROVE  Account(c, q)
  BY DEF Account, Preparing, Raised

\* One step of a call keeps the account of this call ...
LEMMA OwnAccount ==
    ASSUME TypeOK, NEW c \in Calls, CallStep(c) \/ HandlerEnds(c) \/ Exit(c), Account(c, pc[c]),
           faults' = faults
    PROVE  Account(c, pc[c])'
<1>1. ASSUME NEW e, LogFails(e) PROVE FALSE
  BY <1>1 DEF LogFails, TypeOK
<1>2. ASSUME NEW type \in {"authorization_decision", "authorization_denied", "tool_requested",
                           "approval_granted", "approval_required", "tool_authorized"},
             NEW next \in Preparing \cup Raised, Emit(c, type, next), pc[c] \in Preparing
      PROVE  Account(c, pc[c])'
  <2>1. log' = Append(log, Event(type, c)) /\ pc'[c] = next
    BY <1>1, <1>2 DEF Emit, Logged, TypeOK
  <2>2. Event(type, c) \in Events
    BY EventTyped DEF EventTypes
  <2>3. Event(type, c) \notin {Event("tool_started", c), Event("tool_completed", c),
                               Event("tool_failed", c)}
    BY EventsDiffer
  <2>4. Account(c, next)
    BY <1>2, QuietMove
  <2>5. Account(c, next)'
    BY <2>1, <2>2, <2>3, <2>4, AccountKept
  <2> QED
    BY <2>1, <2>5
<1>3. CASE Access(c) \/ Deny(c) \/ Request(c) \/ Authorized(c)
  <2>1. pc[c] \in Preparing
    BY <1>3 DEF Access, Deny, Request, Authorized, Preparing
  <2>2. \E type \in {"authorization_decision", "authorization_denied", "tool_requested",
                     "tool_authorized"}, next \in Preparing \cup Raised : Emit(c, type, next)
    BY <1>3 DEF Access, Deny, Request, Authorized, Preparing, Raised
  <2> QED
    BY <1>2, <2>1, <2>2
<1>4. ASSUME NEW next \in Preparing \cup Raised, pc' = [pc EXCEPT ![c] = next], log' = log,
             pc[c] \in Preparing
      PROVE  Account(c, pc[c])'
  <2>1. Account(c, next)
    BY <1>4, QuietMove
  <2>2. Account(c, next)' /\ pc'[c] = next
    BY <1>4, <2>1, AccountKept DEF TypeOK
  <2> QED
    BY <2>2
<1>10. CASE Unchecked(c) \/ Unfit(c)
  <2>1. /\ pc[c] \in Preparing /\ log' = log
        /\ \E next \in Preparing \cup Raised : pc' = [pc EXCEPT ![c] = next]
    BY <1>10 DEF Unchecked, Unfit, Preparing, Raised
  <2> QED
    BY <1>4, <2>1
<1>5. CASE Approve(c)
  <2>1. pc[c] \in Preparing /\ "admit" \in Preparing /\ "approval" \in Raised
        /\ "violation" \in Raised
    BY <1>5 DEF Approve, Preparing, Raised
  <2>2. CASE GrantInvalid(c)
    BY <1>4, <2>1, <2>2 DEF GrantInvalid
  <2> QED
    BY <1>2, <1>5, <2>1, <2>2 DEF Approve
<1>6. CASE Admit(c)
  <2>1. pc[c] \in Preparing /\ "authorize" \in Preparing /\ "violation" \in Raised
    BY <1>6 DEF Admit, Preparing, Raised
  <2> QED
    BY <1>4, <1>6, <2>1 DEF Admit
<1>7. CASE Started(c)
  <2>1. log' = Append(log, Event("tool_started", c)) /\ pc'[c] = "running" /\ pc[c] \in Preparing
    BY <1>1, <1>7 DEF Started, StartEvent, Emit, Logged, TypeOK, Preparing
  <2>2. Event("tool_started", c) \in Events
    BY EventTyped DEF EventTypes
  <2>3. Began(c)' /\ (Succeeded(c)' <=> Succeeded(c)) /\ (Failed(c)' <=> Failed(c))
    BY <2>1, <2>2, RecordedAfter, EventsDiffer DEF Began, Succeeded, Failed
  <2>4. ~Succeeded(c) /\ ~Failed(c)
    BY <2>1 DEF Account
  <2> QED
    BY <2>1, <2>3, <2>4 DEF Account, Preparing, Raised
<1>8. CASE CallEnds(c)
  <2>1. CASE pc[c] = "complete" /\ Emit(c, "tool_completed", "done")
    <3>1. log' = Append(log, Event("tool_completed", c)) /\ pc'[c] = "done"
      BY <1>1, <2>1 DEF Emit, Logged, TypeOK
    <3>2. Event("tool_completed", c) \in Events
      BY EventTyped DEF EventTypes
    <3>3. Succeeded(c)' /\ (Failed(c)' <=> Failed(c))
      BY <3>1, <3>2, RecordedAfter, EventsDiffer DEF Succeeded, Failed
    <3>4. ~Failed(c)
      BY <2>1 DEF Account
    <3> QED
      BY <3>1, <3>3, <3>4 DEF Account, Preparing, Raised
  <2>2. CASE pc[c] = "fail" /\ Emit(c, "tool_failed", "error")
    <3>1. log' = Append(log, Event("tool_failed", c)) /\ pc'[c] = "error"
      BY <1>1, <2>2 DEF Emit, Logged, TypeOK
    <3>2. Event("tool_failed", c) \in Events
      BY EventTyped DEF EventTypes
    <3>3. Failed(c)' /\ (Succeeded(c)' <=> Succeeded(c))
      BY <3>1, <3>2, RecordedAfter, EventsDiffer DEF Succeeded, Failed
    <3>4. ~Succeeded(c)
      BY <2>2 DEF Account
    <3> QED
      BY <3>1, <3>3, <3>4 DEF Account, Preparing, Raised
  <2> QED
    BY <1>8, <2>1, <2>2 DEF CallEnds, FailEvent
<1>9. CASE HandlerEnds(c)
  <2>1. PICK next \in {"complete", "fail"} : pc' = [pc EXCEPT ![c] = next]
    BY <1>9 DEF HandlerEnds
  <2>2. Account(c, next)
    BY <1>9 DEF HandlerEnds, Account, Preparing, Raised
  <2>3. Account(c, next)' /\ pc'[c] = next
    BY <1>9, <2>1, <2>2, AccountKept DEF HandlerEnds, TypeOK
  <2> QED
    BY <2>3
<1>11. CASE Exit(c)
  <2>1. pc'[c] = "exit"
    BY <1>11 DEF Exit, CutOff, TypeOK
  <2> QED
    BY <2>1 DEF Account, Preparing, Raised
<1> QED
  BY <1>3, <1>5, <1>6, <1>7, <1>8, <1>9, <1>10, <1>11 DEF CallStep

\* ... and of every other.
LEMMA CallAccount ==
    ASSUME TypeOK, AccountInv, NEW c \in Calls, CallStep(c) \/ HandlerEnds(c) \/ Exit(c)
    PROVE  AccountInv'
<1>1. /\ pc[c] \in Active /\ phase \in {"agent", "ended"} /\ UNCHANGED Other
      /\ faults' = faults \/ faults' = faults + 1
      /\ log' = log \/ \E type \in CallEvents : log' = Append(log, Event(type, c))
      /\ \E next : pc' = [pc EXCEPT ![c] = next]
  BY CallShape
<1> SUFFICES ASSUME mode = "run", Accounts PROVE Accounts'
  BY <1>1 DEF AccountInv, Other
<1>2. phase' = "agent"
  BY <1>1 DEF Accounts, Other
<1>3. \A d \in Calls : pc'[d] # "abandoned"
  <2>1. pc'[c] # "abandoned"
    BY DEF CallStep, Access, Unchecked, Deny, Request, Unfit, Approve, GrantInvalid, Admit,
           Authorized, Started, StartEvent, CallEnds, FailEvent, HandlerEnds, Exit, CutOff, Emit,
           TypeOK
  <2>2. \A d \in Calls \ {c} : pc'[d] = pc[d]
    BY <1>1 DEF TypeOK
  <2> QED
    BY <2>1, <2>2 DEF Accounts
<1>5. \A d \in Calls : pc'[d] \in Active => d \in inline'
  BY <1>1 DEF Accounts, TypeOK, Other
<1>4. ASSUME faults' = 0, NEW d \in Calls, d # alarm' PROVE Account(d, pc[d])'
  <2>1. faults = 0 /\ faults' = faults /\ d # alarm
    BY <1>1, <1>4 DEF TypeOK, Other
  <2>2. CASE d = c
    BY <2>1, <2>2, OwnAccount DEF Accounts
  <2>3. CASE d # c
    <3>1. pc'[d] = pc[d] /\ Account(d, pc[d])
      BY <1>1, <2>1, <2>3 DEF TypeOK, Accounts
    <3>2. \A type \in CallEvents :
            /\ Event(type, c) \in Events
            /\ Event(type, c) \notin {Event("tool_started", d), Event("tool_completed", d),
                                      Event("tool_failed", d)}
      <4>1. CallEvents \subseteq EventTypes
        BY DEF CallEvents, EventTypes
      <4> QED
        BY <2>3, <4>1, EventTyped, EventsDiffer
    <3>3. \/ log' = log
          \/ \E e \in Events : /\ log' = Append(log, e)
                              /\ e \notin {Event("tool_started", d), Event("tool_completed", d),
                                           Event("tool_failed", d)}
      BY <1>1, <3>2
    <3> QED
      BY <3>1, <3>3, AccountKept
  <2> QED BY <2>2, <2>3
<1> QED
  BY <1>2, <1>3, <1>4, <1>5 DEF Accounts

LEMMA OtherAccount ==
    ASSUME TypeOK, AccountInv,
           \/ \E c \in Calls : (\E t \in Tools : BeginCall(c, t)) \/ Catch(c) \/ Propagate(c)
           \/ BumpStep \/ BumpToolCall \/ AddCost \/ AgentEnds
           \/ Alarm \/ Timeout \/ Cancel \/ Abort \/ RunnerStep
           \/ UNCHANGED vars
    PROVE  AccountInv'
<1>0. mode' = mode
  BY DEF BeginCall, Catch, Propagate, BumpStep, BumpToolCall, AddCost, AgentEnds, Alarm, Timeout,
         Cancel, Abort, Rest, RunnerStep, FirstHeartbeat, Refuse, Start, Success, DecisionRaises,
         ApprovalResult, Failure, Closing, LastHeartbeat, Still, vars
<1> SUFFICES ASSUME mode = "run", Accounts PROVE Accounts'
  BY <1>0 DEF AccountInv
<1>1. ASSUME AgentActs PROVE \A d \in Calls : pc[d] \notin Active
  BY <1>1 DEF AgentActs, Holds, Accounts
<1>2. ASSUME NEW c \in Calls, NEW t \in Tools, BeginCall(c, t) PROVE Accounts'
  <2>1. PICK next \in {"access", "violation"} : pc' = [pc EXCEPT ![c] = next]
    BY <1>2 DEF BeginCall
  <2>2. /\ phase = "agent" /\ phase' = phase /\ faults' = faults /\ alarm' = alarm
        /\ log' = log /\ pc[c] = "idle" /\ inline' = inline \cup {c}
    BY <1>2 DEF BeginCall
  <2>3. \A d \in Calls : Account(d, pc[d]) => Account(d, pc'[d])
    BY <2>1, <2>2 DEF Account, TypeOK, Preparing, Raised
  <2>4. \A d \in Calls : Account(d, pc'[d]) => Account(d, pc[d])'
    BY <2>2, AccountKept
  <2> QED
    BY <2>1, <2>2, <2>3, <2>4 DEF Accounts, TypeOK
<1>3. ASSUME NEW c \in Calls, Catch(c) \/ Propagate(c) PROVE Accounts'
  <2>1. /\ pc' = [pc EXCEPT ![c] = "done"] /\ pc[c] \in Raised /\ log' = log
        /\ faults' = faults /\ alarm' = alarm /\ inline' = inline
        /\ \A d \in Calls : pc[d] \notin Active
    BY <1>1, <1>3 DEF Catch, Propagate, Rest
  <2>2. \A d \in Calls : Account(d, pc[d]) => Account(d, pc'[d])
    BY <2>1 DEF Account, TypeOK, Preparing, Raised
  <2>3. \A d \in Calls : Account(d, pc'[d]) => Account(d, pc[d])'
    BY <2>1, AccountKept
  <2>4. "done" \notin Active
    BY DEF Active, Preparing
  <2> QED
    BY <2>1, <2>2, <2>3, <2>4 DEF Accounts, TypeOK
<1>4. CASE Alarm
  <2>0. /\ phase = "agent" /\ alarm = None /\ faults' = faults /\ inline' = inline
        /\ faults = 0 => \A d \in Calls : Account(d, pc[d])
    BY <1>4, RunAssumption DEF Alarm, Accounts
  <2>1. ASSUME NEW c \in Calls, CutOff(c, "error"), alarm' = c, phase' = phase PROVE Accounts'
    <3>1. "error" \notin Active /\ pc' = [pc EXCEPT ![c] = "error"]
      BY <2>1 DEF CutOff, Active, Preparing
    <3>2. ASSUME faults' = 0, NEW d \in Calls \ {c} PROVE Account(d, pc[d])'
      <4>1. Account(d, pc[d]) /\ pc'[d] = pc[d]
        BY <2>0, <3>1, <3>2 DEF TypeOK
      <4>2. \A type \in Emits(c) :
                /\ Event(type, c) \in Events
                /\ Event(type, c) \notin {Event("tool_started", d), Event("tool_completed", d),
                                          Event("tool_failed", d)}
        BY EmitsTyped, EventTyped, EventsDiffer
      <4> QED
        BY <2>1, <4>1, <4>2, AccountKept DEF CutOff
    <3> QED
      BY <2>0, <2>1, <3>1, <3>2 DEF Accounts, TypeOK
  <2>2. ASSUME NEW c \in Calls, pc[c] = "running", log' = log, phase' = phase,
               pc' = [pc EXCEPT ![c] = "fail"] \/ UNCHANGED pc
        PROVE  Accounts'
    <3>1. \A d \in Calls : Account(d, pc[d]) => Account(d, pc'[d])
      BY <2>2 DEF Account, TypeOK, Preparing, Raised
    <3>2. \A d \in Calls : Account(d, pc'[d]) => Account(d, pc[d])'
      BY <2>2, AccountKept
    <3>3. "running" \in Active
      BY DEF Active
    <3> QED
      BY <2>0, <2>2, <3>1, <3>2, <3>3 DEF Accounts, TypeOK
  <2>3. ASSUME AgentActs, log' = log, pc' = pc PROVE Accounts'
    <3>1. \A d \in Calls : Account(d, pc[d]) => Account(d, pc[d])'
      BY <2>3, AccountKept
    <3> QED
      BY <1>1, <2>0, <2>3, <3>1 DEF Accounts
  <2> QED
    BY <1>4, <2>1, <2>2, <2>3 DEF Alarm
<1>5. ASSUME pc' = pc, inline' = inline,
             phase' # "agent" => \A d \in Calls : pc[d] \notin Active,
             faults' = 0 => faults = 0, alarm' = alarm,
             \/ log' = log
             \/ \E e \in Events : log' = Append(log, e) /\ e.type \notin CallEvents
      PROVE  Accounts'
  <2>1. ASSUME NEW e, e.type \notin CallEvents, NEW d
        PROVE  e \notin {Event("tool_started", d), Event("tool_completed", d),
                         Event("tool_failed", d)}
    BY <2>1 DEF Event, CallEvents
  <2>2. \A d \in Calls :
            \/ log' = log
            \/ \E e \in Events : /\ log' = Append(log, e)
                                /\ e \notin {Event("tool_started", d), Event("tool_completed", d),
                                             Event("tool_failed", d)}
    BY <1>5, <2>1
  <2>3. \A d \in Calls : Account(d, pc'[d]) => Account(d, pc[d])'
    BY <2>2, AccountKept
  <2> QED
    BY <1>5, <2>3 DEF Accounts
<1>6. CASE BumpStep \/ BumpToolCall \/ AddCost \/ AgentEnds
  BY <1>1, <1>5, <1>6 DEF BumpStep, BumpToolCall, AddCost, AgentEnds, AgentActs, Rest
<1>9. CASE UNCHANGED vars
  BY <1>5, <1>9 DEF vars, Accounts
<1>10. CASE Abort
  <2>1. \A d \in Calls : pc[d] \notin Active
    BY <1>1, <1>10 DEF Abort, Accounts
  <2>2. \A d \in Calls : pc[d] \notin {"running", "complete", "fail"}
    BY <2>1 DEF Active
  <2>3. pc' = pc
    BY <1>10, <2>2 DEF Abort, Abandon, TypeOK
  <2> QED
    BY <1>5, <1>10, <2>1, <2>3 DEF Abort, Rest
<1>7. CASE RunnerStep
  <2>1. /\ pc' = pc /\ inline' = inline /\ alarm' = alarm
        /\ phase # "agent" /\ \A d \in Calls : pc[d] \notin Active
    BY <1>7 DEF RunnerStep, FirstHeartbeat, Refuse, Start, Success, DecisionRaises, ApprovalResult,
                Failure, Closing, LastHeartbeat, Still, Accounts
  <2>2. /\ \A type \in {"run_started", "agent_output", "decision_made", "run_failed"} :
              Event(type, None) \in Events /\ Event(type, None).type \notin CallEvents
        /\ \A r \in Results : Event("run_completed", r) \in Events
                              /\ Event("run_completed", r).type \notin CallEvents
    <3>1. \A type \in {"run_started", "agent_output", "decision_made", "run_failed"} :
              Event(type, None) \in Events
      BY EventTyped DEF EventTypes
    <3>2. \A r \in Results : Event("run_completed", r) \in Events
      BY EventTyped DEF EventTypes
    <3>3. \A t, o : Event(t, o).type = t
      BY DEF Event
    <3> QED
      BY <3>1, <3>2, <3>3 DEF CallEvents
  <2>3. ASSUME NEW e \in Events, e.type \notin CallEvents, Logged(e) \/ LogFails(e)
        PROVE  /\ faults' = 0 => faults = 0
               /\ \/ log' = log
                  \/ \E f \in Events : log' = Append(log, f) /\ f.type \notin CallEvents
    BY <2>3 DEF Logged, LogFails, TypeOK
  <2>4. /\ faults' = 0 => faults = 0
        /\ \/ log' = log
           \/ \E f \in Events : log' = Append(log, f) /\ f.type \notin CallEvents
    <3>1. CASE FirstHeartbeat \/ Refuse \/ DecisionRaises \/ LastHeartbeat
      BY <3>1 DEF FirstHeartbeat, Refuse, DecisionRaises, LastHeartbeat, TypeOK
    <3>2. CASE Start
      BY <2>2, <2>3, <3>2 DEF Start
    <3>3. CASE Success
      BY <2>2, <2>3, <3>3 DEF Success, Results
    <3>4. CASE ApprovalResult \/ Failure
      BY <2>2, <2>3, <3>4 DEF ApprovalResult, Failure, Closing, Results
    <3> QED
      BY <1>7, <3>1, <3>2, <3>3, <3>4 DEF RunnerStep
  <2> QED
    BY <1>5, <2>1, <2>4
<1>8. ~Timeout /\ ~Cancel
  BY DEF Timeout, Cancel
<1> QED
  BY <1>2, <1>3, <1>4, <1>6, <1>7, <1>8, <1>9, <1>10

\* A synchronous run without faults records one end of every tool it started,
\* unless the call was cut off: by the timer, once, or by a BaseException.
THEOREM StartsAccounted == Spec => []EveryStartEnds
<1>1. Init => AccountInv
  <2> SUFFICES ASSUME Init PROVE AccountInv
    OBVIOUS
  <2>1. \A c : ~Began(c) /\ ~Succeeded(c) /\ ~Failed(c)
    BY DEF Init, Began, Succeeded, Failed, Recorded
  <2>2. \A c \in Calls : pc[c] = "idle"
    BY DEF Init
  <2> QED
    BY <2>1, <2>2 DEF AccountInv, Accounts, Account, Active, Preparing, Raised
<1>2. TypeOK /\ AccountInv /\ [Next]_vars => AccountInv'
  BY CallAccount, OtherAccount DEF Next, Ended
<1>3. TypeOK /\ AccountInv /\ CompletionInv => EveryStartEnds
  <2> SUFFICES ASSUME TypeOK, AccountInv, CompletionInv, mode = "run", outcome # None, faults = 0,
                      NEW c \in Calls, Began(c), c # alarm, pc[c] # "exit"
               PROVE  Succeeded(c) # Failed(c)
    BY DEF EveryStartEnds, Began, Succeeded, Failed
  <2>1. phase # "agent"
    BY DEF CompletionInv
  <2>2. pc[c] \in Raised \cup {"idle", "done"} /\ Account(c, pc[c])
    BY <2>1 DEF AccountInv, Accounts, TypeOK
  <2>3. (Succeeded(c) /\ ~Failed(c)) \/ (~Succeeded(c) /\ Failed(c))
    BY <2>2 DEF Account
  <2> QED
    BY <2>3
<1>4. Init => CompletionInv
  BY CompletionInit
<1>5. TypeOK /\ CompletionInv /\ [Next]_vars => CompletionInv'
  BY CompletionNext
<1> QED
  BY <1>1, <1>2, <1>3, <1>4, <1>5, TypeCorrect, PTL DEF Spec
=============================================================================
