----------------------------- MODULE SentinelRun -----------------------------
(***************************************************************************)
(* One run of a SentinelRunner (runtime/executor.py): the agent, its tool  *)
(* calls through SentinelContext (runtime/context.py) under the limits of  *)
(* Guardrails, the events that _log records in the audit store and hands   *)
(* to the event sinks, the run timeout, and the heartbeats of the          *)
(* EnterpriseSentinelRunner.  The agent is arbitrary: it may catch what a  *)
(* call raises, and under arun leave calls behind that nobody awaits, or   *)
(* hold up the event loop with call_tool.  Recording, sinks and heartbeats *)
(* may fail at every step, and a BaseException, which nothing here         *)
(* catches, may end a call or the run anywhere.                            *)
(***************************************************************************)
EXTENDS Naturals, Sequences, FiniteSets

CONSTANTS
    Calls,          \* tool calls of the run
    Tools,
    Cost,           \* Cost[t]: _estimated_cost
    Allowed,        \* tools that are allowlisted and registered
    Protected,      \* tools with requires_approval
    Authorizer,     \* Authorizer[m]: whether the runner of mode m has one, and a principal
    MaxSteps, MaxCalls, MaxCost,
    Modes,          \* "run" and "arun"
    Timed,          \* whether run_timeout_seconds is set
    Strict,         \* fail_on_event_sink_error
    Closed,         \* heartbeat_fail_closed
    MaxFaults,      \* bound: failures of the audit store, sinks and heartbeats
    None

ASSUME RunAssumption ==
    /\ Cost \in [Tools -> Nat]
    /\ Allowed \subseteq Tools /\ Protected \subseteq Tools
    /\ MaxSteps \in Nat \ {0} /\ MaxCalls \in Nat /\ MaxCost \in Nat
    /\ Modes \subseteq {"run", "arun"}
    /\ Authorizer \in [Modes -> {"none", "anonymous", "asked"}]
    /\ Timed \in BOOLEAN /\ Strict \in BOOLEAN /\ Closed \in BOOLEAN
    /\ MaxFaults \in Nat
    /\ None \notin Tools \cup Calls \cup {"ok", "pending_approval", "error", "refused",
                                     "cancelled", "interrupted", "agent"}
    /\ "agent" \notin Calls

VARIABLES
    mode,
    phase,       \* where run() is
    result,      \* what it is going to return or raise
    outcome,     \* what its caller got
    log,         \* the events in the audit store
    steps, toolCalls, cost,
    pc, tool,    \* pc[c], tool[c]: where call c is
    inline,      \* calls made with call_tool: they hold the thread to their end
    ran, spent,  \* history: calls whose handler was begun, and their cost
    alarm,       \* the timer: None, or what it hit, a call it cut off or "agent"
    faults

counters == <<steps, toolCalls, cost>>
vars == <<mode, phase, result, outcome, log, counters, pc, tool, inline, ran, spent, alarm,
          faults>>

Init ==
    /\ mode \in Modes
    /\ phase = "new" /\ result = None /\ outcome = None
    /\ log = <<>>
    /\ steps = 0 /\ toolCalls = 0 /\ cost = 0
    /\ pc = [c \in Calls |-> "idle"]
    /\ tool = [c \in Calls |-> None]
    /\ inline = {}
    /\ ran = 0 /\ spent = 0
    /\ alarm = None
    /\ faults = 0

Event(type, of) == [type |-> type, of |-> of]

\* _log: the audit store records the event and the sinks take it, or only
\* report an error.
Logged(e) == log' = Append(log, e) /\ UNCHANGED faults

\* _log raises: the audit store has not recorded the event, or a sink failed.
LogFails(e) ==
    /\ faults < MaxFaults
    /\ faults' = faults + 1
    /\ \/ UNCHANGED log
       \/ Strict /\ log' = Append(log, e)

\* validate_limits
Limits(s, n, c) == s <= MaxSteps /\ n <= MaxCalls /\ c <= MaxCost

-----------------------------------------------------------------------------
(* Tool calls. *)

Preparing == {"access", "deny", "request", "approve", "admit", "authorize", "start"}
Active == Preparing \cup {"running", "complete", "fail"}
Raised == {"violation", "approval", "error"}

\* _prepare_call, and all of call_tool, hold the event loop or the only
\* thread: they never yield in the middle.
Holds(c) == pc[c] \in Preparing \/ (c \in inline /\ pc[c] \in Active)
Turn(c) ==
    /\ phase \in {"agent", "ended"}
    /\ \A d \in Calls \ {c} : ~Holds(d)

\* Call c emits an event and goes on, or raises.
Emit(c, type, next) ==
    /\ Turn(c)
    /\ \/ Logged(Event(type, c)) /\ pc' = [pc EXCEPT ![c] = next]
       \/ LogFails(Event(type, c)) /\ pc' = [pc EXCEPT ![c] = "error"]

\* What call c may be recording.
Emits(c) ==
    CASE pc[c] = "access" -> {"authorization_decision"}
      [] pc[c] = "deny" -> {"authorization_denied"}
      [] pc[c] = "request" -> {"tool_requested"}
      [] pc[c] = "approve" -> {"approval_granted", "approval_required"}
      [] pc[c] = "authorize" -> {"tool_authorized"}
      [] pc[c] = "start" -> {"tool_started"}
      [] pc[c] = "complete" -> {"tool_completed"}
      [] pc[c] = "fail" -> {"tool_failed"}
      [] OTHER -> {}

\* An exception that the call does not expect ends it, with the event it was
\* recording in the store or not.
CutOff(c, next) ==
    /\ pc[c] \in Active
    /\ pc' = [pc EXCEPT ![c] = next]
    /\ log' = log \/ \E type \in Emits(c) : log' = Append(log, Event(type, c))

Other == <<mode, phase, result, outcome, tool, inline, alarm>>

\* call_tool, or in an asynchronous agent also acall_tool: the allowlist and
\* the registry.
BeginCall(c, t) ==
    /\ pc[c] = "idle"
    /\ Turn(c)
    /\ phase = "agent" \/ mode = "arun"
    /\ inline' \in {inline \cup {c}} \cup (IF mode = "arun" THEN {inline} ELSE {})
    /\ pc' = [pc EXCEPT ![c] = IF t \in Allowed THEN "access" ELSE "violation"]
    /\ tool' = [tool EXCEPT ![c] = t]
    /\ UNCHANGED <<mode, phase, result, outcome, log, counters, ran, spent, alarm, faults>>

\* _authorize_access: the authorizer is asked, or there is none, or the call
\* is denied unheard for want of a principal.
Access(c) ==
    /\ pc[c] = "access" /\ Authorizer[mode] = "asked"
    /\ \E next \in {"request", "deny"} : Emit(c, "authorization_decision", next)
    /\ UNCHANGED <<Other, counters, ran, spent>>
Unchecked(c) ==
    /\ pc[c] = "access" /\ Authorizer[mode] # "asked"
    /\ Turn(c)
    /\ pc' = [pc EXCEPT ![c] = IF Authorizer[mode] = "none" THEN "request" ELSE "deny"]
    /\ UNCHANGED <<Other, log, counters, ran, spent, faults>>
Deny(c) ==
    /\ pc[c] = "deny"
    /\ Emit(c, "authorization_denied", "violation")
    /\ UNCHANGED <<Other, counters, ran, spent>>

Request(c) ==
    /\ pc[c] = "request"
    /\ Emit(c, "tool_requested", IF tool[c] \in Protected THEN "approve" ELSE "admit")
    /\ UNCHANGED <<Other, counters, ran, spent>>

\* The authorizer raises; or the handler is of the wrong kind for the call,
\* its timeout cannot be enforced, or the caller's cost is below the
\* registered one.
Unfit(c) ==
    /\ \/ pc[c] = "access" /\ Authorizer[mode] = "asked"
       \/ pc[c] = "request"
    /\ Turn(c)
    /\ pc' = [pc EXCEPT ![c] = "violation"]
    /\ UNCHANGED <<Other, log, counters, ran, spent, faults>>

\* _authorize: a grant for this checkpoint, an invalid or unbound one, or none.
GrantInvalid(c) == pc' = [pc EXCEPT ![c] = "violation"] /\ UNCHANGED <<log, faults>>
Approve(c) ==
    /\ pc[c] = "approve"
    /\ Turn(c)
    /\ \/ Emit(c, "approval_granted", "admit")
       \/ GrantInvalid(c)
       \/ Emit(c, "approval_required", "approval")
    /\ UNCHANGED <<Other, counters, ran, spent>>

\* The limits are checked and the counters set; the mutant counts the call
\* only.
CountOnly(c) == toolCalls' = toolCalls + 1 /\ UNCHANGED cost
Charge(c) == toolCalls' = toolCalls + 1 /\ cost' = cost + Cost[tool[c]]
Admit(c) ==
    /\ pc[c] = "admit"
    /\ Turn(c)
    /\ IF Limits(steps, toolCalls + 1, cost + Cost[tool[c]])
       THEN Charge(c) /\ pc' = [pc EXCEPT ![c] = "authorize"]
       ELSE UNCHANGED <<toolCalls, cost>> /\ pc' = [pc EXCEPT ![c] = "violation"]
    /\ UNCHANGED <<Other, steps, log, ran, spent, faults>>

Authorized(c) ==
    /\ pc[c] = "authorize"
    /\ Emit(c, "tool_authorized", "start")
    /\ UNCHANGED <<Other, counters, ran, spent>>

\* tool_started is on record before the handler runs; the mutant goes on
\* when it is not.
StartAnyway(c) ==
    /\ Turn(c)
    /\ Logged(Event("tool_started", c)) \/ LogFails(Event("tool_started", c))
    /\ pc' = [pc EXCEPT ![c] = "running"]
StartEvent(c) == Emit(c, "tool_started", "running")
Started(c) ==
    /\ pc[c] = "start"
    /\ StartEvent(c)
    /\ IF pc'[c] = "running"
       THEN ran' = ran + 1 /\ spent' = spent + Cost[tool[c]]
       ELSE UNCHANGED <<ran, spent>>
    /\ UNCHANGED <<Other, counters>>

\* _execute_sync, _execute_async: the handler with its retries, its circuit
\* breaker and its idempotency record returns or raises an Exception.
HandlerEnds(c) ==
    /\ pc[c] = "running"
    /\ Turn(c)
    /\ \E next \in {"complete", "fail"} : pc' = [pc EXCEPT ![c] = next]
    /\ UNCHANGED <<Other, log, counters, ran, spent, faults>>

\* The end of the call is on record as well; the mutant says nothing of a
\* failure.
FailSilently(c) == Turn(c) /\ pc' = [pc EXCEPT ![c] = "error"] /\ UNCHANGED <<log, faults>>
FailEvent(c) == Emit(c, "tool_failed", "error")
CallEnds(c) ==
    /\ \/ pc[c] = "complete" /\ Emit(c, "tool_completed", "done")
       \/ pc[c] = "fail" /\ FailEvent(c)
    /\ UNCHANGED <<Other, counters, ran, spent>>

\* SystemExit, KeyboardInterrupt: call_tool and acall_tool catch Exception
\* only, so that the call ends without an event, also in its handler.
Exit(c) ==
    /\ Turn(c)
    /\ CutOff(c, "exit")
    /\ UNCHANGED <<Other, counters, ran, spent, faults>>

CallStep(c) ==
    \/ Access(c) \/ Unchecked(c) \/ Deny(c) \/ Request(c) \/ Unfit(c) \/ Approve(c)
    \/ Admit(c) \/ Authorized(c) \/ Started(c) \/ CallEnds(c)

-----------------------------------------------------------------------------
(* The agent *)

Rest == <<mode, log, tool, inline, ran, spent, faults>>
AgentActs == phase = "agent" /\ \A c \in Calls : ~Holds(c)

\* ctx.bump_step, ctx.bump_tool_call and ctx.add_cost
BumpStep ==
    /\ AgentActs
    /\ Limits(steps + 1, toolCalls, cost)
    /\ steps' = steps + 1
    /\ UNCHANGED <<Rest, phase, result, outcome, toolCalls, cost, pc, alarm>>
BumpToolCall ==
    /\ AgentActs
    /\ Limits(steps, toolCalls + 1, cost)
    /\ toolCalls' = toolCalls + 1
    /\ UNCHANGED <<Rest, phase, result, outcome, steps, cost, pc, alarm>>
AddCost ==
    /\ AgentActs
    /\ Limits(steps, toolCalls, cost + 1)
    /\ cost' = cost + 1
    /\ UNCHANGED <<Rest, phase, result, outcome, steps, toolCalls, pc, alarm>>

\* The agent catches what a call has raised ...
Catch(c) ==
    /\ AgentActs
    /\ pc[c] \in Raised
    /\ pc' = [pc EXCEPT ![c] = "done"]
    /\ UNCHANGED <<Rest, phase, result, outcome, counters, alarm>>

\* ... or lets it end the run: HumanApprovalRequired is a result, every other
\* exception a failure.
Propagate(c) ==
    /\ AgentActs
    /\ pc[c] \in Raised
    /\ pc' = [pc EXCEPT ![c] = "done"]
    /\ phase' = IF pc[c] = "approval" THEN "pending" ELSE "failed"
    /\ UNCHANGED <<Rest, result, outcome, counters, alarm>>

\* The agent returns, or raises an exception of its own.
AgentEnds ==
    /\ AgentActs
    /\ phase' \in {"output", "failed"}
    /\ UNCHANGED <<Rest, result, outcome, counters, pc, alarm>>

\* SIGALRM interrupts the agent or a call of it.  Outside its handler the call
\* ends where it is; in the handler the TimeoutError is a failure like any
\* other, or the handler is tried again (RetryPolicy retries TimeoutError).
\* The agent may catch it, too.  The timer goes off once.
Alarm ==
    /\ mode = "run" /\ Timed /\ phase = "agent" /\ alarm = None
    /\ \/ \E c \in Calls :
            /\ pc[c] # "running" /\ CutOff(c, "error")
            /\ alarm' = c
            /\ UNCHANGED phase
       \/ \E c \in Calls :
            /\ pc[c] = "running"
            /\ pc' = [pc EXCEPT ![c] = "fail"] \/ UNCHANGED pc
            /\ alarm' = "agent"
            /\ UNCHANGED <<phase, log>>
       \/ /\ AgentActs
          /\ phase' \in {"agent", "failed"}
          /\ alarm' = "agent"
          /\ UNCHANGED <<pc, log>>
    /\ UNCHANGED <<mode, tool, inline, ran, spent, faults, result, outcome, counters>>

\* A cancellation ends the calls the agent awaits without an event, the
\* handler's thread perhaps running on; the others are left behind.
Abandon ==
    \E S \in SUBSET {c \in Calls \ inline : pc[c] \in {"running", "complete", "fail"}} :
        pc' = [c \in Calls |-> IF c \in S THEN "abandoned" ELSE pc[c]]

\* asyncio.wait_for cancels the agent, and waits for it: what the agent does
\* about it, to end with an exception or a value or to go on, is AgentEnds and
\* the other actions of the agent.
Timeout ==
    /\ mode = "arun" /\ Timed /\ AgentActs /\ alarm = None
    /\ alarm' = "agent"
    /\ Abandon
    /\ UNCHANGED <<Rest, phase, result, outcome, counters>>

\* The task of arun is cancelled: no except clause catches that, unless the
\* agent has one of its own.
Cancel ==
    /\ mode = "arun" /\ AgentActs
    /\ Abandon
    /\ \/ phase' = "ended" /\ outcome' = "cancelled"
       \/ UNCHANGED <<phase, outcome>>
    /\ UNCHANGED <<Rest, result, counters, alarm>>

\* A BaseException leaves the agent, or the runner, and run().
Abort ==
    /\ phase # "ended" /\ (phase = "agent" => AgentActs)
    /\ phase' = "ended" /\ outcome' = "interrupted"
    /\ Abandon
    /\ UNCHANGED <<Rest, result, counters, alarm>>

-----------------------------------------------------------------------------
(* The runner *)

Still == <<mode, counters, pc, tool, inline, ran, spent, alarm>>

\* heartbeat("running") comes before the run.
FirstHeartbeat ==
    /\ phase = "new"
    /\ \/ phase' = "start" /\ UNCHANGED <<outcome, faults>>
       \/ /\ faults < MaxFaults
          /\ faults' = faults + 1
          /\ IF Closed THEN phase' = "ended" /\ outcome' = "error"
             ELSE phase' = "start" /\ UNCHANGED outcome
    /\ UNCHANGED <<Still, result, log>>

\* run() does not take an asynchronous agent: it raises before _start.
Refuse ==
    /\ phase = "start" /\ mode = "run"
    /\ phase' = "heartbeat" /\ result' = "refused"
    /\ UNCHANGED <<Still, outcome, log, faults>>

\* _start is not in the try block.
Start ==
    /\ phase = "start"
    /\ \/ /\ Logged(Event("run_started", None))
          /\ steps' = steps + 1
          /\ phase' = "agent"
          /\ UNCHANGED result
       \/ /\ LogFails(Event("run_started", None))
          /\ phase' = "heartbeat" /\ result' = "error"
          /\ UNCHANGED steps
    /\ UNCHANGED <<mode, outcome, toolCalls, cost, pc, tool, inline, ran, spent, alarm>>

\* _success, in the try block: what _log raises here fails the run.  The
\* mutant returns the output all the same.
SuccessAnyway == phase' = "heartbeat" /\ result' = "ok"
SuccessFails == phase' = "failed" /\ UNCHANGED result
Success ==
    /\ phase \in {"output", "decision", "completed"}
    /\ \/ /\ phase = "output"
          /\ Logged(Event("agent_output", None))
          /\ phase' = "decision" /\ UNCHANGED result
       \/ /\ phase = "decision"
          /\ Logged(Event("decision_made", None))
          /\ phase' = "completed" /\ UNCHANGED result
       \/ /\ phase = "completed"
          /\ Logged(Event("run_completed", "ok"))
          /\ phase' = "heartbeat" /\ result' = "ok"
       \/ /\ LogFails(CASE phase = "output" -> Event("agent_output", None)
                        [] phase = "decision" -> Event("decision_made", None)
                        [] phase = "completed" -> Event("run_completed", "ok"))
          /\ SuccessFails
    /\ UNCHANGED <<Still, outcome>>

\* score and decide raise on an input that is not finite.
DecisionRaises ==
    /\ phase = "decision"
    /\ phase' = "failed"
    /\ UNCHANGED <<Still, result, outcome, log, faults>>

\* _approval_result and _failure; what _log raises in them leaves run().
Closing(p, e, next, r) ==
    /\ phase = p
    /\ \/ /\ Logged(e)
          /\ phase' = next
          /\ result' = r
       \/ /\ LogFails(e)
          /\ phase' = "heartbeat" /\ result' = "error"
    /\ UNCHANGED <<Still, outcome>>
ApprovalResult ==
    \/ Closing("pending", Event("decision_made", None), "pending_completed", result)
    \/ Closing("pending_completed", Event("run_completed", "pending_approval"), "heartbeat",
               "pending_approval")
Failure ==
    \/ Closing("failed", Event("run_failed", None), "failed_completed", result)
    \/ Closing("failed_completed", Event("run_completed", "error"), "heartbeat", "error")

\* heartbeat("production"), or "error"; then the caller has the result, unless
\* a heartbeat that must not fail has failed.
LastHeartbeat ==
    /\ phase = "heartbeat"
    /\ phase' = "ended"
    /\ \/ outcome' = result /\ UNCHANGED faults
       \/ /\ faults < MaxFaults
          /\ faults' = faults + 1
          /\ outcome' = IF Closed THEN "error" ELSE result
    /\ UNCHANGED <<Still, result, log>>

RunnerStep ==
    \/ FirstHeartbeat \/ Refuse \/ Start \/ Success \/ DecisionRaises \/ ApprovalResult \/ Failure
    \/ LastHeartbeat

\* After the end the calls left behind go on, or nothing happens any more.
Ended == phase = "ended" /\ UNCHANGED vars

Next ==
    \/ \E c \in Calls :
        \/ \E t \in Tools : BeginCall(c, t)
        \/ CallStep(c) \/ HandlerEnds(c) \/ Exit(c) \/ Catch(c) \/ Propagate(c)
    \/ BumpStep \/ BumpToolCall \/ AddCost \/ AgentEnds
    \/ Alarm \/ Timeout \/ Cancel \/ Abort
    \/ RunnerStep \/ Ended

Spec == Init /\ [][Next]_vars

-----------------------------------------------------------------------------
Phases ==
    {"new", "start", "agent", "output", "decision", "completed", "pending",
     "pending_completed", "failed", "failed_completed", "heartbeat", "ended"}
Results == {"ok", "pending_approval", "error"}
EventTypes ==
    {"authorization_decision", "authorization_denied", "tool_requested", "approval_granted",
     "approval_required", "tool_authorized", "tool_started", "tool_completed", "tool_failed",
     "run_started", "agent_output", "decision_made", "run_failed", "run_completed"}
Events == [type : EventTypes, of : Calls \cup Results \cup {None}]

(* Type invariant. *)
TypeOK ==
    /\ mode \in Modes
    /\ phase \in Phases
    /\ result \in Results \cup {"refused", None}
    /\ outcome \in Results \cup {"refused", "cancelled", "interrupted", None}
    /\ log \in Seq(Events)
    /\ steps \in Nat /\ toolCalls \in Nat /\ cost \in Nat
    /\ pc \in [Calls -> Active \cup Raised \cup {"idle", "done", "exit", "abandoned"}]
    /\ tool \in [Calls -> Tools \cup {None}]
    /\ \A c \in Calls : pc[c] # "idle" => tool[c] \in Tools
    /\ inline \subseteq Calls
    /\ ran \in Nat /\ spent \in Nat
    /\ alarm \in Calls \cup {"agent", None}
    /\ faults \in Nat

(* The limits of Guardrails hold for the whole run, for calls that nobody  *)
(* awaits and for those that go on after it too, and every call whose      *)
(* handler was begun is paid for, wherever _log, a timeout, a cancellation *)
(* or an interrupt cuts a call off.  (Once: the attempts of a RetryPolicy  *)
(* after the first are free of charge in the code.)                        *)
BudgetKept ==
    /\ steps <= MaxSteps /\ toolCalls <= MaxCalls /\ cost <= MaxCost
    /\ ran <= toolCalls /\ spent <= cost

Recorded(type, c) == \E i \in 1..Len(log) : log[i] = Event(type, c)

(* A handler runs only when the audit store has recorded, in this order,   *)
(* the request, for a protected tool its approval, the authorization and   *)
(* the start; also when some of these records fail.                        *)
ExecutionAudited ==
    \A c \in Calls : pc[c] \in {"running", "complete", "fail", "abandoned"} =>
        \E i, j, k \in 1..Len(log) :
            /\ i < j /\ j < k
            /\ log[i] = Event("tool_requested", c)
            /\ log[j] = Event("tool_authorized", c)
            /\ log[k] = Event("tool_started", c)
            /\ tool[c] \in Protected =>
                \E a \in i..j : log[a] = Event("approval_granted", c)

(* A synchronous run whose events could be recorded accounts for every     *)
(* tool it started: exactly one of tool_completed and tool_failed, however *)
(* the run itself ends.  Only a call that was cut off outside the try      *)
(* block of call_tool, or by what is no Exception, may lack its end: the   *)
(* timer cuts off at most one, and one that hits a handler none.           *)
EveryStartEnds ==
    mode = "run" /\ outcome # None /\ faults = 0 =>
        \A c \in Calls : Recorded("tool_started", c) =>
            \/ Recorded("tool_completed", c) # Recorded("tool_failed", c)
            \/ c = alarm \/ pc[c] = "exit"

(* What the caller gets is what the audit trail says: a result, also a     *)
(* pending approval, comes with one run_completed event of its status and  *)
(* no other; without failures of the store, the sinks or the heartbeat an  *)
(* exception comes with one of status "error", except the TypeError for an *)
(* agent that run() does not take: then the run is not on record at all.   *)
ResultMatchesLog ==
    /\ outcome \in {"ok", "pending_approval"} =>
        \A r \in Results : Recorded("run_completed", r) <=> r = outcome
    /\ outcome = "error" /\ faults = 0 =>
        \A r \in Results : Recorded("run_completed", r) <=> r = "error"
    /\ outcome = "refused" =>
        ~Recorded("run_started", None) /\ \A r \in Results : ~Recorded("run_completed", r)
=============================================================================
