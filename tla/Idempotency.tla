---------------------------- MODULE Idempotency ----------------------------
(***************************************************************************)
(* Idempotent tool execution: the stores of runtime/resilience.py and the  *)
(* protocol SentinelContext._execute_sync and _execute_async of            *)
(* runtime/context.py run around a handler: begin, the handler, and then   *)
(* complete or fail.  Each store method is one transaction and one action. *)
(* The model follows one key; other keys interact with it only in that     *)
(* their begin deletes its record once it has expired (Purge).             *)
(***************************************************************************)
EXTENDS Naturals

CONSTANTS
    Calls,      \* tool calls whose key_factory yields the key
    Digests,
    DigestOf,   \* DigestOf[c]: the request digest of call c
    TTL,        \* ttl_seconds, in clock ticks
    NoCall,
    NoDigest

ASSUME IdempotencyAssumption ==
    /\ DigestOf \in [Calls -> Digests]
    /\ TTL \in Nat \ {0}
    /\ NoCall \notin Calls
    /\ NoDigest \notin Digests

VARIABLES
    status,    \* the record's status, "absent" without a record
    digest,    \* its request_digest
    left,      \* ticks until expires_at_utc < now
    producer,  \* the call whose response or error the record holds
    call,      \* call[c]: how far call c is
    answer,    \* answer[c]: the call whose response c was given
    late       \* history: some handler has outlived its record

vars == <<status, digest, left, producer, call, answer, late>>

Init ==
    /\ status = "absent"
    /\ digest = NoDigest
    /\ left = 0
    /\ producer = NoCall
    /\ call = [c \in Calls |-> "new"]
    /\ answer = [c \in Calls |-> NoCall]
    /\ late = FALSE

-----------------------------------------------------------------------------
\* The record begin sees once it has deleted what has expired; the mutant
\* deletes a record a tick too early.
LiveEarly == status # "absent" /\ left > 1
Live == status # "absent" /\ left > 0

\* The record was begun for another request; the mutant does not compare.
NeverConflicts(c) == FALSE
Conflicts(c) == digest # DigestOf[c]

\* begin inserts the pending record: "started", and the handler runs.
BeginStarted(c) ==
    /\ call[c] = "new"
    /\ ~Live
    /\ status' = "pending"
    /\ digest' = DigestOf[c]
    /\ left' = TTL + 1
    /\ producer' = NoCall
    /\ call' = [call EXCEPT ![c] = "running"]
    /\ UNCHANGED <<answer, late>>

\* begin of another key deletes every record that has expired, this one too.
Purge ==
    /\ status # "absent"
    /\ left = 0
    /\ status' = "absent"
    /\ digest' = NoDigest
    /\ producer' = NoCall
    /\ UNCHANGED <<left, call, answer, late>>

\* begin finds a record in force: another request's (IdempotencyConflict), a
\* pending one (IdempotencyInProgress), a failed one (GuardrailViolation), or
\* a completed one, whose response is returned without running the handler.
BeginAnswered(c) ==
    /\ call[c] = "new"
    /\ Live
    /\ call' = [call EXCEPT ![c] =
                    IF Conflicts(c) THEN "conflict"
                    ELSE IF status = "completed" THEN "replayed" ELSE "refused"]
    /\ answer' = [answer EXCEPT ![c] =
                    IF ~Conflicts(c) /\ status = "completed" THEN producer ELSE NoCall]
    /\ UNCHANGED <<status, digest, left, producer, late>>

\* The handler, with its retries and circuit breaker, returns or raises.
HandlerEnds(c) ==
    /\ call[c] = "running"
    /\ \E end \in {"returned", "raised"} : call' = [call EXCEPT ![c] = end]
    /\ UNCHANGED <<status, digest, left, producer, answer, late>>

\* A BaseException that `except Exception' lets through, a cancelled task, or
\* a dead process: neither complete nor fail is called, or does anything.
Cancelled(c) ==
    /\ call[c] \in {"running", "returned", "raised"}
    /\ call' = [call EXCEPT ![c] = "cancelled"]
    /\ UNCHANGED <<status, digest, left, producer, answer, late>>

\* complete and fail look for the key's pending record, whoever began it; the
\* mutant does not look at its status.
FoundAny == status # "absent"
Found == status = "pending"

Complete(c) ==
    /\ call[c] = "returned"
    /\ Found
    /\ status' = "completed"
    /\ producer' = c
    /\ call' = [call EXCEPT ![c] = "done"]
    /\ answer' = [answer EXCEPT ![c] = c]
    /\ UNCHANGED <<digest, left, late>>

Fail(c) ==
    /\ call[c] = "raised"
    /\ Found
    /\ status' = "failed"
    /\ producer' = c
    /\ call' = [call EXCEPT ![c] = "failed"]
    /\ UNCHANGED <<digest, left, answer, late>>

\* complete or fail raises KeyError: the caller gets an error although the
\* handler has run.
RecordLost(c) ==
    /\ call[c] \in {"returned", "raised"}
    /\ ~Found
    /\ call' = [call EXCEPT ![c] = "lost"]
    /\ UNCHANGED <<status, digest, left, producer, answer, late>>

InProgress(c) == call[c] \in {"running", "returned", "raised"}

\* External: the clock advances; a handler is late when its record runs out.
Tick ==
    /\ left > 0
    /\ left' = left - 1
    /\ late' = (late \/ (left = 1 /\ \E c \in Calls : InProgress(c)))
    /\ UNCHANGED <<status, digest, producer, call, answer>>

Step ==
    \E c \in Calls :
        \/ BeginStarted(c) \/ BeginAnswered(c) \/ HandlerEnds(c) \/ Cancelled(c)
        \/ Complete(c) \/ Fail(c) \/ RecordLost(c)

Next == Step \/ Purge \/ Tick
Spec == Init /\ [][Next]_vars

-----------------------------------------------------------------------------
CallStates == {"new", "running", "returned", "raised", "cancelled", "conflict",
               "refused", "replayed", "done", "failed", "lost"}

(* Type invariant; exactly the settled records hold a response or error. *)
TypeOK ==
    /\ status \in {"absent", "pending", "completed", "failed"}
    /\ digest \in Digests \cup {NoDigest}
    /\ left \in 0..(TTL + 1)
    /\ producer \in Calls \cup {NoCall}
    /\ call \in [Calls -> CallStates]
    /\ answer \in [Calls -> Calls \cup {NoCall}]
    /\ late \in BOOLEAN
    /\ status \in {"completed", "failed"} <=> producer # NoCall

(* As long as handlers end within ttl_seconds, at most one call of a key   *)
(* runs its handler at a time, whatever calls were cancelled before and    *)
(* left their record pending.                                              *)
SingleFlight ==
    ~late => \A c, d \in Calls : InProgress(c) /\ InProgress(d) => c = d

(* "Idempotency records bind a key to a canonical request digest,          *)
(* preventing the same key from being reused for a different action"       *)
(* (README.md:393): a replayed response is that of an identical request.   *)
ReplayMatchesRequest ==
    \A c \in Calls : call[c] = "replayed" =>
        answer[c] \in Calls /\ DigestOf[answer[c]] = DigestOf[c]

(* It is as long as handlers end within ttl_seconds. *)
TimelyReplay == ~late => ReplayMatchesRequest

(* With timely handlers, complete and fail always find the record their    *)
(* own begin inserted: nobody whose handler ran is told KeyError.          *)
NoRecordLost == ~late => \A c \in Calls : call[c] # "lost"

(* Even when handlers outlive their records, a completed record in force   *)
(* is never replaced: all replays until it expires give the same response. *)
CompletedIsFinal ==
    [][status = "completed" /\ left > 0 =>
        status' = "completed" /\ producer' = producer]_vars
=============================================================================
