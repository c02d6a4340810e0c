------------------------------- MODULE Outbox -------------------------------
(***************************************************************************)
(* The durable outbox of enterprise/outbox.py: one store (SQLite or        *)
(* PostgreSQL) shared by producers that enqueue events and by workers that *)
(* lease batches of events, hand them to destination handlers and settle   *)
(* them.  A store method is one transaction and one action, except SQLite's*)
(* dead_letter, which looks for its row before its transaction begins.     *)
(* Between them a worker holds only the snapshot that claim returned, which*)
(* may be stale: its lease may have run out and another worker may hold the*)
(* event.                                                                  *)
(***************************************************************************)
EXTENDS Naturals, FiniteSets

CONSTANTS
    Backend,              \* "sqlite" or "postgres"
    Submissions,          \* [id, destination, key] records producers enqueue
    Destinations,
    Handled,              \* destinations a worker has a handler for
    Workers,              \* worker processes
    WorkerId,             \* WorkerId[w]: the worker_id of process w
    MaxDeliveryAttempts,  \* max_delivery_attempts
    RetryAttempts,        \* retry_policy.max_attempts
    LeaseSeconds,         \* lease_seconds, in clock ticks
    Delays,               \* the backoff delays retry_policy.delay can return
    BatchLimit,           \* limit of a claim
    MaxCrashes,           \* bound on worker crashes
    NoOwner,              \* a NULL lease_owner
    AnyDestination        \* claim without a destination filter

EventIds == {m.id : m \in Submissions}

\* Event ids stand for creation times too: created_at_utc orders like the id.
ASSUME SubmissionsAssumption ==
    /\ Submissions \subseteq [id : Nat \ {0}, destination : Destinations, key : Nat]
    /\ AnyDestination \notin Destinations
    /\ Handled \subseteq Destinations
ASSUME BackendAssumption == Backend \in {"sqlite", "postgres"}
ASSUME WorkersAssumption ==
    \A w \in Workers : WorkerId[w] # NoOwner
ASSUME BoundsAssumption ==
    /\ MaxDeliveryAttempts \in Nat \ {0}
    /\ RetryAttempts \in Nat \ {0}
    /\ LeaseSeconds \in Nat \ {0}
    /\ BatchLimit \in Nat \ {0}
    /\ MaxCrashes \in Nat
    /\ Delays \subseteq Nat

VARIABLES
    rows,         \* enterprise_outbox: the submissions inserted
    status,       \* status[e]; "absent" before the insert
    attempts,     \* attempts[e], counted up to MaxDeliveryAttempts
    availableIn,  \* availableIn[e]: ticks until available_at_utc
    leaseOwner,   \* lease_owner[e]
    leaseLeft,    \* leaseLeft[e]: ticks until lease_expires_at_utc < now
    deliveredAt,  \* the events with a delivered_at_utc
    deadLetters,  \* enterprise_dead_letters: ids
    outcome,      \* outcome[m]: what enqueue last did with submission m
    phase,        \* phase[w]: where process w is in run_once
    batch,        \* batch[w]: claimed events w has not settled yet
    cur,          \* cur[w]: the event of w's current loop iteration
    tries,        \* tries[w]: attempts retry_call has made for cur[w]
    seenAttempts, \* seenAttempts[w][e]: event.attempts in w's snapshot
    seenLease,    \* seenLease[w][e]: ticks until w's snapshot lease is over
    received,     \* external: events the receiver has accepted
    crashes       \* crashes so far

storeVars == <<rows, status, attempts, availableIn, leaseOwner, leaseLeft, deliveredAt,
               deadLetters>>
workerVars == <<phase, batch, cur, tries, seenAttempts, seenLease>>
vars == <<storeVars, outcome, workerVars, received, crashes>>

NoEvent == 0

Init ==
    /\ rows = {}
    /\ status = [e \in EventIds |-> "absent"]
    /\ attempts = [e \in EventIds |-> 0]
    /\ availableIn = [e \in EventIds |-> 0]
    /\ leaseOwner = [e \in EventIds |-> NoOwner]
    /\ leaseLeft = [e \in EventIds |-> 0]
    /\ deliveredAt = {}
    /\ deadLetters = {}
    /\ outcome = [m \in Submissions |-> "none"]
    /\ phase = [w \in Workers |-> "idle"]
    /\ batch = [w \in Workers |-> {}]
    /\ cur = [w \in Workers |-> NoEvent]
    /\ tries = [w \in Workers |-> 0]
    /\ seenAttempts = [w \in Workers |-> [e \in EventIds |-> 0]]
    /\ seenLease = [w \in Workers |-> [e \in EventIds |-> 0]]
    /\ received = {}
    /\ crashes = 0

-----------------------------------------------------------------------------
(* Producers. *)

\* UNIQUE(destination,idempotency_key); the mutant forgets the destination.
SameDeliveryIgnoresDestination(r, m) == r.key = m.key
SameDelivery(r, m) == r.destination = m.destination /\ r.key = m.key

\* enqueue: the insert, or the row already stored for the same delivery, or
\* the error of a primary key that another delivery has taken.
Enqueue(m) ==
    /\ IF \E r \in rows : SameDelivery(r, m)
       THEN /\ outcome' = [outcome EXCEPT ![m] = "accepted"]
            /\ UNCHANGED <<rows, status>>
       ELSE IF \E r \in rows : r.id = m.id
       THEN /\ outcome' = [outcome EXCEPT ![m] = "refused"]
            /\ UNCHANGED <<rows, status>>
       ELSE /\ outcome' = [outcome EXCEPT ![m] = "accepted"]
            /\ rows' = rows \cup {m}
            /\ status' = [status EXCEPT ![m.id] = "pending"]
    /\ UNCHANGED <<attempts, availableIn, leaseOwner, leaseLeft, deliveredAt,
                   deadLetters, workerVars, received, crashes>>

-----------------------------------------------------------------------------
(* Workers: OutboxWorker.run_once. *)

\* The WHERE clause of claim: due, and pending or leased with a lease that
\* has run out.  Mutants: the lease is not looked at; leases never expire.
ClaimableIgnoresLease(e) ==
    availableIn[e] = 0 /\ status[e] \in {"pending", "leased"}
ClaimableOnlyPending(e) ==
    availableIn[e] = 0 /\ status[e] = "pending"
Claimable(e) ==
    /\ availableIn[e] = 0
    /\ \/ status[e] = "pending"
       \/ status[e] = "leased" /\ leaseLeft[e] = 0

Candidates(d) ==
    {e \in EventIds :
        /\ Claimable(e)
        /\ d # AnyDestination => \E r \in rows : r.id = e /\ r.destination = d}

\* ORDER BY created_at_utc LIMIT limit.
Oldest(S) == {e \in S : Cardinality({f \in S : f < e}) < BatchLimit}

Bump(n) == IF n < MaxDeliveryAttempts THEN n + 1 ELSE n

\* claim, the first step of run_once; an empty claim changes nothing.
Claim(w, d) ==
    /\ phase[w] = "idle"
    /\ Candidates(d) # {}
    /\ LET S == Oldest(Candidates(d)) IN
        /\ status' = [e \in EventIds |-> IF e \in S THEN "leased" ELSE status[e]]
        /\ attempts' = [e \in EventIds |-> IF e \in S THEN Bump(attempts[e]) ELSE attempts[e]]
        /\ leaseOwner' = [e \in EventIds |-> IF e \in S THEN WorkerId[w] ELSE leaseOwner[e]]
        /\ leaseLeft' = [e \in EventIds |-> IF e \in S THEN LeaseSeconds + 1 ELSE leaseLeft[e]]
        /\ batch' = [batch EXCEPT ![w] = S]
        /\ seenAttempts' = [seenAttempts EXCEPT ![w] = attempts']
        /\ seenLease' = [seenLease EXCEPT ![w] = [e \in EventIds |->
                            IF e \in S THEN LeaseSeconds + 1 ELSE 0]]
    /\ phase' = [phase EXCEPT ![w] = "loop"]
    /\ UNCHANGED <<rows, availableIn, deliveredAt, deadLetters, outcome, cur, tries,
                   received, crashes>>

\* The loop of run_once turns to e, or retry_call goes on with it.  The batch
\* has no order: PostgreSQL's UPDATE ... RETURNING gives none.
Delivering(w, e) ==
    /\ e \in batch[w]
    /\ \/ phase[w] = "loop"
       \/ phase[w] = "retry" /\ cur[w] = e

HasHandler(e) == \E r \in rows : r.id = e /\ r.destination \in Handled

\* The handler returned.
DeliverOk(w, e) ==
    /\ Delivering(w, e)
    /\ HasHandler(e)
    /\ received' = received \cup {e}
    /\ cur' = [cur EXCEPT ![w] = e]
    /\ phase' = [phase EXCEPT ![w] = "ok"]
    /\ UNCHANGED <<storeVars, outcome, batch, tries, seenAttempts, seenLease, crashes>>

\* The handler raised an OSError or TimeoutError and retry_call tries again.
\* The receiver may have accepted the event all the same.
DeliverRetry(w, e) ==
    /\ Delivering(w, e)
    /\ HasHandler(e)
    /\ tries[w] + 1 < RetryAttempts
    /\ received' \in {received, received \cup {e}}
    /\ cur' = [cur EXCEPT ![w] = e]
    /\ tries' = [tries EXCEPT ![w] = @ + 1]
    /\ phase' = [phase EXCEPT ![w] = "retry"]
    /\ UNCHANGED <<storeVars, outcome, batch, seenAttempts, seenLease, crashes>>

\* retry_call gives up: an exception it does not retry (the handler's own, an
\* open circuit breaker, no handler for the destination), or its last try.
DeliverFail(w, e) ==
    /\ Delivering(w, e)
    /\ received' \in {received} \cup (IF HasHandler(e) THEN {received \cup {e}} ELSE {})
    /\ cur' = [cur EXCEPT ![w] = e]
    /\ phase' = [phase EXCEPT ![w] = "failed"]
    /\ UNCHANGED <<storeVars, outcome, batch, tries, seenAttempts, seenLease, crashes>>

\* The WHERE clause of mark_delivered, of reschedule and of dead_letter's
\* check; the mutant finds the row by its event_id alone.
OwnsById(w, e) == status[e] # "absent"
Owns(w, e) == status[e] = "leased" /\ leaseOwner[e] = WorkerId[w]

\* The loop leaves the settled event behind.
EndIteration(w) ==
    /\ batch' = [batch EXCEPT ![w] = @ \ {cur[w]}]
    /\ phase' = [phase EXCEPT ![w] = IF batch[w] = {cur[w]} THEN "idle" ELSE "loop"]
    /\ cur' = [cur EXCEPT ![w] = NoEvent]
    /\ tries' = [tries EXCEPT ![w] = 0]
    /\ UNCHANGED <<seenAttempts, seenLease>>

\* lease_owner and lease_expires_at_utc become NULL; the mutant keeps them.
KeepLease(e) == UNCHANGED <<leaseOwner, leaseLeft>>
ClearLease(e) ==
    /\ leaseOwner' = [leaseOwner EXCEPT ![e] = NoOwner]
    /\ leaseLeft' = [leaseLeft EXCEPT ![e] = 0]

\* Which outcome of retry_call lets run_once call mark_delivered.
Successful == {"ok"}

MarkDelivered(w) ==
    /\ phase[w] \in Successful
    /\ Owns(w, cur[w])
    /\ status' = [status EXCEPT ![cur[w]] = "delivered"]
    /\ deliveredAt' = deliveredAt \cup {cur[w]}
    /\ ClearLease(cur[w])
    /\ EndIteration(w)
    /\ UNCHANGED <<rows, attempts, availableIn, deadLetters, outcome, received, crashes>>

\* run_once compares its snapshot; the mutant is off by one.
ExhaustedEarly(n) == n + 1 >= MaxDeliveryAttempts
Exhausted(n) == n >= MaxDeliveryAttempts

Reschedule(w, delay) ==
    /\ phase[w] = "failed"
    /\ ~Exhausted(seenAttempts[w][cur[w]])
    /\ Owns(w, cur[w])
    /\ status' = [status EXCEPT ![cur[w]] = "pending"]
    /\ availableIn' = [availableIn EXCEPT ![cur[w]] = delay]
    /\ ClearLease(cur[w])
    /\ EndIteration(w)
    /\ UNCHANGED <<rows, attempts, deliveredAt, deadLetters, outcome, received, crashes>>

\* The row goes to enterprise_dead_letters and is closed.
Move(w) ==
    /\ deadLetters' = deadLetters \cup {cur[w]}
    /\ status' = [status EXCEPT ![cur[w]] = "dead_letter"]
    /\ ClearLease(cur[w])
    /\ EndIteration(w)
    /\ UNCHANGED <<rows, attempts, availableIn, deliveredAt, outcome, received, crashes>>

\* PostgreSQL's dead_letter is one statement.
DeadLetter(w) ==
    /\ Backend = "postgres"
    /\ phase[w] = "failed"
    /\ Exhausted(seenAttempts[w][cur[w]])
    /\ Owns(w, cur[w])
    /\ Move(w)

\* SQLite's dead_letter selects the row in autocommit mode and begins its
\* transaction with the INSERT: between the two another process can write.
SelectOwned(w) ==
    /\ Backend = "sqlite"
    /\ phase[w] = "failed"
    /\ Exhausted(seenAttempts[w][cur[w]])
    /\ Owns(w, cur[w])
    /\ phase' = [phase EXCEPT ![w] = "moving"]
    /\ UNCHANGED <<storeVars, outcome, batch, cur, tries, seenAttempts, seenLease,
                   received, crashes>>

\* INSERT OR REPLACE and UPDATE ... WHERE event_id=?, in one transaction.
MoveSelected(w) ==
    /\ phase[w] = "moving"
    /\ Move(w)

\* run_once ends by an exception and drops the rest of its batch.
Abandon(w) ==
    /\ phase' = [phase EXCEPT ![w] = "idle"]
    /\ batch' = [batch EXCEPT ![w] = {}]
    /\ cur' = [cur EXCEPT ![w] = NoEvent]
    /\ tries' = [tries EXCEPT ![w] = 0]
    /\ UNCHANGED <<storeVars, outcome, seenAttempts, seenLease, received>>

\* A settling store method finds no row of this worker and raises KeyError.
LeaseLost(w) ==
    /\ phase[w] \in {"ok", "failed"}
    /\ ~Owns(w, cur[w])
    /\ Abandon(w)
    /\ UNCHANGED crashes

\* The process dies, is interrupted, or the store is unreachable.
Crash(w) ==
    /\ phase[w] # "idle"
    /\ crashes < MaxCrashes
    /\ crashes' = crashes + 1
    /\ Abandon(w)

\* External: the clock advances.
Dec(n) == IF n > 0 THEN n - 1 ELSE 0
Tick ==
    /\ availableIn' = [e \in EventIds |-> Dec(availableIn[e])]
    /\ leaseLeft' = [e \in EventIds |-> Dec(leaseLeft[e])]
    /\ seenLease' = [w \in Workers |-> [e \in EventIds |-> Dec(seenLease[w][e])]]
    /\ UNCHANGED <<rows, status, attempts, leaseOwner, deliveredAt, deadLetters, outcome,
                   phase, batch, cur, tries, seenAttempts, received, crashes>>

Settle(w) ==
    \/ MarkDelivered(w)
    \/ \E delay \in Delays : Reschedule(w, delay)
    \/ DeadLetter(w) \/ SelectOwned(w) \/ MoveSelected(w)
    \/ LeaseLost(w)

Deliver(w) ==
    \E e \in EventIds : DeliverOk(w, e) \/ DeliverRetry(w, e) \/ DeliverFail(w, e)

ClaimAny(w) == \E d \in Destinations \cup {AnyDestination} : Claim(w, d)

Work == \E w \in Workers : ClaimAny(w) \/ Deliver(w) \/ Settle(w) \/ Crash(w)

Next == (\E m \in Submissions : Enqueue(m)) \/ Work \/ Tick

Spec == Init /\ [][Next]_vars

\* Every worker that runs finishes its batch while it still holds the leases.
TimelyTick ==
    /\ \A w \in Workers : \A e \in batch[w] : seenLease[w][e] > 1
    /\ Tick

\* Workers keep polling and finish what they began, and time passes.
TimelySpec ==
    /\ Init
    /\ [][(\E m \in Submissions : Enqueue(m)) \/ Work \/ TimelyTick]_vars
    /\ WF_vars(TimelyTick)
    /\ \A w \in Workers :
        WF_vars(ClaimAny(w)) /\ WF_vars(Deliver(w)) /\ WF_vars(Settle(w))

-----------------------------------------------------------------------------
Statuses == {"absent", "pending", "leased", "delivered", "dead_letter"}
Phases == {"idle", "loop", "retry", "ok", "failed", "moving"}

(* Type invariant; a row carries a lease owner and an expiry exactly while *)
(* it is leased.                                                           *)
TypeOK ==
    /\ rows \subseteq Submissions
    /\ status \in [EventIds -> Statuses]
    /\ attempts \in [EventIds -> 0..MaxDeliveryAttempts]
    /\ availableIn \in [EventIds -> Nat]
    /\ leaseOwner \in [EventIds -> {WorkerId[w] : w \in Workers} \cup {NoOwner}]
    /\ leaseLeft \in [EventIds -> 0..(LeaseSeconds + 1)]
    /\ deliveredAt \subseteq EventIds
    /\ deadLetters \subseteq EventIds
    /\ outcome \in [Submissions -> {"none", "accepted", "refused"}]
    /\ phase \in [Workers -> Phases]
    /\ batch \in [Workers -> SUBSET EventIds]
    /\ cur \in [Workers -> EventIds \cup {NoEvent}]
    /\ tries \in [Workers -> 0..(RetryAttempts - 1)]
    /\ seenAttempts \in [Workers -> [EventIds -> 0..MaxDeliveryAttempts]]
    /\ seenLease \in [Workers -> [EventIds -> 0..(LeaseSeconds + 1)]]
    /\ received \subseteq EventIds
    /\ crashes \in 0..MaxCrashes
    /\ \A e \in EventIds : status[e] # "leased" => leaseOwner[e] = NoOwner /\ leaseLeft[e] = 0

\* Every process has a worker_id of its own.
DistinctIds == \A v, w \in Workers : WorkerId[v] = WorkerId[w] => v = w

(* If no two processes share a worker_id, two processes never work on an   *)
(* event at the same time while both believe, from the snapshot claim gave *)
(* them, that they hold its lease.                                         *)
LeaseExclusive ==
    DistinctIds => \A v, w \in Workers : v # w =>
        \A e \in batch[v] \cap batch[w] : seenLease[v][e] = 0 \/ seenLease[w][e] = 0

(* An event is marked delivered only after its receiver accepted it, even  *)
(* when the marking worker is not the one that claimed it last.            *)
DeliveredWasReceived ==
    deliveredAt \subseteq received /\ \A e \in EventIds : status[e] = "delivered" => e \in deliveredAt

(* "Workers lease events, apply retries and circuit breakers, and move     *)
(* terminal failures into a dead-letter store" (ENTERPRISE_ARCHITECTURE.md,*)
(* line 30): no event marked delivered is among the dead letters, whatever *)
(* late workers, whose leases ran out before they settled it, still do.    *)
OnlyFailuresMoved == deadLetters \cap deliveredAt = {}

(* The dead-letter table and the outbox agree, and only an event whose     *)
(* attempts are used up is in it, although the worker that moves it decides*)
(* from a snapshot that may be older than the row.                         *)
DeadLettersAgree ==
    \A e \in EventIds :
        /\ status[e] = "dead_letter" <=> e \in deadLetters
        /\ e \in deadLetters => attempts[e] >= MaxDeliveryAttempts

(* "Persists delivery before returning" (outbox.py:512): an event whose    *)
(* enqueue returned is on the books for its own destination, once.         *)
AcceptedIsStored ==
    \A m \in Submissions : outcome[m] = "accepted" =>
        Cardinality({r \in rows : r.destination = m.destination /\ r.key = m.key}) = 1

(* The outbox implements the ledger it promises to keep; with SQLite an    *)
(* event may be given up although it has just been delivered.              *)
Ledger == INSTANCE DeliveryLedger WITH
    LateGiveUp <- (Backend = "sqlite"),
    stage <- [e \in EventIds |-> IF status[e] \in {"pending", "leased"}
                                 THEN "queued" ELSE status[e]]
LedgerSpec == Ledger!Spec

(* Every accepted event is delivered or dead-lettered in the end, through  *)
(* failures, retries and crashes, if running workers keep within their     *)
(* leases.                                                                 *)
Settles ==
    \A e \in EventIds : status[e] = "pending" ~> status[e] \in {"delivered", "dead_letter"}
=============================================================================
