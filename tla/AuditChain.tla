----------------------------- MODULE AuditChain -----------------------------
(***************************************************************************)
(* The hash-chained audit trail of audit/: the in-memory, JSONL, SQLite    *)
(* and PostgreSQL stores behind one protocol.  record selects the tail of  *)
(* a correlation's chain and stores the next event under the store's lock; *)
(* append is given an event that was built on a tail read earlier.  Chains *)
(* of different correlations share only the lock and the file, so the log  *)
(* is kept per chain.  Faults: a writer's process dies, a line of the file *)
(* is cut short, the answer of the remote service is lost, and stored rows *)
(* are altered from outside.                                               *)
(***************************************************************************)
EXTENDS Naturals, Sequences

CONSTANTS
    Writers,
    Chains,      \* correlation ids
    NoChain,
    Frail,       \* events whose payload JSONB does not give back as written
    MaxEvents,   \* bound on the events created
    MaxFaults    \* bound on crashes and outside changes

ASSUME AuditAssumption ==
    /\ NoChain \notin Chains
    /\ Frail \subseteq Nat
    /\ MaxEvents \in Nat
    /\ MaxFaults \in Nat

Stores == {"memory", "jsonl", "sqlite", "postgres"}
Ids == 1..MaxEvents

\* Without a predecessor prev_hash is None.
NoHash == 0

\* An ideal digest: no two different arguments with ids up to MaxEvents and
\* contents below 3 have the same one.
Digest(id, content, prev) == prev * (3 * MaxEvents + 3) + 3 * id + content

\* A stored event.  Its content is 0 as written, 1 once altered, and no event
\* has content 2; column is what the database's own columns say beside
\* event_json.
Events == [id : Nat, content : 0..1, column : 0..1, prev : Nat, hash : Nat]

\* AuditEvent.create computes the hash of the event itself, hashed = 0; a
\* client of append may send any other one.
Event(id, prev, hashed) ==
    [id |-> id, content |-> 0, column |-> 0, prev |-> prev,
     hash |-> Digest(id, hashed, prev)]

IdsOf(s) == [i \in 1..Len(s) |-> s[i].id]

\* The history kept of an event that is put on a chain already changed.
Unknown == <<0>>

VARIABLES
    store,     \* which store is deployed
    log,       \* log[c]: the readable events of chain c, in order
    open,      \* the chain of a last line without its newline, or NoChain
    torn,      \* the file has a line that is not a JSON object
    created,   \* events created so far
    pc,        \* pc[w]: how far writer w is
    chain,     \* chain[w]: the correlation w writes to
    event,     \* event[w]: the event w is about to store
    acked,     \* history: ids a writer was told are stored, by chain
    lineage,   \* history: the ids before an event when it was created
    seal,      \* history: the hash an event was created with
    harmed,    \* history: chains changed from outside
    faults

storeVars == <<log, open, torn>>
vars == <<store, storeVars, created, pc, chain, event, acked, lineage, seal, harmed, faults>>

Init ==
    /\ store \in Stores
    /\ log = [c \in Chains |-> <<>>]
    /\ open = NoChain
    /\ torn = FALSE
    /\ created = 0
    /\ pc = [w \in Writers |-> "idle"]
    /\ chain = [w \in Writers |-> NoChain]
    /\ event = [w \in Writers |-> Event(0, NoHash, 0)]
    /\ acked = [c \in Chains |-> {}]
    /\ lineage = [i \in Ids |-> Unknown]
    /\ seal = [i \in Ids |-> NoHash]
    /\ harmed = {}
    /\ faults = 0

-----------------------------------------------------------------------------
(* Reading. *)

\* _read_objects_from_handle raises for a malformed line; the mutant skips it.
ReadableAlways == TRUE
Readable == ~torn

\* last_hash, and the tail record and append select.
TailOf(s) == IF Len(s) = 0 THEN NoHash ELSE s[Len(s)].hash

\* One event of verify: prev_hash is the hash before it.  The mutant takes
\* each event for itself.
LinkedAlways(s, i) == TRUE
Linked(s, i) == s[i].prev = IF i = 1 THEN NoHash ELSE s[i - 1].hash

\* ... its hash is that of its content, and the columns agree with the JSON.
Hashed(e) == e.hash = Digest(e.id, e.content, e.prev)
ColumnsAgree(e) == store \in {"sqlite", "postgres"} => e.column = e.content

\* verify accepts chain c.
Verified(c) ==
    /\ Readable
    /\ \A i \in 1..Len(log[c]) :
        Linked(log[c], i) /\ Hashed(log[c][i]) /\ ColumnsAgree(log[c][i])

-----------------------------------------------------------------------------
(* Locks: the process lock with the file lock or BEGIN IMMEDIATE covers    *)
(* the whole store, pg_advisory_xact_lock one correlation.                 *)

InLock(w) == pc[w] \in {"recording", "checking", "writing"}

LockFree(w, c) ==
    \A v \in Writers \ {w} : InLock(v) => store = "postgres" /\ chain[v] # c

-----------------------------------------------------------------------------
(* record *)

Record(w, c) ==
    /\ pc[w] = "idle"
    /\ created < MaxEvents
    /\ LockFree(w, c)
    /\ pc' = [pc EXCEPT ![w] = "recording"]
    /\ chain' = [chain EXCEPT ![w] = c]
    /\ UNCHANGED <<store, storeVars, created, event, acked, lineage, seal, harmed, faults>>

\* The next event of chain c, on its current tail.
NewEvent(w, c, hashed) ==
    /\ created < MaxEvents
    /\ created' = created + 1
    /\ event' = [event EXCEPT ![w] = Event(created + 1, TailOf(log[c]), hashed)]
    /\ seal' = [seal EXCEPT ![created + 1] = Digest(created + 1, hashed, TailOf(log[c]))]
    /\ lineage' = [lineage EXCEPT ![created + 1] =
                       IF c \in harmed THEN Unknown ELSE IdsOf(log[c])]

SelectTail(w) ==
    /\ pc[w] = "recording"
    /\ Readable
    /\ NewEvent(w, chain[w], 0)
    /\ pc' = [pc EXCEPT ![w] = "writing"]
    /\ UNCHANGED <<store, storeVars, chain, acked, harmed, faults>>

-----------------------------------------------------------------------------
(* last_hash, AuditEvent.create and append, as the fallback of             *)
(* SentinelRunner._log and remote clients call them; clients of the        *)
(* service's append build the event themselves.                            *)

Build(w, c) ==
    /\ pc[w] = "idle"
    /\ Readable
    /\ \E hashed \in {0, 2} : NewEvent(w, c, hashed)
    /\ chain' = [chain EXCEPT ![w] = c]
    /\ pc' = [pc EXCEPT ![w] = "built"]
    /\ UNCHANGED <<store, storeVars, acked, harmed, faults>>

AppendEvent(w) ==
    /\ pc[w] = "built"
    /\ LockFree(w, chain[w])
    /\ pc' = [pc EXCEPT ![w] = "checking"]
    /\ UNCHANGED <<store, storeVars, created, chain, event, acked, lineage, seal, harmed, faults>>

\* The mutant accepts any predecessor.
NeverStale(w) == FALSE
Stale(w) == event[w].prev # TailOf(log[chain[w]])

CheckTail(w) ==
    /\ pc[w] = "checking"
    /\ Readable
    /\ ~Stale(w)
    /\ pc' = [pc EXCEPT ![w] = "writing"]
    /\ UNCHANGED <<store, storeVars, created, chain, event, acked, lineage, seal, harmed, faults>>

\* AuditIntegrityError: a stale predecessor, or a malformed file.
Rejected(w) ==
    /\ \/ pc[w] \in {"recording", "checking"} /\ ~Readable
       \/ pc[w] = "checking" /\ Stale(w)
    /\ pc' = [pc EXCEPT ![w] = "idle"]
    /\ UNCHANGED <<store, storeVars, created, chain, event, acked, lineage, seal, harmed, faults>>

-----------------------------------------------------------------------------
(* Storing the event. *)

\* What is read back: JSONB keeps numbers as decimals, so that a float such as
\* 1e16 or -0.0 returns as another value, in payload_json and event_json alike.
Stored(e) ==
    IF store = "postgres" /\ e.id \in Frail THEN [e EXCEPT !.content = 1, !.column = 1] ELSE e

Store(w) == log' = [log EXCEPT ![chain[w]] = Append(@, Stored(event[w]))]

\* The line is written, flushed and synced, or the transaction commits.
Write(w) ==
    /\ pc[w] = "writing"
    /\ open = NoChain
    /\ Store(w)
    /\ pc' = [pc EXCEPT ![w] = "stored"]
    /\ UNCHANGED <<store, open, torn, created, chain, event, acked, lineage, seal, harmed, faults>>

\* After a line without newline the new line is written on the same one,
\* and neither event can be read again.  In the mutant nobody sees it.
GlueUnseen(c) ==
    /\ log' = [log EXCEPT ![c] = SubSeq(@, 1, Len(@) - 1)]
    /\ open' = NoChain
    /\ UNCHANGED torn
Glue(c) ==
    /\ log' = [log EXCEPT ![c] = SubSeq(@, 1, Len(@) - 1)]
    /\ open' = NoChain
    /\ torn' = TRUE

WriteGlued(w) ==
    /\ pc[w] = "writing"
    /\ open # NoChain
    /\ Glue(open)
    /\ pc' = [pc EXCEPT ![w] = "stored"]
    /\ UNCHANGED <<store, created, chain, event, acked, lineage, seal, harmed, faults>>

Answer(w) ==
    /\ pc[w] = "stored"
    /\ pc' = [pc EXCEPT ![w] = "idle"]
    /\ acked' = [acked EXCEPT ![chain[w]] = @ \cup {event[w].id}]
    /\ UNCHANGED <<store, storeVars, created, chain, event, lineage, seal, harmed, faults>>

-----------------------------------------------------------------------------
(* Faults. *)

Fault == store # "memory" /\ faults < MaxFaults /\ faults' = faults + 1

\* The writer dies, loses its connection or waits for a lock too long, or
\* the answer of RemoteAuditStore's request is lost.
Crash(w) ==
    /\ pc[w] # "idle"
    /\ Fault
    /\ pc' = [pc EXCEPT ![w] = "idle"]
    /\ UNCHANGED <<store, storeVars, created, chain, event, acked, lineage, seal, harmed>>

\* The writer, the disk or the machine fails in the middle of the line: part
\* of it is in the file, or all but its newline.
CrashInLine(w) ==
    /\ store = "jsonl"
    /\ pc[w] = "writing"
    /\ Fault
    /\ pc' = [pc EXCEPT ![w] = "idle"]
    /\ \/ open # NoChain /\ Glue(open)
       \/ open = NoChain /\ torn' = TRUE /\ UNCHANGED <<log, open>>
       \/ open = NoChain /\ open' = chain[w] /\ Store(w) /\ UNCHANGED torn
    /\ UNCHANGED <<store, created, chain, event, acked, lineage, seal, harmed>>

\* A stored event is altered (in the database perhaps in one place only) and
\* perhaps linked to what is now before it and given the hash that fits, lost,
\* or exchanged with the next one.  The hash has no key: anybody can compute it.
Altered(s, i) ==
    {[id |-> s[i].id, content |-> p, column |-> q, prev |-> v,
      hash |-> IF recomputed THEN Digest(s[i].id, p, v) ELSE s[i].hash] :
        p \in 0..1, q \in 0..1, v \in {s[i].prev, TailOf(SubSeq(s, 1, i - 1))},
        recomputed \in BOOLEAN}

Without(s, i) == SubSeq(s, 1, i - 1) \o SubSeq(s, i + 1, Len(s))

Harm(c) ==
    /\ Fault
    /\ open = NoChain
    /\ harmed' = harmed \cup {c}
    /\ \E i \in 1..Len(log[c]) :
        \/ \E e \in Altered(log[c], i) : log' = [log EXCEPT ![c][i] = e]
        \/ log' = [log EXCEPT ![c] = Without(@, i)]
        \/ i < Len(log[c]) /\ log' = [log EXCEPT ![c][i] = log[c][i + 1], ![c][i + 1] = log[c][i]]
    /\ UNCHANGED <<store, open, torn, created, pc, chain, event, acked, lineage, seal>>

Next ==
    \/ \E w \in Writers :
        \/ \E c \in Chains : Record(w, c) \/ Build(w, c)
        \/ SelectTail(w) \/ AppendEvent(w) \/ CheckTail(w) \/ Rejected(w)
        \/ Write(w) \/ WriteGlued(w) \/ Answer(w)
        \/ Crash(w) \/ CrashInLine(w)
    \/ \E c \in Chains : Harm(c)

Spec == Init /\ [][Next]_vars

-----------------------------------------------------------------------------
Pcs == {"idle", "recording", "built", "checking", "writing", "stored"}

(* Type invariant.  A line without its newline, or a malformed one, exists *)
(* only in the JSONL store, and the first is a line of its chain.          *)
TypeOK ==
    /\ store \in Stores
    /\ log \in [Chains -> Seq(Events)]
    /\ open \in Chains \cup {NoChain}
    /\ torn \in BOOLEAN
    /\ created \in 0..MaxEvents
    /\ pc \in [Writers -> Pcs]
    /\ chain \in [Writers -> Chains \cup {NoChain}]
    /\ event \in [Writers -> Events]
    /\ acked \in [Chains -> SUBSET Nat]
    /\ lineage \in [Ids -> Seq(Nat)]
    /\ seal \in [Ids -> Nat]
    /\ harmed \subseteq Chains
    /\ faults \in 0..MaxFaults
    /\ (torn \/ open # NoChain) => store = "jsonl"
    /\ ~(torn /\ open # NoChain)
    /\ open # NoChain => log[open] # <<>>

\* The event came with its own hash, as AuditEvent.create makes it ...
OwnHash(e) == seal[e.id] = Digest(e.id, 0, e.prev)

\* ... and is read back as it was written.
Faithful(e) ==
    /\ OwnHash(e)
    /\ ~(store = "postgres" /\ e.id \in Frail)

(* The chain never forks: whatever writers record and append at the same   *)
(* time, on tails read before another's event, and wherever they crash,    *)
(* the one reason why verify rejects a chain that can be read and that     *)
(* nobody changed is an event that JSONB rewrote or that a client appended *)
(* with a wrong hash, which append does not look at.                       *)
IntactVerifies ==
    \A c \in Chains \ harmed :
        Readable => (Verified(c) <=> \A i \in 1..Len(log[c]) : Faithful(log[c][i]))

(* An audit that passes is complete: while verify accepts a chain nobody   *)
(* has changed from outside, every event a writer was told is stored is    *)
(* among the verified ones, torn and unterminated lines notwithstanding.   *)
AcknowledgedVerified ==
    \A c \in Chains \ harmed :
        Verified(c) => \A id \in acked[c] : \E i \in 1..Len(log[c]) : log[c][i].id = id

\* The event still has the hash it was created with.
Sealed(e) == e.hash = seal[e.id]

(* "tamper-evident, not independently immutable" (README.md:296): whoever  *)
(* can write to the store can recompute the hashes up to the end of the    *)
(* chain, but not without changing them.  If verify accepts a chain and an *)
(* event recorded on it before the first change has the hash it was        *)
(* created with, which its writer was given, then it and every event       *)
(* before it is as it was recorded, and none is missing, new or moved.     *)
HarmEvident ==
    \A c \in Chains : Verified(c) =>
        \A i \in 1..Len(log[c]) :
            LET e == log[c][i] IN
            Sealed(e) /\ lineage[e.id] # Unknown =>
                /\ lineage[e.id] = IdsOf(SubSeq(log[c], 1, i - 1))
                /\ \A j \in 1..i : Sealed(log[c][j]) /\ log[c][j].content = 0

(* The store implements the trail it promises: concurrent writers, crashes *)
(* in the middle of a line and lost answers only ever add an event that is *)
(* not on any trail yet, tell of one that is there, or make the file       *)
(* unreadable, which costs no event that was acknowledged before.          *)
Trail == INSTANCE AuditTrail WITH
    trail <- [c \in Chains |-> IF c \in harmed THEN <<>> ELSE IdsOf(log[c])],
    told <- acked,
    broken <- torn,
    changed <- harmed
TrailSpec == Trail!Spec
=============================================================================
