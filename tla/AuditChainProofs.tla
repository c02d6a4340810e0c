-------------------------- MODULE AuditChainProofs --------------------------
(* The audit trail, for any writers, chains, numbers of events and faults.  *)
EXTENDS AuditChain, SequenceTheorems, WellFoundedInduction, TLAPS

-----------------------------------------------------------------------------
(* Facts about sequences of events. *)

\* What JSONB, or another store, gives back of the content of event id.
ReadBack(st, id) == IF st = "postgres" /\ id \in Frail THEN 1 ELSE 0

\* What holds of every event of a chain that was not changed from outside: it
\* is linked, it is what the store makes of an event as it was written, and
\* its hash is its own or its client's.
SoundAt(st, s, i) ==
    /\ Linked(s, i)
    /\ s[i].column = s[i].content
    /\ s[i].content = ReadBack(st, s[i].id)
    /\ \E x \in {0, 2} : s[i].hash = Digest(s[i].id, x, s[i].prev)

Sound(st, s) == \A i \in 1..Len(s) : SoundAt(st, s, i)

(* A digest is a number.                                                    *)
LEMMA DigestType ==
  ASSUME NEW id \in Nat, NEW x \in 0..2, NEW prev \in Nat
  PROVE  Digest(id, x, prev) \in Nat
<1>1. 3 * MaxEvents + 3 \in Nat
  BY AuditAssumption
<1>2. prev * (3 * MaxEvents + 3) \in Nat
  BY <1>1
<1>3. QED
  BY <1>2 DEF Digest

(* An event that is built is a well-formed event.                           *)
LEMMA EventType ==
  ASSUME NEW id \in Nat, NEW prev \in Nat, NEW x \in {0, 2}
  PROVE  Event(id, prev, x) \in Events
<1>1. Digest(id, x, prev) \in Nat
  BY DigestType
<1>2. QED
  BY <1>1 DEF Event, Events

(* So is what is read back of it.                                           *)
LEMMA StoredType ==
  ASSUME NEW e \in Events
  PROVE  /\ Stored(e) \in Events
         /\ Stored(e).id = e.id /\ Stored(e).prev = e.prev /\ Stored(e).hash = e.hash
         /\ e.content = 0 /\ e.column = 0 =>
               Stored(e).content = ReadBack(store, e.id) /\ Stored(e).column = ReadBack(store, e.id)
<1>1. CASE store = "postgres" /\ e.id \in Frail
  <2>1. Stored(e) = [e EXCEPT !.content = 1, !.column = 1]
    BY <1>1 DEF Stored
  <2>2. /\ e.id \in Nat /\ e.prev \in Nat /\ e.hash \in Nat
        /\ Stored(e) = [id |-> e.id, content |-> 1, column |-> 1, prev |-> e.prev, hash |-> e.hash]
    BY <2>1 DEF Events
  <2>3. QED
    BY <1>1, <2>2 DEF Events, ReadBack
<1>2. CASE ~(store = "postgres" /\ e.id \in Frail)
  <2>1. Stored(e) = e
    BY <1>2 DEF Stored
  <2>2. QED
    BY <1>2, <2>1 DEF Events, ReadBack
<1>3. QED
  BY <1>1, <1>2

(* The tail of a chain is a hash or None.                                   *)
LEMMA TailType == ASSUME NEW s \in Seq(Events) PROVE TailOf(s) \in Nat
<1>1. CASE Len(s) = 0
  BY <1>1 DEF TailOf, NoHash
<1>2. CASE Len(s) # 0
  <2>1. Len(s) \in 1..Len(s)
    BY <1>2, LenProperties
  <2>2. s[Len(s)] \in Events
    BY <2>1, ElementOfSeq
  <2>3. QED
    BY <1>2, <2>2 DEF TailOf, Events
<1>3. QED
  BY <1>1, <1>2

(* Storing an event built on the tail keeps a chain sound.                  *)
LEMMA AppendSound ==
  ASSUME NEW s \in Seq(Events), NEW d \in Events, Sound(store, s), d.prev = TailOf(s),
         NEW x \in {0, 2}, d = Event(d.id, d.prev, x)
  PROVE  Sound(store, Append(s, Stored(d)))
<1> DEFINE e == Stored(d)  t == Append(s, e)
<1>1. /\ Len(t) = Len(s) + 1 /\ Len(s) \in Nat
      /\ \A i \in 1..Len(s) : t[i] = s[i]
      /\ t[Len(s) + 1] = e
  BY StoredType, AppendProperties, LenProperties
<1>2. /\ e.id = d.id /\ e.prev = d.prev /\ e.column = e.content /\ e.content = ReadBack(store, e.id)
      /\ e.hash = Digest(e.id, x, e.prev)
  <2>1. d.content = 0 /\ d.column = 0 /\ d.hash = Digest(d.id, x, d.prev)
    BY DEF Event
  <2>2. QED
    BY <2>1, StoredType
<1> HIDE DEF e, t
<1>3. ASSUME NEW i \in 1..Len(t) PROVE SoundAt(store, t, i)
  <2>1. CASE i <= Len(s)
    <3>1. i \in 1..Len(s) /\ t[i] = s[i]
      BY <1>1, <2>1
    <3>2. i # 1 => t[i - 1] = s[i - 1]
      BY <1>1, <2>1
    <3>3. SoundAt(store, s, i)
      BY <3>1 DEF Sound
    <3>4. QED
      BY <3>1, <3>2, <3>3 DEF SoundAt, Linked
  <2>2. CASE i = Len(s) + 1
    <3>1. t[i] = e
      BY <1>1, <2>2
    <3>2. i # 1 => t[i - 1] = s[Len(s)] /\ Len(s) # 0
      BY <1>1, <2>2
    <3>3. i = 1 => Len(s) = 0
      BY <1>1, <2>2
    <3>4. Linked(t, i)
      BY <1>2, <3>1, <3>2, <3>3 DEF Linked, TailOf
    <3>5. QED
      BY <1>2, <3>1, <3>4 DEF SoundAt
  <2>3. QED
    BY <1>1, <2>1, <2>2
<1>4. QED
  BY <1>3 DEF Sound, t, e

(* So does losing its last event.                                           *)
LEMMA FrontSound ==
  ASSUME NEW s \in Seq(Events), s # <<>>
  PROVE  /\ SubSeq(s, 1, Len(s) - 1) \in Seq(Events)
         /\ Sound(store, s) => Sound(store, SubSeq(s, 1, Len(s) - 1))
<1> DEFINE t == SubSeq(s, 1, Len(s) - 1)
<1>1. Len(s) \in Nat /\ Len(s) # 0
  BY LenProperties, EmptySeq
<1>2. t \in Seq(Events) /\ Len(t) = Len(s) - 1 /\ \A i \in 1..Len(t) : t[i] = s[i]
  <2> DEFINE n == Len(s) - 1
  <2>1. n \in Int /\ 0 <= n
    BY <1>1
  <2>2. \A i \in 1..n : s[i] \in Events
    BY <1>1, ElementOfSeq
  <2> HIDE DEF n
  <2>3. /\ SubSeq(s, 1, n) \in Seq(Events)
        /\ Len(SubSeq(s, 1, n)) = IF 1 <= n THEN n - 1 + 1 ELSE 0
        /\ \A i \in 1..(n - 1 + 1) : SubSeq(s, 1, n)[i] = s[1 + i - 1]
    BY <2>1, <2>2, SubSeqProperties
  <2>4. Len(SubSeq(s, 1, n)) = n /\ \A i \in 1..n : SubSeq(s, 1, n)[i] = s[i]
    BY <2>1, <2>3
  <2>5. QED
    BY <2>3, <2>4 DEF n
<1> HIDE DEF t
<1>3. ASSUME Sound(store, s), NEW i \in 1..Len(t) PROVE SoundAt(store, t, i)
  <2>1. i \in 1..Len(s) /\ t[i] = s[i] /\ (i # 1 => t[i - 1] = s[i - 1])
    BY <1>1, <1>2
  <2>2. SoundAt(store, s, i)
    BY <1>3, <2>1 DEF Sound
  <2>3. QED
    BY <2>1, <2>2 DEF SoundAt, Linked
<1>4. QED
  BY <1>2, <1>3 DEF Sound, t

(* An altered event is a well-formed one, and has the id it had.            *)
LEMMA AlteredType ==
  ASSUME NEW s \in Seq(Events), NEW i \in 1..Len(s), NEW e \in Altered(s, i)
  PROVE  e \in Events /\ e.id = s[i].id
<1>1. Len(s) \in Nat /\ s[i] \in Events /\ \A j \in 1..Len(s) : s[j] \in Events
  BY LenProperties, ElementOfSeq
<1>2. s[i].id \in Nat /\ s[i].prev \in Nat /\ s[i].hash \in Nat
  BY <1>1 DEF Events
<1>3. TailOf(SubSeq(s, 1, i - 1)) \in Nat
  <2>1. i - 1 \in Int /\ \A j \in 1..(i - 1) : s[j] \in Events
    BY <1>1
  <2>2. SubSeq(s, 1, i - 1) \in Seq(Events)
    BY <2>1, SubSeqProperties
  <2>3. QED
    BY <2>2, TailType
<1>4. PICK p \in 0..1, q \in 0..1, v \in {s[i].prev, TailOf(SubSeq(s, 1, i - 1))}, b \in BOOLEAN :
        e = [id |-> s[i].id, content |-> p, column |-> q, prev |-> v,
             hash |-> IF b THEN Digest(s[i].id, p, v) ELSE s[i].hash]
  BY DEF Altered
<1>5. v \in Nat /\ p \in 0..2
  BY <1>2, <1>3
<1>6. Digest(s[i].id, p, v) \in Nat
  BY <1>2, <1>5, DigestType
<1>7. QED
  BY <1>2, <1>4, <1>5, <1>6 DEF Events

(* Losing an event, altering one or exchanging two leaves a log of events.  *)
LEMMA HarmType ==
  ASSUME NEW s \in Seq(Events), NEW i \in 1..Len(s)
  PROVE  /\ Without(s, i) \in Seq(Events)
         /\ \A e \in Altered(s, i) : [s EXCEPT ![i] = e] \in Seq(Events)
         /\ i < Len(s) => [s EXCEPT ![i] = s[i + 1], ![i + 1] = s[i]] \in Seq(Events)
<1>1. Len(s) \in Nat /\ \A j \in 1..Len(s) : s[j] \in Events
  BY LenProperties, ElementOfSeq
<1>2. Without(s, i) \in Seq(Events)
  <2>1. SubSeq(s, 1, i - 1) \in Seq(Events)
    <3>1. i - 1 \in Int /\ \A j \in 1..(i - 1) : s[j] \in Events
      BY <1>1
    <3>2. QED
      BY <3>1, SubSeqProperties
  <2>2. SubSeq(s, i + 1, Len(s)) \in Seq(Events)
    <3>1. i + 1 \in Int /\ Len(s) \in Int /\ \A j \in (i + 1)..Len(s) : s[j] \in Events
      BY <1>1
    <3>2. QED
      BY <3>1, SubSeqProperties
  <2>3. QED
    BY <2>1, <2>2, ConcatProperties DEF Without
<1>3. \A e \in Altered(s, i) : [s EXCEPT ![i] = e] \in Seq(Events)
  <2>1. s[i] \in Events
    BY <1>1
  <2>2. \A e \in Altered(s, i) : e \in Events
    BY <1>1, AlteredType
  <2>3. \A e \in Events : [s EXCEPT ![i] = e] \in Seq(Events)
    BY ExceptSeq
  <2>4. QED
    BY <2>2, <2>3
<1>4. ASSUME i < Len(s) PROVE [s EXCEPT ![i] = s[i + 1], ![i + 1] = s[i]] \in Seq(Events)
  <2> DEFINE t == [s EXCEPT ![i] = s[i + 1]]
  <2>1. t \in Seq(Events) /\ Len(t) = Len(s)
    BY <1>1, <1>4, ExceptSeq
  <2>2. i + 1 \in 1..Len(t)
    BY <1>1, <1>4, <2>1
  <2>3. [t EXCEPT ![i + 1] = s[i]] \in Seq(Events)
    BY <1>1, <2>1, <2>2, ExceptSeq
  <2>4. QED
    BY <2>3
<1>5. QED
  BY <1>2, <1>3, <1>4

-----------------------------------------------------------------------------
(* The inductive invariant. *)

\* A writer that is not idle has a chain, and has built its event.
JobsBuilt ==
    \A w \in Writers :
        /\ pc[w] # "idle" => chain[w] \in Chains
        /\ pc[w] \in {"built", "checking", "writing", "stored"} =>
              \E x \in {0, 2} : event[w] = Event(event[w].id, event[w].prev, x)

\* The lock excludes two writers of one chain and, except in PostgreSQL, of
\* one store.
Mutex ==
    \A v, w \in Writers :
        v # w /\ InLock(v) /\ InLock(w) => store = "postgres" /\ chain[v] # chain[w]

\* The event about to be stored was built on the tail that is still there.
OnTail ==
    \A w \in Writers :
        pc[w] = "writing" /\ chain[w] \notin harmed => event[w].prev = TailOf(log[chain[w]])

SoundLogs == \A c \in Chains \ harmed : Sound(store, log[c])

Holds(c, id) == \E i \in 1..Len(log[c]) : log[c][i].id = id

\* What is or will be acknowledged is in the log, unless the file is torn.
Kept ==
    ~torn => \A c \in Chains \ harmed :
        /\ \A id \in acked[c] : Holds(c, id)
        /\ \A w \in Writers : pc[w] = "stored" /\ chain[w] = c => Holds(c, event[w].id)

\* Nobody is about to write to a torn file.
TornStops == torn => \A w \in Writers : pc[w] # "writing"

Inv == TypeOK /\ JobsBuilt /\ Mutex /\ OnTail /\ TornStops /\ SoundLogs /\ Kept

(* What an auditor learns from a chain that verify accepts follows from it. *)
LEMMA InvSuffices == Inv => AcknowledgedVerified
  BY DEF Inv, Kept, Holds, Verified, Readable, AcknowledgedVerified

(* The empty store.                                                         *)
LEMMA InitInv == Init => Inv
<1>1. SUFFICES ASSUME Init PROVE Inv
  OBVIOUS
<1>2. Event(0, NoHash, 0) \in Events
  BY EventType DEF NoHash
<1>3. <<>> \in Seq(Events) /\ Unknown \in Seq(Nat)
  BY DEF Unknown
<1>4. TypeOK
  <2>1. /\ event \in [Writers -> Events] /\ log \in [Chains -> Seq(Events)]
        /\ lineage \in [Ids -> Seq(Nat)] /\ seal \in [Ids -> Nat]
    BY <1>1, <1>2, <1>3 DEF Init, NoHash
  <2>2. torn \in BOOLEAN /\ ~torn
    BY <1>1, Zenon DEF Init
  <2>3. QED
    BY <1>1, <2>1, <2>2, AuditAssumption DEF Init, TypeOK, Pcs, Stores
<1>5. JobsBuilt /\ Mutex /\ OnTail /\ TornStops
  BY <1>1 DEF Init, JobsBuilt, Mutex, OnTail, TornStops, InLock
<1>6. SoundLogs
  BY <1>1 DEF Init, SoundLogs, Sound
<1>7. Kept
  BY <1>1 DEF Init, Kept, Holds
<1>8. QED
  BY <1>4, <1>5, <1>6, <1>7 DEF Inv

-----------------------------------------------------------------------------
(* Steps that leave the stored events alone. *)

(* The ids of a log are a sequence of numbers.                              *)
LEMMA IdsType == ASSUME NEW s \in Seq(Events) PROVE IdsOf(s) \in Seq(Nat)
<1>1. Len(s) \in Nat /\ \A i \in 1..Len(s) : s[i] \in Events
  BY LenProperties, ElementOfSeq
<1>2. \A i \in 1..Len(s) : s[i].id \in Nat
  BY <1>1 DEF Events
<1>3. QED
  BY <1>1, <1>2, IsASeq DEF IdsOf

(* A new event is well formed and built on the tail.                        *)
LEMMA NewEventType ==
  ASSUME TypeOK, NEW w \in Writers, NEW c \in Chains, NEW x \in {0, 2}, NewEvent(w, c, x)
  PROVE  /\ created' \in 0..MaxEvents
         /\ event' \in [Writers -> Events]
         /\ lineage' \in [Ids -> Seq(Nat)]
         /\ seal' \in [Ids -> Nat]
         /\ event'[w] = Event(event'[w].id, event'[w].prev, x)
         /\ event'[w].prev = TailOf(log[c])
         /\ \A v \in Writers \ {w} : event'[v] = event[v]
<1>1. log[c] \in Seq(Events)
  BY DEF TypeOK
<1>2. TailOf(log[c]) \in Nat
  BY <1>1, TailType
<1>3. created + 1 \in Nat /\ created' \in 0..MaxEvents
  BY AuditAssumption DEF TypeOK, NewEvent
<1>4. /\ Event(created + 1, TailOf(log[c]), x) \in Events
      /\ Digest(created + 1, x, TailOf(log[c])) \in Nat
  <2>1. Event(created + 1, TailOf(log[c]), x) \in Events
    BY <1>2, <1>3, EventType
  <2>2. x \in 0..2
    OBVIOUS
  <2>3. QED
    BY <1>2, <1>3, <2>1, <2>2, DigestType
<1>5. event' = [event EXCEPT ![w] = Event(created + 1, TailOf(log[c]), x)]
  BY DEF NewEvent
<1>6. event'[w] = Event(created + 1, TailOf(log[c]), x)
  BY <1>5 DEF TypeOK
<1>7. event'[w] = Event(event'[w].id, event'[w].prev, x) /\ event'[w].prev = TailOf(log[c])
  BY <1>6 DEF Event
<1>8. lineage' \in [Ids -> Seq(Nat)] /\ seal' \in [Ids -> Nat]
  <2>1. IdsOf(log[c]) \in Seq(Nat) /\ Unknown \in Seq(Nat)
    BY <1>1, IdsType DEF Unknown
  <2>2. QED
    BY <1>4, <2>1 DEF TypeOK, NewEvent
<1>9. QED
  BY <1>3, <1>4, <1>5, <1>7, <1>8 DEF TypeOK

(* record takes the lock.                                                   *)
LEMMA RecordInv == ASSUME Inv, NEW w \in Writers, NEW c \in Chains, Record(w, c) PROVE Inv'
<1>1. /\ pc'[w] = "recording" /\ chain'[w] = c
      /\ \A v \in Writers \ {w} : pc'[v] = pc[v] /\ chain'[v] = chain[v]
  BY DEF Inv, TypeOK, Record
<1>2. TypeOK'
  <2>1. pc' \in [Writers -> Pcs] /\ chain' \in [Writers -> Chains \cup {NoChain}]
    BY DEF Inv, TypeOK, Record, Pcs
  <2>2. UNCHANGED <<store, log, open, torn, created, event, acked, lineage, seal, harmed, faults>>
    BY DEF Record, storeVars
  <2>3. QED
    BY <2>1, <2>2 DEF Inv, TypeOK
<1>3. JobsBuilt'
  BY <1>1 DEF Inv, JobsBuilt, Record
<1>4. Mutex'
  BY <1>1 DEF Inv, Mutex, InLock, Record, LockFree
<1>5. OnTail' /\ SoundLogs' /\ TornStops'
  BY <1>1 DEF Inv, OnTail, SoundLogs, TornStops, Record, storeVars
<1>6. Kept'
  BY <1>1 DEF Inv, Kept, Holds, Record, storeVars
<1>7. QED
  BY <1>2, <1>3, <1>4, <1>5, <1>6 DEF Inv

(* record builds its event on the tail, under the lock.                     *)
LEMMA SelectTailInv == ASSUME Inv, NEW w \in Writers, SelectTail(w) PROVE Inv'
<1>1. /\ pc[w] = "recording" /\ pc'[w] = "writing" /\ chain' = chain /\ chain[w] \in Chains
      /\ \A v \in Writers \ {w} : pc'[v] = pc[v]
  BY DEF Inv, TypeOK, JobsBuilt, SelectTail
<1>2. NewEvent(w, chain[w], 0)
  BY DEF SelectTail
<1>3. /\ created' \in 0..MaxEvents
      /\ event' \in [Writers -> Events]
      /\ lineage' \in [Ids -> Seq(Nat)] /\ seal' \in [Ids -> Nat]
      /\ event'[w] = Event(event'[w].id, event'[w].prev, 0)
      /\ event'[w].prev = TailOf(log[chain[w]])
      /\ \A v \in Writers \ {w} : event'[v] = event[v]
  BY <1>1, <1>2, NewEventType DEF Inv
<1>4. UNCHANGED <<store, log, open, torn, acked, harmed, faults>>
  BY DEF SelectTail, storeVars
<1>5. TypeOK'
  <2>1. pc' \in [Writers -> Pcs]
    BY DEF Inv, TypeOK, SelectTail, Pcs
  <2>2. QED
    BY <1>1, <1>3, <1>4, <2>1 DEF Inv, TypeOK
<1>6. JobsBuilt'
  BY <1>1, <1>3 DEF Inv, JobsBuilt
<1>7. Mutex'
  BY <1>1, <1>4 DEF Inv, Mutex, InLock
<1>8. OnTail' /\ SoundLogs' /\ TornStops'
  BY <1>1, <1>3, <1>4 DEF Inv, OnTail, SoundLogs, TornStops, SelectTail, Readable
<1>9. Kept'
  <2>1. \A v \in Writers : pc'[v] = "stored" =>
            pc[v] = "stored" /\ chain'[v] = chain[v] /\ event'[v] = event[v]
    BY <1>1, <1>3
  <2>2. \A d \in Chains : \A id : Holds(d, id)' <=> Holds(d, id)
    BY <1>4 DEF Holds
  <2>3. QED
    BY <1>4, <2>1, <2>2 DEF Inv, Kept
<1>10. QED
  BY <1>5, <1>6, <1>7, <1>8, <1>9 DEF Inv

(* An event built for append is built outside the lock.                     *)
LEMMA BuildInv == ASSUME Inv, NEW w \in Writers, NEW c \in Chains, Build(w, c) PROVE Inv'
<1>1. /\ pc[w] = "idle" /\ pc'[w] = "built" /\ chain'[w] = c
      /\ \A v \in Writers \ {w} : pc'[v] = pc[v] /\ chain'[v] = chain[v]
  BY DEF Inv, TypeOK, Build
<1>2. PICK x \in {0, 2} : NewEvent(w, c, x)
  BY DEF Build
<1>3. /\ created' \in 0..MaxEvents
      /\ event' \in [Writers -> Events]
      /\ lineage' \in [Ids -> Seq(Nat)] /\ seal' \in [Ids -> Nat]
      /\ event'[w] = Event(event'[w].id, event'[w].prev, x)
      /\ \A v \in Writers \ {w} : event'[v] = event[v]
  BY <1>2, NewEventType DEF Inv
<1>4. UNCHANGED <<store, log, open, torn, acked, harmed, faults>>
  BY DEF Build, storeVars
<1>5. TypeOK'
  <2>1. pc' \in [Writers -> Pcs] /\ chain' \in [Writers -> Chains \cup {NoChain}]
    BY DEF Inv, TypeOK, Build, Pcs
  <2>2. QED
    BY <1>3, <1>4, <2>1 DEF Inv, TypeOK
<1>6. JobsBuilt'
  BY <1>1, <1>3 DEF Inv, JobsBuilt
<1>7. Mutex'
  BY <1>1, <1>4 DEF Inv, Mutex, InLock
<1>8. OnTail' /\ SoundLogs' /\ TornStops'
  BY <1>1, <1>3, <1>4 DEF Inv, OnTail, SoundLogs, TornStops
<1>9. Kept'
  <2>1. \A v \in Writers : pc'[v] = "stored" =>
            pc[v] = "stored" /\ chain'[v] = chain[v] /\ event'[v] = event[v]
    BY <1>1, <1>3
  <2>2. \A d \in Chains : \A id : Holds(d, id)' <=> Holds(d, id)
    BY <1>4 DEF Holds
  <2>3. QED
    BY <1>4, <2>1, <2>2 DEF Inv, Kept
<1>10. QED
  BY <1>5, <1>6, <1>7, <1>8, <1>9 DEF Inv

(* Steps of a writer that only move its program counter and end no lock in  *)
(* the middle of a write: append takes the lock, checks the tail, or the    *)
(* writer gives up.                                                         *)
LEMMA MoveInv ==
  ASSUME Inv, NEW w \in Writers,
         AppendEvent(w) \/ CheckTail(w) \/ Rejected(w) \/ Crash(w)
  PROVE  Inv'
<1>1. /\ UNCHANGED <<store, log, open, torn, created, chain, event, acked, lineage, seal, harmed>>
      /\ faults' \in 0..MaxFaults
  BY AuditAssumption DEF Inv, TypeOK, AppendEvent, CheckTail, Rejected, Crash, Fault, storeVars
<1>2. \A v \in Writers \ {w} : pc'[v] = pc[v]
  BY DEF Inv, TypeOK, AppendEvent, CheckTail, Rejected, Crash
<1>3. \/ pc[w] = "built" /\ pc'[w] = "checking" /\ LockFree(w, chain[w])
      \/ pc[w] = "checking" /\ pc'[w] = "writing" /\ ~Stale(w) /\ ~torn
      \/ pc'[w] = "idle"
  BY DEF Inv, TypeOK, AppendEvent, CheckTail, Rejected, Crash, Readable
<1>4. TypeOK'
  <2>1. pc' \in [Writers -> Pcs]
    BY DEF Inv, TypeOK, AppendEvent, CheckTail, Rejected, Crash, Pcs
  <2>2. QED
    BY <1>1, <2>1 DEF Inv, TypeOK
<1>5. JobsBuilt'
  BY <1>1, <1>2, <1>3 DEF Inv, JobsBuilt
<1>6. Mutex'
  BY <1>1, <1>2, <1>3 DEF Inv, Mutex, InLock, LockFree
<1>7. OnTail' /\ SoundLogs' /\ TornStops'
  BY <1>1, <1>2, <1>3 DEF Inv, OnTail, SoundLogs, TornStops, Stale
<1>8. Kept'
  BY <1>1, <1>2, <1>3 DEF Inv, Kept, Holds
<1>9. QED
  BY <1>4, <1>5, <1>6, <1>7, <1>8 DEF Inv

(* A writer is acknowledged what it has stored.                             *)
LEMMA AnswerInv == ASSUME Inv, NEW w \in Writers, Answer(w) PROVE Inv'
<1>1. /\ UNCHANGED <<store, log, open, torn, created, chain, event, lineage, seal, harmed, faults>>
      /\ pc[w] = "stored" /\ pc'[w] = "idle" /\ chain[w] \in Chains
      /\ \A v \in Writers \ {w} : pc'[v] = pc[v]
  BY DEF Inv, TypeOK, Answer, JobsBuilt, storeVars
<1>2. \A c \in Chains : acked'[c] = IF c = chain[w] THEN acked[c] \cup {event[w].id} ELSE acked[c]
  BY <1>1 DEF Inv, TypeOK, Answer
<1>3. TypeOK'
  <2>1. pc' \in [Writers -> Pcs]
    BY DEF Inv, TypeOK, Answer, Pcs
  <2>2. event[w].id \in Nat
    BY DEF Inv, TypeOK, Events
  <2>3. acked' \in [Chains -> SUBSET Nat]
    BY <2>2 DEF Inv, TypeOK, Answer
  <2>4. QED
    BY <1>1, <2>1, <2>3 DEF Inv, TypeOK
<1>4. JobsBuilt' /\ Mutex'
  BY <1>1 DEF Inv, JobsBuilt, Mutex, InLock
<1>5. OnTail' /\ SoundLogs' /\ TornStops'
  BY <1>1 DEF Inv, OnTail, SoundLogs, TornStops
<1>6. Kept'
  <2>1. \A c \in Chains : \A id : Holds(c, id)' <=> Holds(c, id)
    BY <1>1 DEF Holds
  <2>2. SUFFICES ASSUME ~torn, NEW c \in Chains \ harmed
        PROVE  /\ \A id \in acked'[c] : Holds(c, id)
               /\ \A v \in Writers : pc'[v] = "stored" /\ chain[v] = c => Holds(c, event[v].id)
    BY <1>1, <2>1 DEF Kept
  <2>3. /\ \A id \in acked[c] : Holds(c, id)
        /\ \A v \in Writers : pc[v] = "stored" /\ chain[v] = c => Holds(c, event[v].id)
    BY <2>2 DEF Inv, Kept
  <2>4. QED
    BY <1>1, <1>2, <2>3
<1>7. QED
  BY <1>3, <1>4, <1>5, <1>6 DEF Inv

-----------------------------------------------------------------------------
(* Steps that change the stored events. *)

(* What storing the event of a writer that is about to write does to the    *)
(* log of its chain.                                                        *)
LEMMA StoreFacts ==
  ASSUME Inv, NEW w \in Writers, pc[w] = "writing", Store(w)
  PROVE  /\ chain[w] \in Chains
         /\ log' \in [Chains -> Seq(Events)]
         /\ \A c \in Chains : log'[c] = IF c = chain[w] THEN Append(log[c], Stored(event[w])) ELSE log[c]
         /\ \A c \in Chains \ harmed : Sound(store, log'[c])
         /\ \A c \in Chains, id \in Nat :
                Holds(c, id) => \E i \in 1..Len(log'[c]) : log'[c][i].id = id
         /\ \E i \in 1..Len(log'[chain[w]]) : log'[chain[w]][i].id = event[w].id
         /\ log'[chain[w]] # <<>>
<1>1. /\ chain[w] \in Chains /\ event[w] \in Events
      /\ Stored(event[w]) \in Events /\ Stored(event[w]).id = event[w].id
  BY StoredType DEF Inv, TypeOK, JobsBuilt
<1>x. PICK x \in {0, 2} : event[w] = Event(event[w].id, event[w].prev, x)
  BY DEF Inv, JobsBuilt
<1> DEFINE s == log[chain[w]]  t == Append(s, Stored(event[w]))
<1>2. s \in Seq(Events)
  BY <1>1 DEF Inv, TypeOK
<1>3. /\ t \in Seq(Events)
      /\ Len(t) = Len(s) + 1 /\ Len(s) \in Nat
      /\ \A i \in 1..Len(s) : t[i] = s[i]
      /\ t[Len(s) + 1] = Stored(event[w])
  BY <1>1, <1>2, AppendProperties, LenProperties
<1>4. /\ \A c \in Chains : log'[c] = IF c = chain[w] THEN Append(log[c], Stored(event[w])) ELSE log[c]
      /\ log'[chain[w]] = t
      /\ \A c \in Chains : c # chain[w] => log'[c] = log[c]
  BY <1>1 DEF Inv, TypeOK, Store
<1>5. log' \in [Chains -> Seq(Events)]
  BY <1>1, <1>3 DEF Inv, TypeOK, Store
<1>6. ASSUME NEW c \in Chains \ harmed PROVE Sound(store, log'[c])
  <2>1. CASE c = chain[w]
    <3>1. Sound(store, s) /\ event[w].prev = TailOf(s)
      BY <1>6, <2>1 DEF Inv, SoundLogs, OnTail
    <3>2. Sound(store, t)
      BY <1>1, <1>x, <1>2, <3>1, AppendSound
    <3>3. QED
      BY <1>4, <2>1, <3>2
  <2>2. CASE c # chain[w]
    BY <1>4, <1>6, <2>2 DEF Inv, SoundLogs
  <2>3. QED
    BY <2>1, <2>2
<1> HIDE DEF t
<1>7. ASSUME NEW c \in Chains, NEW id \in Nat, Holds(c, id)
      PROVE  \E i \in 1..Len(log'[c]) : log'[c][i].id = id
  <2>1. CASE c = chain[w]
    <3>1. PICK i \in 1..Len(s) : s[i].id = id
      BY <1>7, <2>1 DEF Holds
    <3>2. i \in 1..Len(t) /\ t[i].id = id
      BY <1>3, <3>1
    <3>3. QED
      BY <1>4, <2>1, <3>2
  <2>2. CASE c # chain[w]
    BY <1>4, <1>7, <2>2 DEF Holds
  <2>3. QED
    BY <2>1, <2>2
<1>8. Len(s) + 1 \in 1..Len(t) /\ t[Len(s) + 1].id = event[w].id /\ Len(t) # 0
  BY <1>1, <1>3
<1>9. \E i \in 1..Len(log'[chain[w]]) : log'[chain[w]][i].id = event[w].id
  BY <1>4, <1>8
<1>10. log'[chain[w]] # <<>>
  BY <1>4, <1>8
<1>11. QED
  BY <1>1, <1>4, <1>5, <1>6, <1>7, <1>9, <1>10

(* Writing the line or committing the transaction.                          *)
LEMMA WriteInv == ASSUME Inv, NEW w \in Writers, Write(w) PROVE Inv'
<1>1. /\ UNCHANGED <<store, open, torn, created, chain, event, acked, lineage, seal, harmed, faults>>
      /\ pc[w] = "writing" /\ pc'[w] = "stored" /\ open = NoChain
      /\ \A v \in Writers \ {w} : pc'[v] = pc[v]
  BY DEF Inv, TypeOK, Write
<1>2. /\ chain[w] \in Chains
      /\ log' \in [Chains -> Seq(Events)]
      /\ \A c \in Chains : log'[c] = IF c = chain[w] THEN Append(log[c], Stored(event[w])) ELSE log[c]
      /\ \A c \in Chains \ harmed : Sound(store, log'[c])
      /\ \A c \in Chains, id \in Nat :
             Holds(c, id) => \E i \in 1..Len(log'[c]) : log'[c][i].id = id
      /\ \E i \in 1..Len(log'[chain[w]]) : log'[chain[w]][i].id = event[w].id
  BY <1>1, StoreFacts DEF Write
<1>3. TypeOK'
  <2>1. pc' \in [Writers -> Pcs]
    BY DEF Inv, TypeOK, Write, Pcs
  <2>2. QED
    BY <1>1, <1>2, <2>1 DEF Inv, TypeOK
<1>4. JobsBuilt' /\ Mutex'
  BY <1>1 DEF Inv, JobsBuilt, Mutex, InLock
<1>5. OnTail'
  <2>1. ASSUME NEW v \in Writers, pc'[v] = "writing" PROVE chain[v] # chain[w]
    BY <1>1, <2>1 DEF Inv, Mutex, InLock
  <2>2. \A v \in Writers : pc'[v] = "writing" => pc[v] = "writing" /\ chain[v] \in Chains
    BY <1>1 DEF Inv, JobsBuilt
  <2>3. QED
    BY <1>1, <1>2, <2>1, <2>2 DEF Inv, OnTail
<1>6. SoundLogs' /\ TornStops'
  BY <1>1, <1>2 DEF Inv, SoundLogs, TornStops
<1>7. Kept'
  <2>1. SUFFICES ASSUME ~torn, NEW c \in Chains \ harmed
        PROVE  /\ \A id \in acked[c] : Holds(c, id)'
               /\ \A v \in Writers : pc'[v] = "stored" /\ chain[v] = c => Holds(c, event[v].id)'
    BY <1>1 DEF Kept, Holds
  <2>2. \A id \in Nat : Holds(c, id) => Holds(c, id)'
    BY <1>2 DEF Holds
  <2>3. acked[c] \subseteq Nat /\ \A v \in Writers : event[v].id \in Nat
    BY DEF Inv, TypeOK, Events
  <2>4. \A id \in acked[c] : Holds(c, id)'
    BY <2>1, <2>2, <2>3 DEF Inv, Kept
  <2>5. ASSUME NEW v \in Writers, pc'[v] = "stored", chain[v] = c PROVE Holds(c, event[v].id)'
    <3>1. CASE v = w
      BY <1>1, <1>2, <2>5, <3>1 DEF Holds
    <3>2. CASE v # w
      BY <1>1, <2>1, <2>2, <2>3, <2>5, <3>2 DEF Inv, Kept
    <3>3. QED
      BY <3>1, <3>2
  <2>6. QED
    BY <2>4, <2>5
<1>8. QED
  BY <1>3, <1>4, <1>5, <1>6, <1>7 DEF Inv

(* A line written on an unterminated one makes the file unreadable; what is *)
(* left of the log is still a sound beginning.                              *)
LEMMA GlueFacts ==
  ASSUME Inv, open # NoChain, Glue(open)
  PROVE  /\ log' \in [Chains -> Seq(Events)]
         /\ \A c \in Chains \ harmed : Sound(store, log'[c])
         /\ open' = NoChain /\ torn' = TRUE /\ store = "jsonl"
<1>1. open \in Chains /\ log[open] \in Seq(Events) /\ log[open] # <<>> /\ store = "jsonl"
  BY DEF Inv, TypeOK
<1>2. /\ SubSeq(log[open], 1, Len(log[open]) - 1) \in Seq(Events)
      /\ Sound(store, log[open]) => Sound(store, SubSeq(log[open], 1, Len(log[open]) - 1))
  BY <1>1, FrontSound
<1>3. log' = [log EXCEPT ![open] = SubSeq(log[open], 1, Len(log[open]) - 1)]
  BY DEF Glue
<1>4. log' \in [Chains -> Seq(Events)]
  BY <1>2, <1>3 DEF Inv, TypeOK
<1>5. ASSUME NEW c \in Chains \ harmed PROVE Sound(store, log'[c])
  <2>1. CASE c = open
    BY <1>1, <1>2, <1>3, <1>5, <2>1 DEF Inv, TypeOK, SoundLogs
  <2>2. CASE c # open
    BY <1>3, <1>5, <2>2 DEF Inv, TypeOK, SoundLogs
  <2>3. QED
    BY <2>1, <2>2
<1>6. open' = NoChain /\ torn' = TRUE
  BY DEF Glue
<1>7. QED
  BY <1>1, <1>4, <1>5, <1>6

(* In the JSONL store a writer in the lock is the only one.                 *)
LEMMA OnlyWriter ==
  ASSUME Inv, store = "jsonl", NEW w \in Writers, pc[w] = "writing"
  PROVE  \A v \in Writers \ {w} : pc[v] # "writing"
<1>1. SUFFICES ASSUME NEW v \in Writers \ {w}, pc[v] = "writing" PROVE FALSE
  OBVIOUS
<1>2. InLock(v) /\ InLock(w) /\ v # w
  BY <1>1 DEF InLock
<1>3. store = "postgres"
  BY <1>2 DEF Inv, Mutex
<1>4. QED
  BY <1>3

(* A line written on an unterminated one.                                   *)
LEMMA WriteGluedInv == ASSUME Inv, NEW w \in Writers, WriteGlued(w) PROVE Inv'
<1>1. /\ UNCHANGED <<store, created, chain, event, acked, lineage, seal, harmed, faults>>
      /\ pc[w] = "writing" /\ pc'[w] = "stored" /\ open # NoChain
      /\ \A v \in Writers \ {w} : pc'[v] = pc[v]
  BY DEF Inv, TypeOK, WriteGlued
<1>2. /\ log' \in [Chains -> Seq(Events)]
      /\ \A c \in Chains \ harmed : Sound(store, log'[c])
      /\ open' = NoChain /\ torn' = TRUE /\ store = "jsonl"
  BY <1>1, GlueFacts DEF WriteGlued
<1>3. TypeOK'
  <2>1. pc' \in [Writers -> Pcs]
    BY DEF Inv, TypeOK, WriteGlued, Pcs
  <2>2. torn' \in BOOLEAN
    BY <1>2, Zenon
  <2>3. QED
    BY <1>1, <1>2, <2>1, <2>2 DEF Inv, TypeOK
<1>4. JobsBuilt' /\ Mutex'
  BY <1>1 DEF Inv, JobsBuilt, Mutex, InLock
<1>5. OnTail' /\ TornStops'
  <2>1. \A v \in Writers : pc'[v] # "writing"
    BY <1>1, <1>2, OnlyWriter
  <2>2. QED
    BY <2>1 DEF OnTail, TornStops
<1>6. SoundLogs' /\ Kept'
  BY <1>1, <1>2 DEF SoundLogs, Kept
<1>7. QED
  BY <1>3, <1>4, <1>5, <1>6 DEF Inv

(* A crash in the middle of a line.                                         *)
LEMMA CrashInLineInv == ASSUME Inv, NEW w \in Writers, CrashInLine(w) PROVE Inv'
<1>1. /\ UNCHANGED <<store, created, chain, event, acked, lineage, seal, harmed>>
      /\ pc[w] = "writing" /\ pc'[w] = "idle" /\ store = "jsonl"
      /\ \A v \in Writers \ {w} : pc'[v] = pc[v]
  BY DEF Inv, TypeOK, CrashInLine
<1>2. faults' \in 0..MaxFaults
  BY AuditAssumption DEF Inv, TypeOK, CrashInLine, Fault
<1>3. chain[w] \in Chains /\ chain[w] # NoChain
  BY <1>1, AuditAssumption DEF Inv, JobsBuilt
<1>4. \A v \in Writers : pc'[v] # "writing"
  BY <1>1, OnlyWriter
<1>5. ~torn
  BY <1>1 DEF Inv, TornStops
<1>6. /\ log' \in [Chains -> Seq(Events)] /\ torn' \in BOOLEAN
      /\ \A c \in Chains \ harmed : Sound(store, log'[c])
      /\ \/ open' = NoChain /\ torn'
         \/ /\ open' = chain[w] /\ ~torn' /\ log'[chain[w]] # <<>>
            /\ \A c \in Chains, id \in Nat :
                   Holds(c, id) => \E i \in 1..Len(log'[c]) : log'[c][i].id = id
  <2>1. CASE open # NoChain /\ Glue(open)
    <3>1. log' \in [Chains -> Seq(Events)] /\ open' = NoChain /\ torn' = TRUE
          /\ \A c \in Chains \ harmed : Sound(store, log'[c])
      BY <2>1, GlueFacts
    <3>2. QED
      BY <3>1
  <2>2. CASE open = NoChain /\ torn' = TRUE /\ UNCHANGED <<log, open>>
    BY <2>2 DEF Inv, TypeOK, SoundLogs
  <2>3. CASE open = NoChain /\ open' = chain[w] /\ Store(w) /\ UNCHANGED torn
    <3>1. torn' \in BOOLEAN /\ ~torn'
      BY <1>5, <2>3 DEF Inv, TypeOK
    <3>2. QED
      BY <1>1, <2>3, <3>1, StoreFacts
  <2>4. QED
    BY <2>1, <2>2, <2>3 DEF CrashInLine
<1>7. TypeOK'
  <2>1. pc' \in [Writers -> Pcs]
    BY DEF Inv, TypeOK, CrashInLine, Pcs
  <2>2. QED
    BY <1>1, <1>2, <1>3, <1>6, <2>1 DEF Inv, TypeOK
<1>8. JobsBuilt' /\ Mutex'
  BY <1>1 DEF Inv, JobsBuilt, Mutex, InLock
<1>9. OnTail' /\ TornStops'
  BY <1>4 DEF OnTail, TornStops
<1>10. SoundLogs'
  BY <1>1, <1>6 DEF SoundLogs
<1>11. Kept'
  <2>1. SUFFICES ASSUME ~torn', NEW c \in Chains \ harmed
        PROVE  /\ \A id \in acked[c] : Holds(c, id)'
               /\ \A v \in Writers : pc'[v] = "stored" /\ chain[v] = c => Holds(c, event[v].id)'
    BY <1>1 DEF Kept, Holds
  <2>2. \A id \in Nat : Holds(c, id) => Holds(c, id)'
    BY <1>6, <2>1 DEF Holds
  <2>3. acked[c] \subseteq Nat /\ \A v \in Writers : event[v].id \in Nat
    BY DEF Inv, TypeOK, Events
  <2>4. QED
    BY <1>1, <1>5, <2>1, <2>2, <2>3 DEF Inv, Kept
<1>12. QED
  BY <1>7, <1>8, <1>9, <1>10, <1>11 DEF Inv

(* A change from outside concerns only the chain that is changed.           *)
LEMMA HarmInv == ASSUME Inv, NEW c \in Chains, Harm(c) PROVE Inv'
<1>1. UNCHANGED <<store, open, torn, created, pc, chain, event, acked, lineage, seal>>
      /\ harmed' = harmed \cup {c} /\ open = NoChain
  BY DEF Harm
<1>2. faults' \in 0..MaxFaults
  BY AuditAssumption DEF Inv, TypeOK, Harm, Fault
<1>3. log' \in [Chains -> Seq(Events)] /\ \A d \in Chains \ {c} : log'[d] = log[d]
  <2>1. PICK i \in 1..Len(log[c]) :
            \/ \E e \in Altered(log[c], i) : log' = [log EXCEPT ![c][i] = e]
            \/ log' = [log EXCEPT ![c] = Without(@, i)]
            \/ i < Len(log[c]) /\ log' = [log EXCEPT ![c][i] = log[c][i + 1], ![c][i + 1] = log[c][i]]
    BY DEF Harm
  <2> DEFINE s == log[c]
  <2>2. s \in Seq(Events)
    BY DEF Inv, TypeOK
  <2>3. /\ Without(s, i) \in Seq(Events)
        /\ \A e \in Altered(s, i) : [s EXCEPT ![i] = e] \in Seq(Events)
        /\ i < Len(s) => [s EXCEPT ![i] = s[i + 1], ![i + 1] = s[i]] \in Seq(Events)
    BY <2>1, <2>2, HarmType
  <2>4. \E t \in Seq(Events) : log' = [log EXCEPT ![c] = t]
    <3>1. CASE \E e \in Altered(log[c], i) : log' = [log EXCEPT ![c][i] = e]
      BY <2>3, <3>1
    <3>2. CASE log' = [log EXCEPT ![c] = Without(@, i)]
      BY <2>3, <3>2
    <3>3. CASE i < Len(log[c]) /\ log' = [log EXCEPT ![c][i] = log[c][i + 1], ![c][i + 1] = log[c][i]]
      <4>1. log' = [log EXCEPT ![c] = [s EXCEPT ![i] = s[i + 1], ![i + 1] = s[i]]]
        BY <3>3 DEF Inv, TypeOK
      <4>2. QED
        BY <2>3, <3>3, <4>1
    <3>4. QED
      BY <2>1, <3>1, <3>2, <3>3
  <2>5. QED
    BY <2>4 DEF Inv, TypeOK
<1>4. TypeOK'
  BY <1>1, <1>2, <1>3 DEF Inv, TypeOK
<1>5. JobsBuilt' /\ Mutex' /\ TornStops'
  BY <1>1 DEF Inv, JobsBuilt, Mutex, InLock, TornStops
<1>6. OnTail'
  <2>1. \A w \in Writers : pc[w] = "writing" => chain[w] \in Chains
    BY DEF Inv, JobsBuilt
  <2>2. QED
    BY <1>1, <1>3, <2>1 DEF Inv, OnTail
<1>7. SoundLogs'
  BY <1>1, <1>3 DEF Inv, SoundLogs
<1>8. Kept'
  BY <1>1, <1>3 DEF Inv, Kept, Holds
<1>9. QED
  BY <1>4, <1>5, <1>6, <1>7, <1>8 DEF Inv

-----------------------------------------------------------------------------
(* Every step keeps the invariant.                                          *)
LEMMA NextInv == Inv /\ [Next]_vars => Inv'
<1>1. SUFFICES ASSUME Inv, [Next]_vars PROVE Inv'
  OBVIOUS
<1>2. CASE \E w \in Writers, c \in Chains : Record(w, c) \/ Build(w, c)
  BY <1>1, <1>2, RecordInv, BuildInv
<1>3. CASE \E w \in Writers : SelectTail(w) \/ Write(w) \/ WriteGlued(w) \/ Answer(w) \/ CrashInLine(w)
  BY <1>1, <1>3, SelectTailInv, WriteInv, WriteGluedInv, AnswerInv, CrashInLineInv
<1>4. CASE \E w \in Writers : AppendEvent(w) \/ CheckTail(w) \/ Rejected(w) \/ Crash(w)
  BY <1>1, <1>4, MoveInv
<1>5. CASE \E c \in Chains : Harm(c)
  BY <1>1, <1>5, HarmInv
<1>6. CASE UNCHANGED vars
  <2>1. UNCHANGED <<store, log, open, torn, created, pc, chain, event, acked, lineage, seal, harmed, faults>>
    BY <1>6 DEF vars, storeVars
  <2>2. TypeOK' /\ JobsBuilt' /\ Mutex'
    BY <1>1, <2>1 DEF Inv, TypeOK, JobsBuilt, Mutex, InLock
  <2>3. OnTail' /\ TornStops' /\ SoundLogs' /\ Kept'
    BY <1>1, <2>1 DEF Inv, OnTail, TornStops, SoundLogs, Kept, Holds
  <2>4. QED
    BY <2>2, <2>3 DEF Inv
<1>7. QED
  BY <1>1, <1>2, <1>3, <1>4, <1>5, <1>6 DEF Next

(* The invariant holds in every reachable state.                            *)
THEOREM Invariance == Spec => []Inv
<1>1. QED
  BY InitInv, NextInv, PTL DEF Spec

(* The types of the audit trail: malformed and unterminated lines exist in  *)
(* the JSONL store only, never both.                                        *)
THEOREM TypeCorrect == Spec => []TypeOK
<1>1. Inv => TypeOK
  BY DEF Inv
<1>2. QED
  BY <1>1, Invariance, PTL

(* A chain verify accepts holds every acknowledged event.                   *)
THEOREM AuditComplete == Spec => []AcknowledgedVerified
<1>1. QED
  BY InvSuffices, Invariance, PTL

-----------------------------------------------------------------------------
(* Tampering is evident.  The hash of an event covers the hash before it,   *)
(* so the invariant follows every event, stored or still with its writer,   *)
(* back through the events it was built on.                                 *)

Before(s, i) == SubSeq(s, 1, i - 1)
LastOf(s) == s[Len(s)]

\* Of n events created with histories h and hashes z: the hash of event id
\* covers the hash of the last event of its history, and its history is that
\* of this event, and this event.
HasAncestors(id, n, h, z) ==
    /\ \E x \in {0, 2}, p \in Nat : z[id] = Digest(id, x, p)
    /\ h[id] # Unknown =>
        /\ \A k \in 1..Len(h[id]) : h[id][k] \in 1..n
        /\ h[id] # <<>> => h[LastOf(h[id])] = Before(h[id], Len(h[id]))
        /\ \E x \in {0, 2} :
               z[id] = Digest(id, x, IF h[id] = <<>> THEN NoHash ELSE z[LastOf(h[id])])

Ancestral == \A id \in 1..created : HasAncestors(id, created, lineage, seal)

KnownLogs == \A c \in Chains : \A i \in 1..Len(log[c]) : log[c][i].id \in 1..created

KnownJobs ==
    \A w \in Writers :
        pc[w] \in {"built", "checking", "writing"} =>
            event[w].id \in 1..created /\ event[w].hash = seal[event[w].id]

\* The events of an unchanged chain have the hash they were created with and
\* the history the chain shows.
Recorded(s, h, z) ==
    \A i \in 1..Len(s) : s[i].hash = z[s[i].id] /\ h[s[i].id] = IdsOf(Before(s, i))
RecordedLogs == \A c \in Chains \ harmed : Recorded(log[c], lineage, seal)

\* An event for an unchanged chain has a history, and is written on it.
RecordedJobs ==
    \A w \in Writers : chain[w] \notin harmed =>
        /\ pc[w] \in {"built", "checking", "writing"} => lineage[event[w].id] # Unknown
        /\ pc[w] = "writing" => lineage[event[w].id] = IdsOf(log[chain[w]])

Traced == KnownLogs /\ KnownJobs /\ Ancestral /\ RecordedLogs /\ RecordedJobs

(* The beginning of a sequence.                                             *)
LEMMA BeforeFacts ==
  ASSUME NEW S, NEW s \in Seq(S), NEW i \in 1..(Len(s) + 1)
  PROVE  /\ Len(s) \in Nat
         /\ Before(s, i) \in Seq(S)
         /\ Len(Before(s, i)) = i - 1
         /\ \A j \in 1..(i - 1) : Before(s, i)[j] = s[j]
<1>1. Len(s) \in Nat
  BY LenProperties
<1> DEFINE n == i - 1
<1>2. n \in Int /\ 0 <= n
  BY <1>1
<1>3. \A j \in 1..n : s[j] \in S
  BY <1>1, ElementOfSeq
<1> HIDE DEF n
<1>4. /\ SubSeq(s, 1, n) \in Seq(S)
      /\ Len(SubSeq(s, 1, n)) = IF 1 <= n THEN n - 1 + 1 ELSE 0
      /\ \A j \in 1..(n - 1 + 1) : SubSeq(s, 1, n)[j] = s[1 + j - 1]
  BY <1>2, <1>3, SubSeqProperties
<1>5. Len(SubSeq(s, 1, n)) = n /\ \A j \in 1..n : SubSeq(s, 1, n)[j] = s[j]
  BY <1>2, <1>4
<1>6. QED
  BY <1>1, <1>4, <1>5 DEF n, Before

(* The ids of a log, position by position.                                  *)
LEMMA IdsFacts ==
  ASSUME NEW s \in Seq(Events)
  PROVE  /\ IdsOf(s) \in Seq(Nat)
         /\ Len(IdsOf(s)) = Len(s) /\ Len(s) \in Nat
         /\ \A i \in 1..Len(s) : IdsOf(s)[i] = s[i].id
<1>1. Len(s) \in Nat
  BY LenProperties
<1>2. IdsOf(s) \in Seq(Nat) /\ \A i \in 1..Len(s) : IdsOf(s)[i] = s[i].id
  BY IdsType DEF IdsOf
<1>3. DOMAIN IdsOf(s) = 1..Len(s)
  BY DEF IdsOf
<1>4. DOMAIN IdsOf(s) = 1..Len(IdsOf(s)) /\ Len(IdsOf(s)) \in Nat
  BY <1>2, LenProperties
<1>5. Len(IdsOf(s)) = Len(s)
  BY <1>1, <1>3, <1>4
<1>6. QED
  BY <1>1, <1>2, <1>5

(* A history and the history of its last event: for the ids of a log, the   *)
(* ids before its last event.                                               *)
LEMMA IdsBefore ==
  ASSUME NEW s \in Seq(Events), NEW i \in 1..(Len(s) + 1)
  PROVE  Before(IdsOf(s), i) = IdsOf(Before(s, i))
<1>1. /\ Len(s) \in Nat /\ Before(s, i) \in Seq(Events) /\ Len(Before(s, i)) = i - 1
      /\ \A j \in 1..(i - 1) : Before(s, i)[j] = s[j]
  BY BeforeFacts
<1>2. IdsOf(s) \in Seq(Nat) /\ Len(IdsOf(s)) = Len(s) /\ \A j \in 1..Len(s) : IdsOf(s)[j] = s[j].id
  BY IdsFacts
<1>3. /\ Before(IdsOf(s), i) \in Seq(Nat) /\ Len(Before(IdsOf(s), i)) = i - 1
      /\ \A j \in 1..(i - 1) : Before(IdsOf(s), i)[j] = IdsOf(s)[j]
  <2> DEFINE h == IdsOf(s)
  <2>1. h \in Seq(Nat) /\ i \in 1..(Len(h) + 1)
    BY <1>2
  <2> HIDE DEF h
  <2>2. /\ Before(h, i) \in Seq(Nat) /\ Len(Before(h, i)) = i - 1
        /\ \A j \in 1..(i - 1) : Before(h, i)[j] = h[j]
    BY <2>1, BeforeFacts
  <2>3. QED
    BY <2>2 DEF h
<1>4. /\ IdsOf(Before(s, i)) \in Seq(Nat) /\ Len(IdsOf(Before(s, i))) = i - 1
      /\ \A j \in 1..(i - 1) : IdsOf(Before(s, i))[j] = Before(s, i)[j].id
  BY <1>1, IdsFacts
<1>5. \A j \in 1..(i - 1) : Before(IdsOf(s), i)[j] = IdsOf(Before(s, i))[j]
  BY <1>1, <1>2, <1>3, <1>4
<1>6. QED
  BY <1>3, <1>4, <1>5, SeqEqual

(* Two sequences that agree in their last elements and before them.         *)
LEMMA SameSeq ==
  ASSUME NEW S, NEW s \in Seq(S), NEW t \in Seq(S), s # <<>>, t # <<>>,
         LastOf(s) = LastOf(t), Before(s, Len(s)) = Before(t, Len(t))
  PROVE  s = t
<1>1. Len(s) \in Nat \ {0} /\ Len(t) \in Nat \ {0}
  BY EmptySeq
<1>2. Len(s) \in 1..(Len(s) + 1) /\ Len(t) \in 1..(Len(t) + 1)
  BY <1>1
<1>3. Len(Before(s, Len(s))) = Len(s) - 1 /\ \A j \in 1..(Len(s) - 1) : Before(s, Len(s))[j] = s[j]
  BY <1>2, BeforeFacts
<1>4. Len(Before(t, Len(t))) = Len(t) - 1 /\ \A j \in 1..(Len(t) - 1) : Before(t, Len(t))[j] = t[j]
  BY <1>2, BeforeFacts
<1>5. Len(s) = Len(t)
  BY <1>1, <1>3, <1>4
<1>6. \A j \in 1..(Len(s) - 1) : s[j] = t[j]
  BY <1>3, <1>4, <1>5
<1>7. \A j \in 1..Len(s) : s[j] = t[j]
  BY <1>1, <1>5, <1>6 DEF LastOf
<1>8. QED
  BY <1>5, <1>7, SeqEqual

(* The digest of an event is not None, and tells all it was computed from.  *)
LEMMA DigestTells ==
  ASSUME NEW i \in Ids, NEW j \in Ids, NEW x \in 0..2, NEW y \in 0..2,
         NEW p \in Nat, NEW q \in Nat
  PROVE  /\ Digest(i, x, p) # NoHash
         /\ Digest(i, x, p) = Digest(j, y, q) => i = j /\ x = y /\ p = q
<1> DEFINE K == 3 * MaxEvents + 3  a == 3 * i + x  b == 3 * j + y
<1>1. MaxEvents \in Nat
  BY AuditAssumption
<1>2. i \in Int /\ 1 <= i /\ i <= MaxEvents /\ j \in Int /\ 1 <= j /\ j <= MaxEvents
  BY <1>1 DEF Ids
<1>3. K \in Nat /\ a \in Nat /\ b \in Nat /\ 2 <= a /\ a < K /\ 2 <= b /\ b < K
  BY <1>1, <1>2
<1>4. a = b => i = j /\ x = y
  BY <1>2
<1> HIDE DEF K, a, b
<1>5. p * K \in Nat /\ q * K \in Nat
  BY <1>3
<1>6. ASSUME NEW m \in Nat, NEW n \in Nat, m < n PROVE m * K + K <= n * K
  <2>1. n - m - 1 \in Nat
    BY <1>6
  <2>2. (n - m - 1) * K \in Nat
    BY <1>3, <2>1
  <2>3. (n - m - 1) * K = n * K - m * K - K
    BY <1>3
  <2>4. m * K \in Nat /\ n * K \in Nat
    BY <1>3
  <2>5. QED
    BY <1>3, <2>2, <2>3, <2>4
<1>7. p * K + a = q * K + b => a = b /\ p = q
  <2>1. CASE p < q
    BY <1>3, <1>5, <1>6, <2>1
  <2>2. CASE q < p
    BY <1>3, <1>5, <1>6, <2>2
  <2>3. CASE p = q
    BY <1>3, <1>5, <2>3
  <2>4. QED
    BY <2>1, <2>2, <2>3
<1>8. Digest(i, x, p) = p * K + a /\ Digest(j, y, q) = q * K + b
  <2>1. \A m, k, h \in Int : m + 3 * k + h = m + (3 * k + h)
    OBVIOUS
  <2>2. Digest(i, x, p) = p * K + 3 * i + x /\ Digest(j, y, q) = q * K + 3 * j + y
    BY DEF Digest, K
  <2>3. QED
    BY <1>2, <1>5, <2>1, <2>2 DEF a, b
<1>9. QED
  BY <1>3, <1>4, <1>5, <1>7, <1>8 DEF NoHash

(* A history of ids of created events is not the unknown one.               *)
LEMMA KnownHistory ==
  ASSUME NEW h \in Seq(Nat), \A k \in 1..Len(h) : h[k] # 0
  PROVE  h # Unknown
<1>1. SUFFICES ASSUME h = Unknown PROVE FALSE
  OBVIOUS
<1>2. Len(h) = 1 /\ h[1] = 0
  BY <1>1 DEF Unknown
<1>3. QED
  BY <1>2

(* An event that still has its hash, on the tail of a log whose last event  *)
(* has a hash that fits it: the hash tells the last event of its history,   *)
(* so that one is the last of the log, and has its hash as well.            *)
LEMMA OneBack ==
  ASSUME TypeOK, Ancestral, NEW e \in Events, e.id \in 1..created, Sealed(e),
         lineage[e.id] # Unknown, NEW y \in 0..2, e.hash = Digest(e.id, y, e.prev),
         NEW s \in Seq(Events), e.prev = TailOf(s),
         s # <<>> => /\ LastOf(s).id \in 1..created
                     /\ \E z \in 0..2 : LastOf(s).hash = Digest(LastOf(s).id, z, LastOf(s).prev)
  PROVE  /\ y # 1
         /\ s = <<>> => lineage[e.id] = <<>>
         /\ s # <<>> =>
               /\ lineage[e.id] # <<>> /\ LastOf(lineage[e.id]) = LastOf(s).id
               /\ Sealed(LastOf(s)) /\ lineage[LastOf(s).id] # Unknown
               /\ lineage[LastOf(s).id] = Before(lineage[e.id], Len(lineage[e.id]))
<1> DEFINE h == lineage[e.id]
<1>1. created \in Nat /\ 1..created \subseteq Ids /\ e.prev \in Nat
  BY AuditAssumption DEF TypeOK, Ids, Events
<1>2. h \in Seq(Nat) /\ HasAncestors(e.id, created, lineage, seal)
  BY <1>1 DEF TypeOK, Ancestral
<1>3. /\ \A k \in 1..Len(h) : h[k] \in 1..created
      /\ h # <<>> => lineage[LastOf(h)] = Before(h, Len(h))
  BY <1>2 DEF HasAncestors
<1> DEFINE P == IF h = <<>> THEN NoHash ELSE seal[LastOf(h)]
<1>4. PICK x \in {0, 2} : seal[e.id] = Digest(e.id, x, P)
  BY <1>2 DEF HasAncestors
<1>5. ASSUME h # <<>>
      PROVE  /\ Len(h) \in Nat \ {0} /\ LastOf(h) \in 1..created
             /\ \E v \in 0..2, p \in Nat : seal[LastOf(h)] = Digest(LastOf(h), v, p)
  <2>1. Len(h) \in Nat \ {0}
    BY <1>2, <1>5, EmptySeq
  <2>2. LastOf(h) \in 1..created
    BY <1>3, <2>1 DEF LastOf
  <2>3. PICK v \in {0, 2}, p \in Nat : seal[LastOf(h)] = Digest(LastOf(h), v, p)
    BY <2>2 DEF Ancestral, HasAncestors
  <2>4. v \in 0..2
    OBVIOUS
  <2>5. QED
    BY <2>1, <2>2, <2>3, <2>4
<1>6. P \in Nat
  BY <1>1, <1>5 DEF TypeOK, NoHash
<1>7. x = y /\ e.prev = P
  <2> HIDE DEF P, h
  <2>1. x \in 0..2 /\ e.id \in Ids /\ Digest(e.id, x, P) = Digest(e.id, y, e.prev)
    <3>1. x \in 0..2 /\ e.id \in Ids
      BY <1>1
    <3>2. QED
      BY <1>4, <3>1 DEF Sealed
  <2>2. QED
    BY <1>1, <1>6, <2>1, DigestTells
<1>8. y # 1
  BY <1>7
<1>9. ASSUME s # <<>>
      PROVE  /\ LastOf(s).id \in 1..created /\ e.prev = LastOf(s).hash /\ e.prev # NoHash
             /\ \E z \in 0..2, p \in Nat : LastOf(s).hash = Digest(LastOf(s).id, z, p)
  <2>1. Len(s) \in Nat \ {0}
    BY <1>9, EmptySeq
  <2>2. LastOf(s) \in Events
    BY <2>1, ElementOfSeq DEF LastOf
  <2>3. LastOf(s).prev \in Nat /\ LastOf(s).id \in 1..created /\ e.prev = LastOf(s).hash
    BY <1>9, <2>1, <2>2 DEF Events, TailOf, LastOf
  <2>4. PICK z \in 0..2 : LastOf(s).hash = Digest(LastOf(s).id, z, LastOf(s).prev)
    BY <1>9
  <2>5. LastOf(s).id \in Ids
    BY <1>1, <2>3
  <2>6. e.prev # NoHash
    BY <2>3, <2>4, <2>5, DigestTells
  <2>7. QED
    BY <2>3, <2>4, <2>6
<1>10. CASE s = <<>>
  <2>1. e.prev = NoHash
    BY <1>10, EmptySeq DEF TailOf
  <2>2. SUFFICES ASSUME h # <<>> PROVE FALSE
    BY <1>8, <1>10
  <2>3. PICK v \in 0..2, p \in Nat : seal[LastOf(h)] = Digest(LastOf(h), v, p)
    BY <1>5, <2>2
  <2>4. LastOf(h) \in Ids /\ e.prev = seal[LastOf(h)]
    BY <1>1, <1>5, <1>7, <2>2
  <2>5. QED
    BY <2>1, <2>3, <2>4, DigestTells
<1>11. CASE s # <<>>
  <2>1. h # <<>>
    BY <1>7, <1>9, <1>11
  <2>2. PICK v \in 0..2, p \in Nat : seal[LastOf(h)] = Digest(LastOf(h), v, p)
    BY <1>5, <2>1
  <2>3. PICK z \in 0..2, q \in Nat : LastOf(s).hash = Digest(LastOf(s).id, z, q)
    BY <1>9, <1>11
  <2>4. e.prev = seal[LastOf(h)] /\ e.prev = LastOf(s).hash
    BY <1>7, <1>9, <1>11, <2>1
  <2>5. LastOf(h) \in Ids /\ LastOf(s).id \in Ids
    BY <1>1, <1>5, <1>9, <1>11, <2>1
  <2>6. LastOf(h) = LastOf(s).id
    <3> HIDE DEF h, P
    <3>1. Digest(LastOf(h), v, p) = Digest(LastOf(s).id, z, q)
      BY <2>2, <2>3, <2>4
    <3>2. QED
      BY <2>5, <3>1, DigestTells
  <2>7. Before(h, Len(h)) # Unknown
    <3> HIDE DEF h
    <3>1. Len(h) \in 1..(Len(h) + 1) /\ Len(h) \in Nat \ {0}
      BY <1>5, <2>1
    <3>2. /\ Before(h, Len(h)) \in Seq(Nat) /\ Len(Before(h, Len(h))) = Len(h) - 1
          /\ \A j \in 1..(Len(h) - 1) : Before(h, Len(h))[j] = h[j]
      BY <1>2, <3>1, BeforeFacts
    <3>3. \A j \in 1..(Len(h) - 1) : h[j] # 0
      BY <1>1, <1>3, <3>1
    <3>4. \A j \in 1..Len(Before(h, Len(h))) : Before(h, Len(h))[j] # 0
      BY <3>2, <3>3
    <3>5. QED
      BY <3>2, <3>4, KnownHistory
  <2>8. QED
    BY <1>3, <1>8, <1>11, <2>1, <2>4, <2>6, <2>7 DEF Sealed
<1>12. QED
  BY <1>10, <1>11

(* Then its history is the log, if that of the last event is the log before *)
(* it.                                                                      *)
LEMMA IdsBack ==
  ASSUME NEW h \in Seq(Nat), NEW s \in Seq(Events),
         s = <<>> => h = <<>>,
         s # <<>> => /\ h # <<>> /\ LastOf(h) = LastOf(s).id
                     /\ Before(h, Len(h)) = IdsOf(Before(s, Len(s)))
  PROVE  h = IdsOf(s)
<1>1. IdsOf(s) \in Seq(Nat) /\ Len(IdsOf(s)) = Len(s) /\ \A i \in 1..Len(s) : IdsOf(s)[i] = s[i].id
  BY IdsFacts
<1>2. CASE s = <<>>
  <2>1. Len(IdsOf(s)) = 0
    BY <1>1, <1>2, EmptySeq
  <2>2. IdsOf(s) = <<>>
    BY <1>1, <2>1, EmptySeq
  <2>3. QED
    BY <1>2, <2>2
<1>3. CASE s # <<>>
  <2>1. Len(s) \in Nat \ {0}
    BY <1>3, EmptySeq
  <2>2. Len(s) \in 1..Len(s) /\ Len(s) \in 1..(Len(s) + 1) /\ Len(IdsOf(s)) # 0
    BY <1>1, <2>1
  <2>3. Before(h, Len(h)) = Before(IdsOf(s), Len(IdsOf(s)))
    BY <1>1, <1>3, <2>2, IdsBefore
  <2>4. IdsOf(s) # <<>>
    BY <2>2, EmptySeq
  <2>5. LastOf(h) = LastOf(IdsOf(s))
    BY <1>1, <1>3, <2>2 DEF LastOf
  <2>6. QED
    BY <1>1, <1>3, <2>3, <2>4, <2>5, SameSeq
<1>4. QED
  BY <1>2, <1>3

(* A set of numbers that is not empty has a least one.                      *)
LEMMA LeastNumber ==
  ASSUME NEW T, T \subseteq Nat, T # {}
  PROVE  \E m \in T : \A k \in T : m <= k
<1>1. PICK m \in T : \A k \in T : ~(<<k, m>> \in OpToRel(<, Nat))
  BY NatLessThanWellFounded, WFMin
<1>2. OpToRel(<, Nat) = {x \in Nat \X Nat : x[1] < x[2]}
  BY DEF OpToRel
<1>3. \A k \in T : m <= k
  <2>1. SUFFICES ASSUME NEW k \in T, k < m PROVE FALSE
    OBVIOUS
  <2>2. <<k, m>> \in {x \in Nat \X Nat : x[1] < x[2]}
    BY <2>1
  <2>3. QED
    BY <1>1, <1>2, <2>2, Zenon
<1>4. QED
  BY <1>3

\* The event has its hash, and was recorded on an unchanged chain.
Good(e) == Sealed(e) /\ lineage[e.id] # Unknown

(* In a chain verify accepts, a good event is unaltered and the one before  *)
(* it is good.                                                              *)
LEMMA GoodBack ==
  ASSUME TypeOK, Traced, NEW c \in Chains, Verified(c),
         NEW j \in 1..Len(log[c]), Good(log[c][j])
  PROVE  LET e == log[c][j]
             h == lineage[e.id]
             s == Before(log[c], j)
         IN  /\ e.content = 0
             /\ h \in Seq(Nat) /\ s \in Seq(Events)
             /\ s = <<>> => h = <<>>
             /\ s # <<>> => /\ j - 1 \in 1..Len(log[c]) /\ LastOf(s) = log[c][j - 1]
                            /\ Good(log[c][j - 1])
                            /\ h # <<>> /\ LastOf(h) = LastOf(s).id
                            /\ lineage[log[c][j - 1].id] = Before(h, Len(h))
                            /\ Before(s, Len(s)) = Before(log[c], j - 1)
<1> DEFINE l == log[c]  e == l[j]  h == lineage[e.id]  s == Before(l, j)
<1>1. l \in Seq(Events) /\ Len(l) \in Nat /\ \A i \in 1..Len(l) : l[i] \in Events
  BY LenProperties, ElementOfSeq DEF TypeOK
<1>2. \A i \in 1..Len(l) : Linked(l, i) /\ Hashed(l[i]) /\ l[i].id \in 1..created
  BY DEF Traced, KnownLogs, Verified
<1>3. j \in 1..(Len(l) + 1) /\ j \in Nat \ {0} /\ j <= Len(l)
  BY <1>1
<1>4. s \in Seq(Events) /\ Len(s) = j - 1 /\ \A i \in 1..(j - 1) : s[i] = l[i]
  BY <1>1, <1>3, BeforeFacts
<1>5. e \in Events /\ e.id \in 1..created /\ e.content \in 0..1 /\ e.content \in 0..2
  BY <1>1, <1>2 DEF Events
<1>6. h \in Seq(Nat)
  BY <1>5, AuditAssumption DEF TypeOK, Ids
<1>7. Sealed(e) /\ h # Unknown /\ e.hash = Digest(e.id, e.content, e.prev)
  BY <1>2 DEF Good, Hashed
<1>8. s # <<>> => Len(s) \in Nat \ {0}
  BY <1>4, EmptySeq
<1>9. ASSUME s # <<>>
      PROVE  j - 1 \in 1..Len(l) /\ j # 1 /\ LastOf(s) = l[j - 1] /\ Len(s) = j - 1
  <2>1. j - 1 \in 1..Len(l) /\ j # 1 /\ j - 1 \in 1..(j - 1)
    BY <1>1, <1>3, <1>4, <1>8, <1>9
  <2>2. QED
    BY <1>4, <2>1 DEF LastOf
<1>10. e.prev = TailOf(s)
  <2>1. CASE s = <<>>
    <3>1. Len(s) = 0
      BY <2>1, EmptySeq
    <3>2. j = 1
      BY <1>3, <1>4, <3>1
    <3>3. QED
      BY <1>2, <3>1, <3>2 DEF Linked, TailOf
  <2>2. CASE s # <<>>
    BY <1>2, <1>8, <1>9, <2>2 DEF Linked, TailOf, LastOf
  <2>3. QED
    BY <2>1, <2>2
<1>11. ASSUME s # <<>>
       PROVE  /\ LastOf(s).id \in 1..created
              /\ \E z \in 0..2 : LastOf(s).hash = Digest(LastOf(s).id, z, LastOf(s).prev)
  <2>1. LastOf(s) \in Events /\ Hashed(LastOf(s)) /\ LastOf(s).id \in 1..created
    BY <1>1, <1>2, <1>9, <1>11
  <2>2. LastOf(s).content \in 0..2
    BY <2>1 DEF Events
  <2>3. QED
    BY <2>1, <2>2 DEF Hashed
<1> HIDE DEF s, l, e
<1>12. /\ e.content # 1
       /\ s = <<>> => h = <<>>
       /\ s # <<>> => /\ h # <<>> /\ LastOf(h) = LastOf(s).id
                      /\ Sealed(LastOf(s)) /\ lineage[LastOf(s).id] # Unknown
                      /\ lineage[LastOf(s).id] = Before(h, Len(h))
  BY <1>4, <1>5, <1>7, <1>10, <1>11, OneBack DEF Traced
<1>13. ASSUME s # <<>> PROVE Before(s, Len(s)) = Before(l, j - 1)
  <2>1. j - 1 \in 1..(Len(l) + 1) /\ j - 1 \in 1..(Len(s) + 1) /\ Len(s) = j - 1
    BY <1>1, <1>9, <1>13
  <2>2. /\ Before(l, j - 1) \in Seq(Events) /\ Len(Before(l, j - 1)) = j - 1 - 1
        /\ \A k \in 1..(j - 1 - 1) : Before(l, j - 1)[k] = l[k]
    BY <1>1, <2>1, BeforeFacts
  <2>3. /\ Before(s, j - 1) \in Seq(Events) /\ Len(Before(s, j - 1)) = j - 1 - 1
        /\ \A k \in 1..(j - 1 - 1) : Before(s, j - 1)[k] = s[k]
    BY <1>4, <2>1, BeforeFacts
  <2>4. \A k \in 1..(j - 1 - 1) : l[k] = s[k]
    BY <1>3, <1>4
  <2>5. Before(l, j - 1) = Before(s, j - 1)
    BY <2>2, <2>3, <2>4, SeqEqual
  <2>6. QED
    BY <2>1, <2>5
<1>14. e.content = 0
  BY <1>5, <1>12
<1>15. s # <<>> => Good(l[j - 1]) /\ lineage[l[j - 1].id] = Before(h, Len(h))
  BY <1>9, <1>12 DEF Good
<1>16. QED
  BY <1>4, <1>6, <1>9, <1>12, <1>13, <1>14, <1>15 DEF s, l, e

(* What verify accepts is what was recorded.  From a good event goodness    *)
(* goes back to the first event; and were there an event whose history is   *)
(* another than the chain shows, then the first of them would have been     *)
(* built on the event before it, whose history is the right one.            *)
LEMMA TracedSuffices == TypeOK /\ Traced => HarmEvident
<1>1. SUFFICES ASSUME TypeOK, Traced, NEW c \in Chains, Verified(c),
                      NEW i \in 1..Len(log[c]), Good(log[c][i])
      PROVE  /\ lineage[log[c][i].id] = IdsOf(SubSeq(log[c], 1, i - 1))
             /\ \A j \in 1..i : Sealed(log[c][j]) /\ log[c][j].content = 0
  BY DEF HarmEvident, Good
<1> DEFINE s == log[c]
<1>2. s \in Seq(Events) /\ Len(s) \in Nat /\ i \in Nat \ {0} /\ i <= Len(s)
  BY <1>1, LenProperties DEF TypeOK
<1> DEFINE Bad == {k \in 0..(i - 1) : ~Good(s[i - k])}
<1>3. Bad = {}
  <2>1. SUFFICES ASSUME Bad # {} PROVE FALSE
    OBVIOUS
  <2>2. Bad \subseteq Nat
    BY <1>2
  <2> HIDE DEF Bad
  <2>3. PICK k \in Bad : \A m \in Bad : k <= m
    BY <2>1, <2>2, LeastNumber
  <2> USE DEF Bad
  <2>4. k \in 0..(i - 1) /\ ~Good(s[i - k]) /\ k # 0
    BY <1>1, <1>2
  <2> DEFINE j == i - (k - 1)
  <2>5. /\ k - 1 \in 0..(i - 1) /\ k - 1 \notin Bad
        /\ j \in 1..Len(s) /\ j - 1 = i - k /\ j # 1
    <3>1. /\ k - 1 \in 0..(i - 1) /\ ~(k <= k - 1)
          /\ j \in 1..Len(s) /\ j - 1 = i - k /\ j # 1
      BY <1>2, <2>4
    <3> HIDE DEF Bad
    <3>2. QED
      BY <2>3, <3>1
  <2>6. Good(s[j])
    BY <2>5
  <2>7. Len(Before(s, j)) = j - 1 /\ j - 1 # 0
    <3>1. j \in 1..(Len(s) + 1) /\ j - 1 # 0
      BY <1>2, <2>5
    <3> HIDE DEF j, s
    <3>2. QED
      BY <1>2, <3>1, BeforeFacts
  <2>8. Before(s, j) # <<>>
    BY <2>7, EmptySeq
  <2> HIDE DEF j
  <2>9. Good(s[j - 1])
    BY <1>1, <2>5, <2>6, <2>8, GoodBack
  <2>10. QED
    BY <2>4, <2>5, <2>9
<1>4. ASSUME NEW j \in 1..i PROVE j \in 1..Len(s) /\ Good(s[j])
  <2>1. j \in 1..Len(s) /\ i - j \in 0..(i - 1) /\ i - (i - j) = j
    BY <1>2
  <2>2. QED
    BY <1>3, <2>1
<1>5. \A j \in 1..i : Sealed(s[j]) /\ s[j].content = 0
  BY <1>1, <1>4, GoodBack DEF Good
<1> DEFINE Wrong == {j \in 1..i : lineage[s[j].id] # IdsOf(Before(s, j))}
<1>6. Wrong = {}
  <2>1. SUFFICES ASSUME Wrong # {} PROVE FALSE
    OBVIOUS
  <2>2. Wrong \subseteq Nat
    BY <1>2
  <2> HIDE DEF Wrong
  <2>3. PICK j \in Wrong : \A m \in Wrong : j <= m
    BY <2>1, <2>2, LeastNumber
  <2> USE DEF Wrong
  <2>4. j \in 1..i /\ j \in 1..Len(s) /\ Good(s[j]) /\ lineage[s[j].id] # IdsOf(Before(s, j))
    BY <1>4
  <2> DEFINE t == Before(s, j)  h == lineage[s[j].id]
  <2>5. /\ h \in Seq(Nat) /\ t \in Seq(Events)
        /\ t = <<>> => h = <<>>
        /\ t # <<>> => /\ j - 1 \in 1..Len(s)
                       /\ h # <<>> /\ LastOf(h) = LastOf(t).id
                       /\ lineage[s[j - 1].id] = Before(h, Len(h))
                       /\ Before(t, Len(t)) = Before(s, j - 1)
    BY <1>1, <2>4, GoodBack
  <2>6. t # <<>> => lineage[s[j - 1].id] = IdsOf(Before(s, j - 1))
    <3>1. SUFFICES ASSUME t # <<>> PROVE j - 1 \in 1..i /\ j - 1 \notin Wrong
      OBVIOUS
    <3>2. j - 1 \in 1..Len(s)
      BY <2>5, <3>1
    <3>3. j - 1 \in 1..i
      BY <1>2, <2>4, <3>2
    <3>4. QED
      BY <2>3, <2>4, <3>3
  <2> HIDE DEF t, h
  <2>7. h = IdsOf(t)
    BY <2>5, <2>6, IdsBack
  <2>8. QED
    BY <2>4, <2>7 DEF t, h
<1>7. i \in 1..i
  BY <1>2
<1>8. QED
  BY <1>5, <1>6, <1>7 DEF Before

(* verify accepts an event of an unchanged chain exactly when it is still   *)
(* what its hash was computed from.                                         *)
LEMMA TracedVerifies == Inv /\ Traced => IntactVerifies
<1>1. SUFFICES ASSUME Inv, Traced, NEW c \in Chains \ harmed, Readable
      PROVE  Verified(c) <=> \A i \in 1..Len(log[c]) : Faithful(log[c][i])
  BY DEF IntactVerifies
<1> DEFINE s == log[c]
<1>2. s \in Seq(Events) /\ \A i \in 1..Len(s) : s[i] \in Events
  BY <1>1, ElementOfSeq DEF Inv, TypeOK
<1>3. Sound(store, s) /\ Recorded(s, lineage, seal) /\ \A i \in 1..Len(s) : s[i].id \in Ids
  BY <1>1, AuditAssumption DEF Inv, SoundLogs, Traced, RecordedLogs, KnownLogs, TypeOK, Ids
<1> HIDE DEF s
<1>4. ASSUME NEW i \in 1..Len(s)
      PROVE  Linked(s, i) /\ ColumnsAgree(s[i]) /\ (Hashed(s[i]) <=> Faithful(s[i]))
  <2> DEFINE e == s[i]
  <2>1. /\ Linked(s, i) /\ e.column = e.content /\ e.content = ReadBack(store, e.id)
        /\ \E x \in {0, 2} : e.hash = Digest(e.id, x, e.prev)
    BY <1>3 DEF Sound, SoundAt
  <2>2. e.hash = seal[e.id] /\ e.id \in Ids /\ e.prev \in Nat
    BY <1>2, <1>3 DEF Recorded, Events
  <2> HIDE DEF e
  <2>3. CASE store = "postgres" /\ e.id \in Frail
    <3>1. e.content = 1 /\ ~Faithful(e)
      BY <2>1, <2>3 DEF ReadBack, Faithful, OwnHash
    <3>2. PICK x \in {0, 2} : e.hash = Digest(e.id, x, e.prev)
      BY <2>1
    <3>3. x \in 0..2 /\ 1 \in 0..2 /\ x # 1
      OBVIOUS
    <3>4. Digest(e.id, x, e.prev) # Digest(e.id, 1, e.prev)
      BY <2>2, <3>3, DigestTells
    <3>5. ~Hashed(e)
      BY <3>1, <3>2, <3>4 DEF Hashed
    <3>6. QED
      BY <2>1, <3>1, <3>5 DEF e, ColumnsAgree
  <2>4. CASE ~(store = "postgres" /\ e.id \in Frail)
    <3>1. e.content = 0
      BY <2>1, <2>4 DEF ReadBack
    <3>2. Hashed(e) <=> Faithful(e)
      BY <2>2, <2>4, <3>1 DEF Hashed, Faithful, OwnHash
    <3>3. QED
      BY <2>1, <3>2 DEF e, ColumnsAgree
  <2>5. QED
    BY <2>3, <2>4
<1>5. QED
  BY <1>1, <1>4 DEF Verified, s

-----------------------------------------------------------------------------
(* Nothing is stored yet.                                                   *)
LEMMA InitTraced == Init => Traced
<1>1. SUFFICES ASSUME Init PROVE Traced
  OBVIOUS
<1>2. KnownLogs /\ RecordedLogs
  BY <1>1 DEF Init, KnownLogs, RecordedLogs, Recorded
<1>3. KnownJobs /\ RecordedJobs
  BY <1>1 DEF Init, KnownJobs, RecordedJobs
<1>4. Ancestral
  BY <1>1 DEF Init, Ancestral
<1>5. QED
  BY <1>2, <1>3, <1>4 DEF Traced

(* A new event is built on the chain, and the others stay as they are.      *)
LEMMA NewEventTraced ==
  ASSUME Inv, Traced, NEW w \in Writers, NEW c \in Chains, NEW x \in {0, 2}, NewEvent(w, c, x)
  PROVE  /\ 1..created \subseteq 1..created'
         /\ \A id \in 1..created : lineage'[id] = lineage[id] /\ seal'[id] = seal[id]
         /\ event'[w].id \in 1..created' /\ event'[w].hash = seal'[event'[w].id]
         /\ Ancestral'
         /\ c \notin harmed => /\ lineage'[event'[w].id] = IdsOf(log[c])
                               /\ lineage'[event'[w].id] # Unknown
<1> DEFINE s == log[c]  n == created + 1
<1>1. /\ s \in Seq(Events) /\ Len(s) \in Nat /\ \A i \in 1..Len(s) : s[i] \in Events
      /\ \A i \in 1..Len(s) : s[i].id \in 1..created
  BY LenProperties, ElementOfSeq DEF Inv, TypeOK, Traced, KnownLogs
<1>2. /\ created \in Nat /\ n \in Ids /\ created' = n /\ n \notin 1..created
      /\ 1..created \subseteq Ids /\ 1..created \subseteq 1..n /\ n \in 1..n
  BY AuditAssumption DEF Inv, TypeOK, NewEvent, Ids
<1>3. /\ lineage'[n] = IF c \in harmed THEN Unknown ELSE IdsOf(s)
      /\ seal'[n] = Digest(n, x, TailOf(s))
      /\ \A id \in 1..created : lineage'[id] = lineage[id] /\ seal'[id] = seal[id]
  BY <1>2 DEF Inv, TypeOK, NewEvent
<1>4. event'[w] = Event(n, TailOf(s), x) /\ TailOf(s) \in Nat
  BY <1>1, TailType DEF Inv, TypeOK, NewEvent
<1>5. /\ IdsOf(s) \in Seq(Nat) /\ Len(IdsOf(s)) = Len(s)
      /\ \A i \in 1..Len(s) : IdsOf(s)[i] = s[i].id /\ s[i].id \in 1..created
  BY <1>1, IdsFacts
<1>6. event'[w].id = n /\ event'[w].hash = Digest(n, x, TailOf(s))
  BY <1>4 DEF Event
<1> HIDE DEF s, n
<1>7. IdsOf(s) # Unknown
  BY <1>2, <1>5, KnownHistory
<1>8. Len(s) = 0 => IdsOf(s) = <<>>
  BY <1>5, EmptySeq
<1>9. ASSUME NEW id \in 1..n PROVE HasAncestors(id, n, lineage', seal')
  <2>1. CASE id \in 1..created
    <3> DEFINE h == lineage[id]
    <3>1. /\ HasAncestors(id, created, lineage, seal)
          /\ lineage'[id] = h /\ seal'[id] = seal[id]
      BY <1>3, <2>1 DEF Traced, Ancestral
    <3>2. h \in Seq(Nat)
      BY <1>2, <2>1 DEF Inv, TypeOK
    <3>3. \E v \in {0, 2}, p \in Nat : seal'[id] = Digest(id, v, p)
      BY <3>1 DEF HasAncestors
    <3>4. SUFFICES ASSUME h # Unknown
          PROVE  /\ \A k \in 1..Len(h) : h[k] \in 1..n
                 /\ h # <<>> => lineage'[LastOf(h)] = Before(h, Len(h))
                 /\ \E v \in {0, 2} :
                        seal[id] = Digest(id, v, IF h = <<>> THEN NoHash ELSE seal'[LastOf(h)])
      BY <3>1, <3>3 DEF HasAncestors
    <3>5. /\ \A k \in 1..Len(h) : h[k] \in 1..created
          /\ h # <<>> => lineage[LastOf(h)] = Before(h, Len(h))
          /\ \E v \in {0, 2} :
                 seal[id] = Digest(id, v, IF h = <<>> THEN NoHash ELSE seal[LastOf(h)])
      BY <3>1, <3>4 DEF HasAncestors
    <3> HIDE DEF h
    <3>6. \A k \in 1..Len(h) : h[k] \in 1..n
      BY <1>2, <3>5
    <3>7. h # <<>> => LastOf(h) \in 1..created
      BY <3>2, <3>5, EmptySeq DEF LastOf
    <3>8. h # <<>> => lineage'[LastOf(h)] = lineage[LastOf(h)] /\ seal'[LastOf(h)] = seal[LastOf(h)]
      BY <1>3, <3>7
    <3>9. QED
      BY <3>5, <3>6, <3>8
  <2>2. CASE id = n /\ c \notin harmed
    <3>1. lineage'[id] = IdsOf(s) /\ seal'[id] = Digest(id, x, TailOf(s))
      BY <1>3, <2>2
    <3>2. \A k \in 1..Len(IdsOf(s)) : IdsOf(s)[k] \in 1..n
      BY <1>2, <1>5
    <3>3. ASSUME IdsOf(s) # <<>>
          PROVE  /\ lineage'[LastOf(IdsOf(s))] = Before(IdsOf(s), Len(IdsOf(s)))
                 /\ TailOf(s) = seal'[LastOf(IdsOf(s))]
      <4>1. Len(s) # 0 /\ Len(s) \in 1..Len(s) /\ Len(s) \in 1..(Len(s) + 1)
        BY <1>1, <1>8, <3>3
      <4>2. LastOf(IdsOf(s)) = s[Len(s)].id /\ s[Len(s)].id \in 1..created
        BY <1>5, <4>1 DEF LastOf
      <4>3. /\ lineage[s[Len(s)].id] = IdsOf(Before(s, Len(s)))
            /\ s[Len(s)].hash = seal[s[Len(s)].id]
        BY <2>2, <4>1 DEF Traced, RecordedLogs, Recorded, s
      <4>4. IdsOf(Before(s, Len(s))) = Before(IdsOf(s), Len(s))
        BY <1>1, <4>1, IdsBefore
      <4>5. QED
        BY <1>3, <1>5, <4>1, <4>2, <4>3, <4>4 DEF TailOf
    <3>4. IdsOf(s) = <<>> => TailOf(s) = NoHash
      BY <1>5, EmptySeq DEF TailOf
    <3>5. seal'[id] = Digest(id, x, IF IdsOf(s) = <<>> THEN NoHash ELSE seal'[LastOf(IdsOf(s))])
      BY <3>1, <3>3, <3>4
    <3>6. QED
      BY <1>4, <3>1, <3>2, <3>3, <3>5 DEF HasAncestors
  <2>3. CASE id = n /\ c \in harmed
    BY <1>3, <1>4, <2>3 DEF HasAncestors
  <2>4. QED
    BY <1>2, <2>1, <2>2, <2>3 DEF n
<1>10. Ancestral'
  BY <1>2, <1>9 DEF Ancestral
<1>11. QED
  BY <1>2, <1>3, <1>6, <1>7, <1>10 DEF s

(* Steps that create an event, on a tail read under the lock or before it.  *)
LEMMA CreateTraced ==
  ASSUME Inv, Traced, NEW w \in Writers, NEW c \in Chains,
         Build(w, c) \/ (SelectTail(w) /\ c = chain[w])
  PROVE  Traced'
<1>1. UNCHANGED <<log, harmed>>
  BY DEF Build, SelectTail, storeVars
<1>x. PICK x \in {0, 2} : NewEvent(w, c, x)
  BY DEF Build, SelectTail
<1>2. /\ chain'[w] = c /\ pc'[w] \in {"built", "writing"}
      /\ \A v \in Writers \ {w} : pc'[v] = pc[v] /\ chain'[v] = chain[v]
  BY DEF Inv, TypeOK, Build, SelectTail
<1>e. \A v \in Writers \ {w} : event'[v] = event[v]
  BY <1>x DEF Inv, TypeOK, NewEvent
<1>3. /\ 1..created \subseteq 1..created'
      /\ \A id \in 1..created : lineage'[id] = lineage[id] /\ seal'[id] = seal[id]
      /\ event'[w].id \in 1..created' /\ event'[w].hash = seal'[event'[w].id]
      /\ Ancestral'
      /\ c \notin harmed => /\ lineage'[event'[w].id] = IdsOf(log[c])
                            /\ lineage'[event'[w].id] # Unknown
  BY <1>x, NewEventTraced
<1>4. KnownLogs'
  BY <1>1, <1>3 DEF Traced, KnownLogs
<1>5. KnownJobs'
  BY <1>2, <1>e, <1>3 DEF Traced, KnownJobs
<1>6. RecordedLogs'
  <2>1. ASSUME NEW d \in Chains \ harmed, NEW i \in 1..Len(log[d])
        PROVE  /\ log[d][i].hash = seal'[log[d][i].id]
               /\ lineage'[log[d][i].id] = IdsOf(Before(log[d], i))
    BY <1>3 DEF Traced, KnownLogs, RecordedLogs, Recorded
  <2>2. QED
    BY <1>1, <2>1 DEF RecordedLogs, Recorded
<1>7. RecordedJobs'
  <2>1. ASSUME NEW v \in Writers \ {w}, pc[v] \in {"built", "checking", "writing"}
        PROVE  lineage'[event[v].id] = lineage[event[v].id]
    BY <1>3, <2>1 DEF Traced, KnownJobs
  <2>2. QED
    BY <1>1, <1>2, <1>e, <1>3, <2>1 DEF Traced, RecordedJobs
<1>8. QED
  BY <1>3, <1>4, <1>5, <1>6, <1>7 DEF Traced

(* A tail with the expected hash is the end of the expected chain: append's *)
(* check lets an event through only onto the chain it was built on.         *)
LEMMA CheckTailTraced ==
  ASSUME Inv, Traced, NEW w \in Writers, CheckTail(w), chain[w] \notin harmed
  PROVE  lineage[event[w].id] = IdsOf(log[chain[w]])
<1>1. pc[w] = "checking" /\ event[w].prev = TailOf(log[chain[w]])
  BY DEF CheckTail, Stale
<1> DEFINE e == event[w]  s == log[chain[w]]  h == lineage[e.id]
<1>2. chain[w] \in Chains \ harmed /\ e \in Events
  BY <1>1 DEF Inv, TypeOK, JobsBuilt
<1>3. e.id \in 1..created /\ Sealed(e) /\ h # Unknown
  BY <1>1 DEF Traced, KnownJobs, RecordedJobs, Sealed
<1>4. \E x \in {0, 2} : e = Event(e.id, e.prev, x)
  BY <1>1 DEF Inv, JobsBuilt
<1>5. PICK y \in 0..2 : e.hash = Digest(e.id, y, e.prev)
  BY <1>4 DEF Event
<1>6. /\ s \in Seq(Events) /\ \A i \in 1..Len(s) : s[i].id \in 1..created
      /\ Recorded(s, lineage, seal) /\ Sound(store, s)
  BY <1>2 DEF Inv, TypeOK, SoundLogs, Traced, KnownLogs, RecordedLogs
<1>7. h \in Seq(Nat)
  BY <1>3, AuditAssumption DEF Inv, TypeOK, Ids
<1> HIDE DEF e, s, h
<1>8. ASSUME s # <<>>
      PROVE  /\ LastOf(s).id \in 1..created
             /\ \E z \in 0..2 : LastOf(s).hash = Digest(LastOf(s).id, z, LastOf(s).prev)
             /\ lineage[LastOf(s).id] = IdsOf(Before(s, Len(s)))
  <2>1. Len(s) \in 1..Len(s)
    BY <1>6, <1>8, EmptySeq
  <2>2. SoundAt(store, s, Len(s))
    BY <1>6, <2>1 DEF Sound
  <2>3. PICK z \in {0, 2} : s[Len(s)].hash = Digest(s[Len(s)].id, z, s[Len(s)].prev)
    BY <2>2 DEF SoundAt
  <2>4. z \in 0..2
    OBVIOUS
  <2>5. QED
    BY <1>6, <2>1, <2>3, <2>4 DEF Recorded, LastOf
<1>9. e.prev = TailOf(s)
  BY <1>1 DEF e, s
<1>10. /\ s = <<>> => lineage[e.id] = <<>>
       /\ s # <<>> =>
             /\ lineage[e.id] # <<>> /\ LastOf(lineage[e.id]) = LastOf(s).id
             /\ lineage[LastOf(s).id] = Before(lineage[e.id], Len(lineage[e.id]))
  BY <1>2, <1>3, <1>5, <1>6, <1>8, <1>9, OneBack DEF Inv, Traced, h
<1>11. /\ s = <<>> => h = <<>>
       /\ s # <<>> => /\ h # <<>> /\ LastOf(h) = LastOf(s).id
                      /\ Before(h, Len(h)) = IdsOf(Before(s, Len(s)))
  BY <1>8, <1>10 DEF h
<1>12. h = IdsOf(s)
  BY <1>6, <1>7, <1>11, IdsBack
<1>13. QED
  BY <1>12 DEF e, s, h

(* Steps of a writer that leave the events alone.                           *)
LEMMA MoveTraced ==
  ASSUME Inv, Traced, NEW w \in Writers,
         \/ \E c \in Chains : Record(w, c)
         \/ AppendEvent(w) \/ CheckTail(w) \/ Rejected(w) \/ Crash(w) \/ Answer(w)
  PROVE  Traced'
<1>1. UNCHANGED <<log, created, event, lineage, seal, harmed>>
  BY DEF Record, AppendEvent, CheckTail, Rejected, Crash, Answer, storeVars
<1>2. \A v \in Writers \ {w} : pc'[v] = pc[v] /\ chain'[v] = chain[v]
  BY DEF Inv, TypeOK, Record, AppendEvent, CheckTail, Rejected, Crash, Answer
<1>3. \/ pc'[w] \in {"idle", "recording"}
      \/ pc[w] = "built" /\ pc'[w] = "checking" /\ chain'[w] = chain[w]
      \/ pc[w] = "checking" /\ pc'[w] = "writing" /\ chain'[w] = chain[w] /\ CheckTail(w)
  BY DEF Inv, TypeOK, Record, AppendEvent, CheckTail, Rejected, Crash, Answer
<1>4. KnownLogs' /\ Ancestral' /\ RecordedLogs'
  BY <1>1 DEF Traced, KnownLogs, Ancestral, RecordedLogs
<1>5. KnownJobs'
  BY <1>1, <1>2, <1>3 DEF Traced, KnownJobs
<1>6. RecordedJobs'
  <2>1. CheckTail(w) /\ chain[w] \notin harmed => lineage[event[w].id] = IdsOf(log[chain[w]])
    BY CheckTailTraced
  <2>2. QED
    BY <1>1, <1>2, <1>3, <2>1 DEF Traced, RecordedJobs
<1>7. QED
  BY <1>4, <1>5, <1>6 DEF Traced

-----------------------------------------------------------------------------
(* Steps that change the stored events. *)

(* A log with one more event that was recorded on it.                       *)
LEMMA StoreTraced ==
  ASSUME Inv, Traced, NEW w \in Writers, pc[w] = "writing", Store(w),
         UNCHANGED <<created, lineage, seal, harmed>>
  PROVE  KnownLogs' /\ RecordedLogs'
<1>1. /\ chain[w] \in Chains /\ event[w] \in Events
      /\ Stored(event[w]) \in Events /\ Stored(event[w]).id = event[w].id
      /\ Stored(event[w]).hash = event[w].hash
  BY StoredType DEF Inv, TypeOK, JobsBuilt
<1>2. /\ \A c \in Chains \ {chain[w]} : log'[c] = log[c]
      /\ log'[chain[w]] = Append(log[chain[w]], Stored(event[w]))
  BY <1>1 DEF Inv, TypeOK, Store
<1> DEFINE s == log[chain[w]]  t == Append(s, Stored(event[w]))
<1>3. s \in Seq(Events)
  BY <1>1 DEF Inv, TypeOK
<1>4. /\ t \in Seq(Events) /\ Len(s) \in Nat /\ Len(t) = Len(s) + 1
      /\ \A i \in 1..Len(s) : t[i] = s[i]
      /\ t[Len(s) + 1] = Stored(event[w])
  BY <1>1, <1>3, AppendProperties, LenProperties
<1>5. /\ event[w].id \in 1..created /\ event[w].hash = seal[event[w].id]
      /\ \A i \in 1..Len(s) : s[i].id \in 1..created
  BY <1>1 DEF Traced, KnownJobs, KnownLogs
<1>6. /\ log'[chain[w]] = t
      /\ chain[w] \notin harmed => Recorded(s, lineage, seal) /\ lineage[event[w].id] = IdsOf(s)
  BY <1>1, <1>2 DEF Traced, RecordedLogs, RecordedJobs
<1> HIDE DEF s, t
<1>7. KnownLogs'
  <2>1. \A i \in 1..Len(t) : t[i].id \in 1..created
    BY <1>1, <1>4, <1>5
  <2>2. QED
    BY <1>2, <1>6, <2>1 DEF Traced, KnownLogs
<1>8. ASSUME chain[w] \notin harmed, NEW i \in 1..Len(t) 
      PROVE  t[i].hash = seal[t[i].id] /\ lineage[t[i].id] = IdsOf(Before(t, i))
  <2>1. i \in 1..(Len(s) + 1) /\ i \in 1..(Len(t) + 1)
    BY <1>4
  <2>2. /\ Before(s, i) \in Seq(Events) /\ Len(Before(s, i)) = i - 1
        /\ \A j \in 1..(i - 1) : Before(s, i)[j] = s[j]
    BY <1>3, <2>1, BeforeFacts
  <2>3. /\ Before(t, i) \in Seq(Events) /\ Len(Before(t, i)) = i - 1
        /\ \A j \in 1..(i - 1) : Before(t, i)[j] = t[j]
    BY <1>4, <2>1, BeforeFacts
  <2>4. Before(t, i) = Before(s, i)
    <3>1. \A j \in 1..(i - 1) : t[j] = s[j]
      BY <1>4, <2>1
    <3>2. QED
      BY <2>2, <2>3, <3>1, SeqEqual
  <2>5. CASE i \in 1..Len(s)
    BY <1>4, <1>6, <1>8, <2>4, <2>5 DEF Recorded
  <2>6. CASE i = Len(s) + 1
    <3>1. Before(s, i) = s
      <4>1. i - 1 = Len(s)
        BY <1>4, <2>6
      <4>2. QED
        BY <1>3, <4>1, SubSeqFull DEF Before
    <3>2. QED
      BY <1>1, <1>4, <1>5, <1>6, <1>8, <2>4, <2>6, <3>1
  <2>7. QED
    BY <1>4, <2>5, <2>6
<1>9. RecordedLogs'
  BY <1>2, <1>6, <1>8 DEF Traced, RecordedLogs, Recorded
<1>10. QED
  BY <1>7, <1>9

(* A log that has lost its last event.                                      *)
LEMMA GlueTraced ==
  ASSUME Inv, Traced, open # NoChain, Glue(open), UNCHANGED <<created, lineage, seal, harmed>>
  PROVE  KnownLogs' /\ RecordedLogs'
<1> DEFINE s == log[open]  n == Len(s)  t == Before(s, n)
<1>1. open \in Chains /\ s \in Seq(Events) /\ s # <<>>
  BY DEF Inv, TypeOK
<1>2. \A c \in Chains : log'[c] = IF c = open THEN t ELSE log[c]
  BY <1>1 DEF Inv, TypeOK, Glue, Before
<1>3. n \in Nat \ {0} /\ n \in 1..(Len(s) + 1)
  BY <1>1, EmptySeq
<1>4. t \in Seq(Events) /\ Len(t) = n - 1 /\ \A i \in 1..(n - 1) : t[i] = s[i]
  BY <1>1, <1>3, BeforeFacts
<1>5. /\ \A i \in 1..Len(s) : s[i].id \in 1..created
      /\ open \notin harmed => Recorded(s, lineage, seal)
  BY <1>1 DEF Traced, KnownLogs, RecordedLogs
<1> HIDE DEF t, s
<1>6. \A i \in 1..Len(t) : i \in 1..Len(s) /\ t[i] = s[i]
  BY <1>3, <1>4
<1>7. KnownLogs'
  BY <1>2, <1>5, <1>6 DEF Traced, KnownLogs
<1>8. ASSUME open \notin harmed, NEW i \in 1..Len(t) 
      PROVE  t[i].hash = seal[t[i].id] /\ lineage[t[i].id] = IdsOf(Before(t, i))
  <2>1. i \in 1..(Len(s) + 1) /\ i \in 1..(Len(t) + 1)
    BY <1>3, <1>4
  <2>2. /\ Before(s, i) \in Seq(Events) /\ Len(Before(s, i)) = i - 1
        /\ \A j \in 1..(i - 1) : Before(s, i)[j] = s[j]
    BY <1>1, <2>1, BeforeFacts
  <2>3. /\ Before(t, i) \in Seq(Events) /\ Len(Before(t, i)) = i - 1
        /\ \A j \in 1..(i - 1) : Before(t, i)[j] = t[j]
    BY <1>4, <2>1, BeforeFacts
  <2>4. Before(t, i) = Before(s, i)
    <3>1. \A j \in 1..(i - 1) : t[j] = s[j]
      BY <1>3, <1>4, <2>1
    <3>2. QED
      BY <2>2, <2>3, <3>1, SeqEqual
  <2>5. QED
    BY <1>5, <1>6, <1>8, <2>4 DEF Recorded
<1>9. RecordedLogs'
  BY <1>2, <1>8 DEF Traced, RecordedLogs, Recorded
<1>10. QED
  BY <1>7, <1>9

(* The steps of a writer that end in the file or the database.              *)
LEMMA WriteTraced ==
  ASSUME Inv, Traced, NEW w \in Writers, Write(w) \/ WriteGlued(w) \/ CrashInLine(w)
  PROVE  Traced'
<1>1. /\ UNCHANGED <<created, chain, event, lineage, seal, harmed>>
      /\ pc[w] = "writing" /\ pc'[w] \in {"idle", "stored"}
      /\ \A v \in Writers \ {w} : pc'[v] = pc[v]
  BY DEF Inv, TypeOK, Write, WriteGlued, CrashInLine
<1>2. KnownLogs' /\ RecordedLogs'
  <2>1. CASE Write(w)
    BY <1>1, <2>1, StoreTraced DEF Write
  <2>2. CASE WriteGlued(w)
    BY <1>1, <2>2, GlueTraced DEF WriteGlued
  <2>3. CASE CrashInLine(w) /\ open # NoChain /\ Glue(open)
    BY <1>1, <2>3, GlueTraced
  <2>4. CASE CrashInLine(w) /\ UNCHANGED log
    BY <1>1, <2>4 DEF Traced, KnownLogs, RecordedLogs
  <2>5. CASE CrashInLine(w) /\ Store(w)
    BY <1>1, <2>5, StoreTraced
  <2>6. QED
    BY <2>1, <2>2, <2>3, <2>4, <2>5 DEF CrashInLine
<1>3. KnownJobs' /\ Ancestral'
  BY <1>1 DEF Traced, KnownJobs, Ancestral
<1>4. RecordedJobs'
  <2>1. ASSUME NEW v \in Writers, pc'[v] = "writing"
        PROVE  chain[v] \in Chains /\ log'[chain[v]] = log[chain[v]]
    <3>1. v # w /\ pc[v] = "writing" /\ chain[v] \in Chains
      BY <1>1, <2>1 DEF Inv, JobsBuilt
    <3>2. store = "postgres" /\ chain[v] # chain[w]
      BY <1>1, <3>1 DEF Inv, Mutex, InLock
    <3>3. Write(w)
      BY <3>2 DEF Inv, TypeOK, WriteGlued, CrashInLine
    <3>4. QED
      BY <3>1, <3>2, <3>3 DEF Inv, TypeOK, Write, Store
  <2>2. QED
    BY <1>1, <2>1 DEF Traced, RecordedJobs
<1>5. QED
  BY <1>2, <1>3, <1>4 DEF Traced

\* t is s with event i altered, lost or exchanged with the next one.
ChangedAt(s, i, t) ==
    \/ \E e \in Altered(s, i) : t = [s EXCEPT ![i] = e]
    \/ t = Without(s, i)
    \/ i < Len(s) /\ t = [s EXCEPT ![i] = s[i + 1], ![i + 1] = s[i]]

(* Altered, lost and exchanged events: every event of the log still has the *)
(* id of an event that was in it.                                           *)
LEMMA HarmKeeps ==
  ASSUME NEW s \in Seq(Events), NEW t, NEW i \in 1..Len(s), ChangedAt(s, i, t)
  PROVE  \A j \in 1..Len(t) : \E k \in 1..Len(s) :
             t[j].id = s[k].id
<1>1. Len(s) \in Nat /\ \A j \in 1..Len(s) : s[j] \in Events
  BY LenProperties, ElementOfSeq
<1>2. CASE \E e \in Altered(s, i) : t = [s EXCEPT ![i] = e]
  <2>1. PICK e \in Altered(s, i) : t = [s EXCEPT ![i] = e]
    BY <1>2
  <2>2. e.id = s[i].id /\ e \in Events
    BY AlteredType
  <2>4. Len(t) = Len(s) /\ \A j \in 1..Len(s) : t[j] = IF j = i THEN e ELSE s[j]
    BY <2>1, <2>2, ExceptSeq
  <2>5. QED
    BY <2>2, <2>4
<1>3. CASE t = Without(s, i)
  <2> DEFINE a == SubSeq(s, 1, i - 1)  b == SubSeq(s, i + 1, Len(s))
  <2>1. a \in Seq(Events) /\ Len(a) = i - 1 /\ \A j \in 1..(i - 1) : a[j] = s[j]
    <3>1. i \in 1..(Len(s) + 1)
      BY <1>1
    <3>2. QED
      BY <3>1, BeforeFacts DEF Before
  <2>2. /\ b \in Seq(Events) /\ Len(b) = Len(s) - i
        /\ \A j \in 1..(Len(s) - i) : b[j] = s[i + j]
    <3>1. i + 1 \in Int /\ Len(s) \in Int /\ \A j \in (i + 1)..Len(s) : s[j] \in Events
      BY <1>1
    <3>2. /\ b \in Seq(Events)
          /\ Len(b) = IF i + 1 <= Len(s) THEN Len(s) - (i + 1) + 1 ELSE 0
          /\ \A j \in 1..(Len(s) - (i + 1) + 1) : b[j] = s[i + 1 + j - 1]
      BY <3>1, SubSeqProperties
    <3> HIDE DEF b
    <3>3. QED
      BY <1>1, <3>2
  <2> HIDE DEF a, b
  <2>3. t = a \o b
    BY <1>3 DEF Without, a, b
  <2>4. /\ Len(t) = Len(a) + Len(b)
        /\ \A j \in 1..(Len(a) + Len(b)) : t[j] = IF j <= Len(a) THEN a[j] ELSE b[j - Len(a)]
    <3>1. a \in Seq(Events) /\ b \in Seq(Events)
      BY <2>1, <2>2
    <3>2. /\ Len(a \o b) = Len(a) + Len(b)
          /\ \A j \in 1..(Len(a) + Len(b)) : (a \o b)[j] = IF j <= Len(a) THEN a[j] ELSE b[j - Len(a)]
      BY <3>1, ConcatProperties
    <3>3. QED
      BY <2>3, <3>2
  <2> DEFINE n == i - 1
  <2>5. n \in Int /\ Len(a) = n /\ i = n + 1 /\ Len(t) = Len(s) - 1
    BY <1>1, <2>1, <2>2, <2>4
  <2> HIDE DEF n
  <2>6. ASSUME NEW j \in 1..Len(t) PROVE \E k \in 1..Len(s) : t[j] = s[k]
    <3>1. j \in Int /\ 1 <= j /\ j <= Len(s) - 1 /\ j \in 1..(Len(a) + Len(b))
      BY <1>1, <2>2, <2>4, <2>5
    <3>2. CASE j <= n
      <4>1. j \in 1..Len(s) /\ j \in 1..n
        BY <1>1, <3>1, <3>2, <2>5
      <4>2. t[j] = s[j]
        BY <2>1, <2>4, <2>5, <3>1, <3>2, <4>1 DEF n
      <4>3. QED
        BY <4>1, <4>2
    <3>3. CASE ~(j <= n)
      <4>1. j - n \in 1..(Len(s) - i) /\ i + (j - n) = j + 1 /\ j + 1 \in 1..Len(s)
        BY <1>1, <2>5, <3>1, <3>3
      <4>2. t[j] = b[j - n]
        BY <2>4, <2>5, <3>1, <3>3
      <4>3. t[j] = s[j + 1]
        BY <2>2, <4>1, <4>2
      <4>4. QED
        BY <4>1, <4>3
    <3>4. QED
      BY <3>2, <3>3
  <2>7. QED
    BY <2>5, <2>6
<1>4. CASE i < Len(s) /\ t = [s EXCEPT ![i] = s[i + 1], ![i + 1] = s[i]]
  <2> DEFINE u == [s EXCEPT ![i] = s[i + 1]]
  <2>1. i + 1 \in 1..Len(s) /\ s[i] \in Events /\ s[i + 1] \in Events
    BY <1>1, <1>4
  <2>2. u \in Seq(Events) /\ Len(u) = Len(s) /\ \A j \in 1..Len(s) : u[j] = IF j = i THEN s[i + 1] ELSE s[j]
    BY <2>1, ExceptSeq
  <2>3. t = [u EXCEPT ![i + 1] = s[i]]
    BY <1>4
  <2> HIDE DEF u
  <2>4. Len(t) = Len(u) /\ \A j \in 1..Len(u) : t[j] = IF j = i + 1 THEN s[i] ELSE u[j]
    BY <2>1, <2>2, <2>3, ExceptSeq
  <2>5. \A j \in 1..Len(t) : t[j] = s[i] \/ t[j] = s[i + 1] \/ t[j] = s[j]
    BY <2>2, <2>4
  <2>6. QED
    BY <2>1, <2>2, <2>4, <2>5
<1>5. QED
  BY <1>2, <1>3, <1>4 DEF ChangedAt

(* What a change from outside does to the log of its chain.                 *)
LEMMA HarmFacts ==
  ASSUME Inv, NEW c \in Chains, Harm(c)
  PROVE  /\ \A d \in Chains \ {c} : log'[d] = log[d]
         /\ \A j \in 1..Len(log'[c]) : \E k \in 1..Len(log[c]) :
                log'[c][j].id = log[c][k].id
<1> DEFINE s == log[c]
<1>1. s \in Seq(Events) /\ log \in [Chains -> Seq(Events)]
  BY DEF Inv, TypeOK
<1>2. /\ \A d \in Chains \ {c} : log'[d] = log[d]
      /\ \E i \in 1..Len(s) : ChangedAt(s, i, log'[c])
  <2>1. PICK i \in 1..Len(log[c]) :
            \/ \E e \in Altered(log[c], i) : log' = [log EXCEPT ![c][i] = e]
            \/ log' = [log EXCEPT ![c] = Without(@, i)]
            \/ i < Len(log[c]) /\ log' = [log EXCEPT ![c][i] = log[c][i + 1], ![c][i + 1] = log[c][i]]
    BY DEF Harm
  <2>2. CASE \E e \in Altered(log[c], i) : log' = [log EXCEPT ![c][i] = e]
    <3>1. PICK e \in Altered(s, i) : log' = [log EXCEPT ![c] = [s EXCEPT ![i] = e]]
      BY <2>2
    <3>2. log'[c] = [s EXCEPT ![i] = e] /\ \A d \in Chains \ {c} : log'[d] = log[d]
      BY <1>1, <3>1
    <3>3. QED
      BY <2>1, <3>2 DEF ChangedAt
  <2>3. CASE log' = [log EXCEPT ![c] = Without(@, i)]
    <3>1. log'[c] = Without(s, i) /\ \A d \in Chains \ {c} : log'[d] = log[d]
      BY <1>1, <2>3
    <3>2. QED
      BY <2>1, <3>1 DEF ChangedAt
  <2>4. CASE i < Len(log[c]) /\ log' = [log EXCEPT ![c][i] = log[c][i + 1], ![c][i + 1] = log[c][i]]
    <3>1. log' = [log EXCEPT ![c] = [s EXCEPT ![i] = s[i + 1], ![i + 1] = s[i]]]
      BY <1>1, <2>4
    <3>2. /\ log'[c] = [s EXCEPT ![i] = s[i + 1], ![i + 1] = s[i]]
          /\ \A d \in Chains \ {c} : log'[d] = log[d]
      BY <1>1, <3>1
    <3>3. QED
      BY <2>1, <2>4, <3>2 DEF ChangedAt
  <2>5. QED
    BY <2>1, <2>2, <2>3, <2>4
<1>3. \A j \in 1..Len(log'[c]) : \E k \in 1..Len(s) :
          log'[c][j].id = s[k].id
  <2> DEFINE t == log'[c]
  <2>1. PICK i \in 1..Len(s) : ChangedAt(s, i, t)
    BY <1>2
  <2>2. s \in Seq(Events)
    BY <1>1
  <2> HIDE DEF s, t
  <2>3. \A j \in 1..Len(t) : \E k \in 1..Len(s) :
            t[j].id = s[k].id
    BY <2>1, <2>2, HarmKeeps
  <2>4. QED
    BY <2>3 DEF t
<1>4. QED
  BY <1>2, <1>3 DEF s

(* No new id appears, and the other chains are as they were.                *)
LEMMA HarmTraced == ASSUME Inv, Traced, NEW c \in Chains, Harm(c) PROVE Traced'
<1>1. UNCHANGED <<created, pc, chain, event, lineage, seal>> /\ harmed' = harmed \cup {c}
  BY DEF Harm
<1>2. /\ \A d \in Chains \ {c} : log'[d] = log[d]
      /\ \A j \in 1..Len(log'[c]) : \E k \in 1..Len(log[c]) :
             log'[c][j].id = log[c][k].id
  BY HarmFacts
<1>3. KnownLogs'
  <2>1. \A j \in 1..Len(log'[c]) : log'[c][j].id \in 1..created
    BY <1>2 DEF Traced, KnownLogs
  <2>2. QED
    BY <1>1, <1>2, <2>1 DEF Traced, KnownLogs
<1>4. RecordedLogs'
  BY <1>1, <1>2 DEF Traced, RecordedLogs
<1>5. KnownJobs' /\ Ancestral'
  BY <1>1 DEF Traced, KnownJobs, Ancestral
<1>6. RecordedJobs'
  <2>1. \A w \in Writers : pc[w] = "writing" => chain[w] \in Chains
    BY DEF Inv, JobsBuilt
  <2>2. QED
    BY <1>1, <1>2, <2>1 DEF Traced, RecordedJobs
<1>7. QED
  BY <1>3, <1>4, <1>5, <1>6 DEF Traced

(* Every step keeps every event traceable.                                  *)
LEMMA NextTraced == Inv /\ Traced /\ [Next]_vars => Traced'
<1>1. SUFFICES ASSUME Inv, Traced, [Next]_vars PROVE Traced'
  OBVIOUS
<1>2. CASE \E w \in Writers, c \in Chains : Build(w, c)
  BY <1>1, <1>2, CreateTraced
<1>3. CASE \E w \in Writers : SelectTail(w)
  <2>1. PICK w \in Writers : SelectTail(w)
    BY <1>3
  <2>2. chain[w] \in Chains
    BY <1>1, <2>1 DEF Inv, JobsBuilt, SelectTail
  <2>3. QED
    BY <1>1, <2>1, <2>2, CreateTraced
<1>4. CASE \E w \in Writers : Write(w) \/ WriteGlued(w) \/ CrashInLine(w)
  BY <1>1, <1>4, WriteTraced
<1>5. CASE \E w \in Writers :
          \/ \E c \in Chains : Record(w, c)
          \/ AppendEvent(w) \/ CheckTail(w) \/ Rejected(w) \/ Crash(w) \/ Answer(w)
  BY <1>1, <1>5, MoveTraced
<1>6. CASE \E c \in Chains : Harm(c)
  BY <1>1, <1>6, HarmTraced
<1>7. CASE UNCHANGED vars
  <2>1. UNCHANGED <<log, created, pc, chain, event, lineage, seal, harmed>>
    BY <1>7 DEF vars, storeVars
  <2>2. QED
    BY <1>1, <2>1 DEF Traced, KnownLogs, KnownJobs, Ancestral, RecordedLogs, RecordedJobs
<1>8. QED
  BY <1>1, <1>2, <1>3, <1>4, <1>5, <1>6, <1>7 DEF Next

(* Every event stays traceable in every reachable state.                    *)
THEOREM Traceable == Spec => []Traced
<1>1. QED
  BY InitTraced, NextTraced, Invariance, PTL DEF Spec

(* A readable chain nobody changed fails verify only for an event JSONB     *)
(* rewrote or a client gave a wrong hash: no race of writers and no crash   *)
(* forks it.                                                                *)
THEOREM NeverForked == Spec => []IntactVerifies
<1>1. QED
  BY TracedVerifies, Invariance, Traceable, PTL

(* The trail is tamper-evident up to its newest known hash: whatever is     *)
(* altered, relinked, rehashed, lost or exchanged in a store, and whatever  *)
(* is recorded afterwards, if verify accepts a chain in which an event has  *)
(* the hash it was recorded with, that event and all before it are as they  *)
(* were recorded.                                                           *)
THEOREM TamperEvident == Spec => []HarmEvident
<1>1. Inv => TypeOK
  BY DEF Inv
<1>2. QED
  BY <1>1, TracedSuffices, Invariance, Traceable, PTL

-----------------------------------------------------------------------------
(* The store implements the trail. *)

HasEvent(w) == pc[w] \in {"built", "checking", "writing", "stored"}

\* Ids are given once.
IdsCreated ==
    /\ \A c \in Chains : acked[c] \subseteq 1..created
    /\ \A w \in Writers : HasEvent(w) => event[w].id \in 1..created

IdsDistinct ==
    \A v, w \in Writers : v # w /\ HasEvent(v) /\ HasEvent(w) => event[v].id # event[w].id

\* What is not stored yet is nowhere, and nobody was told of it.
NotYetStored ==
    \A w \in Writers : pc[w] \in {"built", "checking", "writing"} =>
        \A c \in Chains : ~Holds(c, event[w].id) /\ event[w].id \notin acked[c]

\* The event in a line without its newline is not and will not be acknowledged:
\* its writer is gone.
OpenUntold ==
    open # NoChain =>
        /\ LastOf(log[open]).id \notin acked[open]
        /\ \A w \in Writers : pc[w] = "stored" => event[w].id # LastOf(log[open]).id

Unique == IdsCreated /\ IdsDistinct /\ NotYetStored /\ OpenUntold

(* Nothing has an id yet.                                                   *)
LEMMA InitUnique == Init => Unique
<1>1. SUFFICES ASSUME Init PROVE Unique
  OBVIOUS
<1>2. IdsCreated /\ IdsDistinct
  BY <1>1 DEF Init, IdsCreated, IdsDistinct, HasEvent
<1>3. NotYetStored /\ OpenUntold
  BY <1>1 DEF Init, NotYetStored, OpenUntold
<1>4. QED
  BY <1>2, <1>3 DEF Unique

(* A new event has an id that is nowhere yet.                               *)
LEMMA CreateUnique ==
  ASSUME Inv, Traced, Unique, NEW w \in Writers, NEW c \in Chains,
         Build(w, c) \/ (SelectTail(w) /\ c = chain[w])
  PROVE  Unique'
<1> DEFINE n == created + 1
<1>1. UNCHANGED <<log, open, acked>>
  BY DEF Build, SelectTail, storeVars
<1>2. /\ pc[w] # "stored" /\ pc'[w] \in {"built", "writing"} /\ event'[w].id = n /\ created' = n
      /\ \A v \in Writers \ {w} : pc'[v] = pc[v] /\ event'[v] = event[v]
  <2>1. /\ pc[w] # "stored" /\ pc'[w] \in {"built", "writing"}
        /\ \A v \in Writers \ {w} : pc'[v] = pc[v]
    BY DEF Inv, TypeOK, Build, SelectTail
  <2>2. PICK x \in {0, 2} : NewEvent(w, c, x)
    BY DEF Build, SelectTail
  <2>3. /\ created' = n /\ event'[w] = Event(n, TailOf(log[c]), x)
        /\ \A v \in Writers \ {w} : event'[v] = event[v]
    BY <2>2 DEF Inv, TypeOK, NewEvent
  <2>4. event'[w].id = n
    BY <2>3 DEF Event
  <2>5. QED
    BY <2>1, <2>3, <2>4
<1>3. created \in Nat /\ n \in 1..n /\ n \notin 1..created /\ 1..created \subseteq 1..n
  BY DEF Inv, TypeOK
<1> HIDE DEF n
<1>4. IdsCreated'
  BY <1>1, <1>2, <1>3 DEF Unique, IdsCreated, HasEvent
<1>5. IdsDistinct'
  <2>1. \A v \in Writers \ {w} : HasEvent(v)' => event'[v].id # n
    BY <1>2, <1>3 DEF Unique, IdsCreated, HasEvent
  <2>2. QED
    BY <1>2, <2>1 DEF Unique, IdsDistinct, HasEvent
<1>6. NotYetStored'
  <2>1. \A d \in Chains : n \notin acked[d] /\ \A i \in 1..Len(log[d]) : log[d][i].id # n
    BY <1>3 DEF Unique, IdsCreated, Traced, KnownLogs
  <2>2. QED
    BY <1>1, <1>2, <2>1 DEF Unique, NotYetStored, Holds
<1>7. OpenUntold'
  BY <1>1, <1>2 DEF Unique, OpenUntold
<1>8. QED
  BY <1>4, <1>5, <1>6, <1>7 DEF Unique

(* Steps of a writer that neither create nor store an event.                *)
LEMMA MoveUnique ==
  ASSUME Inv, Unique, NEW w \in Writers,
         \/ \E c \in Chains : Record(w, c)
         \/ AppendEvent(w) \/ CheckTail(w) \/ Rejected(w) \/ Crash(w)
  PROVE  Unique'
<1>1. UNCHANGED <<log, open, created, event, acked>>
  BY DEF Record, AppendEvent, CheckTail, Rejected, Crash, storeVars
<1>2. \A v \in Writers \ {w} : pc'[v] = pc[v]
  BY DEF Inv, TypeOK, Record, AppendEvent, CheckTail, Rejected, Crash
<1>3. \/ pc'[w] \in {"idle", "recording"}
      \/ pc[w] = "built" /\ pc'[w] = "checking"
      \/ pc[w] = "checking" /\ pc'[w] = "writing"
  BY DEF Inv, TypeOK, Record, AppendEvent, CheckTail, Rejected, Crash
<1>4. IdsCreated' /\ IdsDistinct'
  BY <1>1, <1>2, <1>3 DEF Unique, IdsCreated, IdsDistinct, HasEvent
<1>5. NotYetStored'
  BY <1>1, <1>2, <1>3 DEF Unique, NotYetStored, Holds
<1>6. OpenUntold'
  BY <1>1, <1>2, <1>3 DEF Unique, OpenUntold
<1>7. QED
  BY <1>4, <1>5, <1>6 DEF Unique

(* What is acknowledged is the event of its writer and of no other.         *)
LEMMA AnswerUnique == ASSUME Inv, Unique, NEW w \in Writers, Answer(w) PROVE Unique'
<1>1. /\ UNCHANGED <<log, open, created, event>>
      /\ pc[w] = "stored" /\ pc'[w] = "idle" /\ chain[w] \in Chains
      /\ \A v \in Writers \ {w} : pc'[v] = pc[v]
  BY DEF Inv, TypeOK, JobsBuilt, Answer, storeVars
<1>2. \A c \in Chains : \A id \in acked'[c] : id \in acked[c] \/ id = event[w].id
  BY DEF Inv, TypeOK, Answer
<1>3. IdsCreated' /\ IdsDistinct'
  <2>1. event[w].id \in 1..created
    BY <1>1 DEF Unique, IdsCreated, HasEvent
  <2>2. \A c \in Chains : acked'[c] \subseteq 1..created
    BY <1>2, <2>1 DEF Unique, IdsCreated
  <2>3. QED
    BY <1>1, <2>2 DEF Unique, IdsCreated, IdsDistinct, HasEvent
<1>4. NotYetStored'
  <2>1. \A v \in Writers : pc'[v] \in {"built", "checking", "writing"} =>
            pc[v] = pc'[v] /\ event[v].id # event[w].id
    BY <1>1 DEF Unique, IdsDistinct, HasEvent
  <2>2. ASSUME NEW v \in Writers, pc'[v] \in {"built", "checking", "writing"}, NEW c \in Chains
        PROVE  event[v].id \notin acked'[c] /\ \A i \in 1..Len(log[c]) : log[c][i].id # event[v].id
    <3>1. event[v].id \notin acked[c] /\ \A i \in 1..Len(log[c]) : log[c][i].id # event[v].id
      BY <2>1, <2>2 DEF Unique, NotYetStored, Holds
    <3>2. QED
      BY <1>2, <2>1, <2>2, <3>1
  <2>3. QED
    BY <1>1, <2>2 DEF NotYetStored, Holds
<1>5. OpenUntold'
  <2>1. open # NoChain => open \in Chains
    BY DEF Inv, TypeOK
  <2>2. QED
    BY <1>1, <1>2, <2>1 DEF Unique, OpenUntold
<1>6. QED
  BY <1>3, <1>4, <1>5 DEF Unique

(* Storing an event makes it the last of its chain, and it is new there.    *)
LEMMA StoreUnique ==
  ASSUME Inv, Unique, NEW w \in Writers, pc[w] = "writing", Store(w),
         UNCHANGED <<created, event, acked>>,
         pc'[w] \in {"idle", "stored"}, \A v \in Writers \ {w} : pc'[v] = pc[v]
  PROVE  /\ NotYetStored'
         /\ LastOf(log'[chain[w]]).id = event[w].id
<1>1. /\ chain[w] \in Chains /\ log[chain[w]] \in Seq(Events)
      /\ Stored(event[w]) \in Events /\ Stored(event[w]).id = event[w].id
  BY StoredType DEF Inv, TypeOK, JobsBuilt
<1>2. /\ \A c \in Chains \ {chain[w]} : log'[c] = log[c]
      /\ log'[chain[w]] = Append(log[chain[w]], Stored(event[w]))
  BY <1>1 DEF Inv, TypeOK, Store
<1> DEFINE s == log[chain[w]]  t == Append(s, Stored(event[w]))
<1>3. /\ Len(s) \in Nat /\ Len(t) = Len(s) + 1
      /\ \A i \in 1..Len(s) : t[i] = s[i]
      /\ t[Len(s) + 1] = Stored(event[w])
  BY <1>1, AppendProperties, LenProperties
<1> HIDE DEF s, t
<1>4. /\ LastOf(t).id = event[w].id
      /\ \A i \in 1..Len(t) : t[i].id = event[w].id \/ (i \in 1..Len(s) /\ t[i] = s[i])
  BY <1>1, <1>3 DEF LastOf
<1>5. log'[chain[w]] = t /\ log[chain[w]] = s
  BY <1>2 DEF s, t
<1>6. ASSUME NEW v \in Writers, pc'[v] \in {"built", "checking", "writing"}, NEW c \in Chains
      PROVE  /\ event[v].id \notin acked[c]
             /\ \A i \in 1..Len(log'[c]) : log'[c][i].id # event[v].id
  <2>1. pc[v] = pc'[v] /\ event[v].id # event[w].id
    BY <1>6 DEF Unique, IdsDistinct, HasEvent
  <2>2. event[v].id \notin acked[c] /\ \A i \in 1..Len(log[c]) : log[c][i].id # event[v].id
    BY <1>6, <2>1 DEF Unique, NotYetStored, Holds
  <2>3. CASE c = chain[w]
    BY <1>4, <1>5, <2>1, <2>2, <2>3
  <2>4. CASE c # chain[w]
    BY <1>2, <2>2, <2>4
  <2>5. QED
    BY <2>3, <2>4
<1>7. QED
  BY <1>4, <1>5, <1>6 DEF NotYetStored, Holds

(* A log that has lost its last event holds nothing new.                    *)
LEMMA GlueUnique ==
  ASSUME Inv, Unique, NEW w \in Writers, pc[w] = "writing", open # NoChain, Glue(open),
         UNCHANGED <<created, event, acked>>,
         pc'[w] \in {"idle", "stored"}, \A v \in Writers \ {w} : pc'[v] = pc[v]
  PROVE  NotYetStored'
<1> DEFINE s == log[open]  t == Before(s, Len(s))
<1>1. open \in Chains /\ s \in Seq(Events) /\ s # <<>>
  BY DEF Inv, TypeOK
<1>2. \A c \in Chains : log'[c] = IF c = open THEN t ELSE log[c]
  BY <1>1 DEF Inv, TypeOK, Glue, Before
<1>3. Len(s) \in Nat \ {0} /\ Len(s) \in 1..(Len(s) + 1)
  BY <1>1, EmptySeq
<1>4. Len(t) = Len(s) - 1 /\ \A i \in 1..(Len(s) - 1) : t[i] = s[i]
  BY <1>1, <1>3, BeforeFacts
<1> HIDE DEF t, s
<1>5. \A i \in 1..Len(t) : i \in 1..Len(s) /\ t[i] = s[i]
  BY <1>3, <1>4
<1>6. ASSUME NEW c \in Chains, NEW i \in 1..Len(log'[c])
      PROVE  i \in 1..Len(log[c]) /\ log'[c][i] = log[c][i]
  <2>1. CASE c = open
    BY <1>2, <1>5, <1>6, <2>1 DEF s
  <2>2. CASE c # open
    BY <1>2, <1>6, <2>2
  <2>3. QED
    BY <2>1, <2>2
<1>7. QED
  BY <1>6 DEF Unique, NotYetStored, Holds

(* The steps of a writer that end in the file or the database.              *)
LEMMA WriteUnique ==
  ASSUME Inv, Unique, NEW w \in Writers, Write(w) \/ WriteGlued(w) \/ CrashInLine(w)
  PROVE  Unique'
<1>1. /\ UNCHANGED <<created, event, acked>>
      /\ pc[w] = "writing" /\ pc'[w] \in {"idle", "stored"} /\ chain[w] \in Chains
      /\ \A v \in Writers \ {w} : pc'[v] = pc[v]
  BY DEF Inv, TypeOK, JobsBuilt, Write, WriteGlued, CrashInLine
<1>2. IdsCreated' /\ IdsDistinct'
  BY <1>1 DEF Unique, IdsCreated, IdsDistinct, HasEvent
<1>3. CASE Write(w)
  BY <1>1, <1>2, <1>3, StoreUnique DEF Write, Unique, OpenUntold
<1>4. CASE WriteGlued(w)
  BY <1>1, <1>2, <1>4, GlueUnique DEF WriteGlued, Glue, Unique, OpenUntold
<1>5. CASE CrashInLine(w)
  <2>1. CASE open # NoChain /\ Glue(open)
    BY <1>1, <1>2, <2>1, GlueUnique DEF Glue, Unique, OpenUntold
  <2>2. CASE open = NoChain /\ torn' = TRUE /\ UNCHANGED <<log, open>>
    <3>1. NotYetStored'
      BY <1>1, <2>2 DEF Unique, NotYetStored, Holds
    <3>2. QED
      BY <1>2, <2>2, <3>1 DEF Unique, OpenUntold
  <2>3. CASE open = NoChain /\ open' = chain[w] /\ Store(w) /\ UNCHANGED torn
    <3>1. NotYetStored' /\ LastOf(log'[chain[w]]).id = event[w].id
      BY <1>1, <2>3, StoreUnique
    <3>2. event[w].id \notin acked[chain[w]]
      BY <1>1 DEF Unique, NotYetStored
    <3>3. pc'[w] = "idle"
      BY <1>5 DEF Inv, TypeOK, CrashInLine
    <3>4. \A v \in Writers : pc'[v] = "stored" => event[v].id # event[w].id
      BY <1>1, <3>3 DEF Unique, IdsDistinct, HasEvent
    <3>5. OpenUntold'
      BY <1>1, <2>3, <3>1, <3>2, <3>4 DEF OpenUntold
    <3>6. QED
      BY <1>2, <3>1, <3>5 DEF Unique
  <2>4. QED
    BY <1>5, <2>1, <2>2, <2>3 DEF CrashInLine
<1>6. QED
  BY <1>3, <1>4, <1>5

(* A change from outside brings no new id.                                  *)
LEMMA HarmUnique == ASSUME Inv, Unique, NEW c \in Chains, Harm(c) PROVE Unique'
<1>1. UNCHANGED <<open, created, pc, event, acked>> /\ open = NoChain
  BY DEF Harm
<1>2. \A d \in Chains : \A j \in 1..Len(log'[d]) : \E k \in 1..Len(log[d]) : log'[d][j].id = log[d][k].id
  BY HarmFacts
<1>3. IdsCreated' /\ IdsDistinct' /\ OpenUntold'
  BY <1>1 DEF Unique, IdsCreated, IdsDistinct, HasEvent, OpenUntold
<1>4. NotYetStored'
  BY <1>1, <1>2 DEF Unique, NotYetStored, Holds
<1>5. QED
  BY <1>3, <1>4 DEF Unique

(* Every step keeps ids unique.                                             *)
LEMMA NextUnique == Inv /\ Traced /\ Unique /\ [Next]_vars => Unique'
<1>1. SUFFICES ASSUME Inv, Traced, Unique, [Next]_vars PROVE Unique'
  OBVIOUS
<1>2. CASE \E w \in Writers, c \in Chains : Build(w, c)
  BY <1>1, <1>2, CreateUnique
<1>3. CASE \E w \in Writers : SelectTail(w)
  <2>1. PICK w \in Writers : SelectTail(w)
    BY <1>3
  <2>2. chain[w] \in Chains
    BY <1>1, <2>1 DEF Inv, JobsBuilt, SelectTail
  <2>3. QED
    BY <1>1, <2>1, <2>2, CreateUnique
<1>4. CASE \E w \in Writers : Write(w) \/ WriteGlued(w) \/ CrashInLine(w) \/ Answer(w)
  BY <1>1, <1>4, WriteUnique, AnswerUnique
<1>5. CASE \E w \in Writers :
          \/ \E c \in Chains : Record(w, c)
          \/ AppendEvent(w) \/ CheckTail(w) \/ Rejected(w) \/ Crash(w)
  BY <1>1, <1>5, MoveUnique
<1>6. CASE \E c \in Chains : Harm(c)
  BY <1>1, <1>6, HarmUnique
<1>7. CASE UNCHANGED vars
  <2>1. UNCHANGED <<log, open, created, pc, event, acked>>
    BY <1>7 DEF vars, storeVars
  <2>2. IdsCreated' /\ IdsDistinct'
    BY <1>1, <2>1 DEF Unique, IdsCreated, IdsDistinct, HasEvent
  <2>3. NotYetStored' /\ OpenUntold'
    BY <1>1, <2>1 DEF Unique, NotYetStored, OpenUntold, Holds
  <2>4. QED
    BY <2>2, <2>3 DEF Unique
<1>8. QED
  BY <1>1, <1>2, <1>3, <1>4, <1>5, <1>6, <1>7 DEF Next

(* The ids of a log with one more event.                                    *)
LEMMA IdsAppend ==
  ASSUME NEW s \in Seq(Events), NEW e \in Events
  PROVE  IdsOf(Append(s, e)) = Append(IdsOf(s), e.id)
<1> DEFINE t == Append(s, e)  h == IdsOf(s)
<1>1. /\ t \in Seq(Events) /\ Len(t) = Len(s) + 1 /\ Len(s) \in Nat
      /\ \A i \in 1..Len(s) : t[i] = s[i]
      /\ t[Len(s) + 1] = e
  BY AppendProperties, LenProperties
<1>2. h \in Seq(Nat) /\ Len(h) = Len(s) /\ \A i \in 1..Len(s) : h[i] = s[i].id
  BY IdsFacts
<1>3. e.id \in Nat
  BY DEF Events
<1> HIDE DEF t, h
<1>4. IdsOf(t) \in Seq(Nat) /\ Len(IdsOf(t)) = Len(t) /\ \A i \in 1..Len(t) : IdsOf(t)[i] = t[i].id
  BY <1>1, IdsFacts
<1>5. /\ Append(h, e.id) \in Seq(Nat) /\ Len(Append(h, e.id)) = Len(h) + 1
      /\ \A i \in 1..Len(h) : Append(h, e.id)[i] = h[i]
      /\ Append(h, e.id)[Len(h) + 1] = e.id
  BY <1>2, <1>3, AppendProperties
<1>6. \A i \in 1..Len(IdsOf(t)) : IdsOf(t)[i] = Append(h, e.id)[i]
  BY <1>1, <1>2, <1>4, <1>5
<1>7. IdsOf(t) = Append(h, e.id)
  <2>1. Len(IdsOf(t)) = Len(Append(h, e.id))
    BY <1>1, <1>2, <1>4, <1>5
  <2>2. QED
    BY <1>4, <1>5, <1>6, <2>1, SeqEqual
<1>8. QED
  BY <1>7 DEF t, h

\* What a reader of the trail sees.
View == [c \in Chains |-> IF c \in harmed THEN <<>> ELSE IdsOf(log[c])]

(* A step that leaves the readable logs alone is a stutter of the trail.    *)
LEMMA SameView ==
  ASSUME UNCHANGED harmed, \A c \in Chains \ harmed : log'[c] = log[c]
  PROVE  View' = View
  BY DEF View

(* Storing an event adds it to its trail, or to a chain of which nothing is *)
(* promised.                                                                *)
LEMMA StoreAdds ==
  ASSUME Inv, Unique, NEW w \in Writers, pc[w] = "writing", Store(w),
         UNCHANGED <<acked, torn, harmed>>
  PROVE  [Trail!Next]_<<View, acked, torn, harmed>>
<1>1. /\ chain[w] \in Chains /\ log[chain[w]] \in Seq(Events)
      /\ Stored(event[w]) \in Events /\ Stored(event[w]).id = event[w].id
  BY StoredType DEF Inv, TypeOK, JobsBuilt
<1>2. /\ \A c \in Chains \ {chain[w]} : log'[c] = log[c]
      /\ log'[chain[w]] = Append(log[chain[w]], Stored(event[w]))
  BY <1>1 DEF Inv, TypeOK, Store
<1>3. CASE chain[w] \in harmed
  BY <1>2, <1>3, SameView
<1>4. CASE chain[w] \notin harmed
  <2> DEFINE c == chain[w]  id == event[w].id
  <2>1. id \in Ids /\ ~torn
    BY AuditAssumption DEF Inv, TypeOK, TornStops, Unique, IdsCreated, HasEvent, Ids
  <2>2. \A d \in Chains : ~Trail!Contains(View[d], id)
    <3>1. ASSUME NEW d \in Chains, NEW i \in 1..Len(View[d]) PROVE View[d][i] # id
      <4>1. CASE d \in harmed
        BY <3>1, <4>1 DEF View
      <4>2. CASE d \notin harmed
        <5>1. View[d] = IdsOf(log[d]) /\ log[d] \in Seq(Events)
          BY <4>2 DEF View, Inv, TypeOK
        <5>2. Len(View[d]) = Len(log[d]) /\ \A k \in 1..Len(log[d]) : View[d][k] = log[d][k].id
          BY <5>1, IdsFacts
        <5>3. \A k \in 1..Len(log[d]) : log[d][k].id # id
          BY DEF Unique, NotYetStored, Holds
        <5>4. QED
          BY <3>1, <5>2, <5>3
      <4>3. QED
        BY <4>1, <4>2
    <3>2. QED
      BY <3>1 DEF Trail!Contains
  <2>3. View' = [View EXCEPT ![c] = Append(View[c], id)]
    <3>1. IdsOf(log'[c]) = Append(IdsOf(log[c]), id)
      BY <1>1, <1>2, IdsAppend
    <3>2. QED
      BY <1>2, <1>4, <3>1 DEF View
  <2>4. Trail!Add(c, id)
    BY <1>4, <2>1, <2>2, <2>3 DEF Trail!Add, View
  <2>5. PICK d \in Chains, k \in Ids : d = c /\ k = id
    BY <1>1, <2>1
  <2>6. Trail!Add(d, k)
    BY <2>4, <2>5 DEF Trail!Add
  <2>7. QED
    BY <2>5, <2>6 DEF Trail!Next
<1>5. QED
  BY <1>3, <1>4

(* A line written on an unterminated one breaks the store, and the event it *)
(* loses was not acknowledged.                                              *)
LEMMA GlueBreaks ==
  ASSUME Inv, Unique, NEW w \in Writers, pc[w] = "writing", open # NoChain, Glue(open),
         UNCHANGED <<acked, harmed>>
  PROVE  [Trail!Next]_<<View, acked, torn, harmed>>
<1> DEFINE s == log[open]  n == Len(s)
<1>1. open \in Chains /\ s \in Seq(Events) /\ s # <<>> /\ ~torn /\ torn' = TRUE
  BY DEF Inv, TypeOK, TornStops, Glue
<1>2. \A c \in Chains : log'[c] = IF c = open THEN Before(s, n) ELSE log[c]
  BY <1>1 DEF Inv, TypeOK, Glue, Before
<1>3. CASE open \in harmed
  <2>1. View' = View
    BY <1>2, <1>3, SameView
  <2>2. Trail!Break
    BY <1>1, <2>1 DEF Trail!Break, View
  <2>3. QED
    BY <2>2 DEF Trail!Next
<1>4. CASE open \notin harmed
  <2>1. n \in Nat \ {0} /\ n \in 1..n /\ n \in 1..(n + 1)
    BY <1>1, EmptySeq
  <2>2. View[open] = IdsOf(s)
    BY <1>1, <1>4 DEF View
  <2>3. Len(View[open]) = n /\ View[open][n] = s[n].id
    BY <1>1, <2>1, <2>2, IdsFacts
  <2>4. View[open] # <<>>
    <3>1. Len(<<>>) = 0
      BY EmptySeq
    <3>2. QED
      BY <2>1, <2>3, <3>1
  <2>5. View[open][Len(View[open])] \notin acked[open]
    BY <2>3 DEF Unique, OpenUntold, LastOf
  <2>6. IdsOf(Before(s, n)) = SubSeq(View[open], 1, Len(View[open]) - 1)
    <3>1. Before(IdsOf(s), n) = IdsOf(Before(s, n))
      BY <1>1, <2>1, IdsBefore
    <3>2. QED
      BY <2>2, <2>3, <3>1 DEF Before
  <2>7. View' = [View EXCEPT ![open] = SubSeq(View[open], 1, Len(View[open]) - 1)]
    BY <1>2, <1>4, <2>6 DEF View
  <2>8. Trail!Lose(open)
    BY <2>4, <2>5, <2>7 DEF Trail!Lose, View
  <2>9. \E c \in Chains : Trail!Lose(c)
    <3>1. PICK c \in Chains : c = open
      BY <1>1
    <3>2. Trail!Lose(c)
      BY <2>8, <3>1 DEF Trail!Lose
    <3>3. QED
      BY <3>2
  <2>10. Trail!Break
    BY <1>1, <2>9 DEF Trail!Break
  <2>11. QED
    BY <2>10 DEF Trail!Next
<1>5. QED
  BY <1>3, <1>4

(* Every step of the store is a step of the trail.                          *)
LEMMA TrailStep ==
  ASSUME Inv, Unique, [Next]_vars
  PROVE  [Trail!Next]_<<View, acked, torn, harmed>>
<1> DEFINE Goal == [Trail!Next]_<<View, acked, torn, harmed>>
<1>1. ASSUME UNCHANGED <<log, acked, torn, harmed>> PROVE Goal
  BY <1>1, SameView
<1> HIDE DEF Goal
<1>2. ASSUME NEW w \in Writers,
             \/ \E c \in Chains : Record(w, c) \/ Build(w, c)
             \/ SelectTail(w) \/ AppendEvent(w) \/ CheckTail(w) \/ Rejected(w) \/ Crash(w)
      PROVE  Goal
  BY <1>1, <1>2 DEF Record, Build, SelectTail, AppendEvent, CheckTail, Rejected, Crash, storeVars
<1>3. ASSUME NEW w \in Writers, Write(w) PROVE Goal
  BY <1>3, StoreAdds DEF Write, Goal
<1>4. ASSUME NEW w \in Writers, WriteGlued(w) PROVE Goal
  BY <1>4, GlueBreaks DEF WriteGlued, Goal
<1>5. ASSUME NEW w \in Writers, CrashInLine(w) PROVE Goal
  <2>1. pc[w] = "writing" /\ UNCHANGED <<acked, harmed>>
    BY <1>5 DEF CrashInLine
  <2>2. CASE open # NoChain /\ Glue(open)
    BY <2>1, <2>2, GlueBreaks DEF Goal
  <2>3. CASE open = NoChain /\ torn' = TRUE /\ UNCHANGED <<log, open>>
    <3>1. View' = View /\ ~torn
      BY <2>1, <2>3, SameView DEF Inv, TornStops
    <3>2. Trail!Break
      BY <2>1, <2>3, <3>1 DEF Trail!Break, View
    <3>3. QED
      BY <3>2 DEF Trail!Next, Goal
  <2>4. CASE open = NoChain /\ open' = chain[w] /\ Store(w) /\ UNCHANGED torn
    BY <2>1, <2>4, StoreAdds DEF Goal
  <2>5. QED
    BY <1>5, <2>2, <2>3, <2>4 DEF CrashInLine
<1>6. ASSUME NEW w \in Writers, Answer(w) PROVE Goal
  <2> DEFINE c == chain[w]  id == event[w].id
  <2>1. /\ pc[w] = "stored" /\ c \in Chains /\ UNCHANGED <<log, torn, harmed>>
        /\ acked' = [acked EXCEPT ![c] = @ \cup {id}]
    BY <1>6 DEF Answer, storeVars, Inv, JobsBuilt
  <2>2. id \in Ids
    BY <2>1, AuditAssumption DEF Inv, TypeOK, Unique, IdsCreated, HasEvent, Ids
  <2>3. View' = View
    BY <2>1, SameView
  <2>4. Trail!Contains(View[c], id) \/ torn \/ c \in harmed
    <3>1. SUFFICES ASSUME ~torn, c \notin harmed PROVE Trail!Contains(View[c], id)
      OBVIOUS
    <3>2. PICK i \in 1..Len(log[c]) : log[c][i].id = id
      BY <2>1, <3>1 DEF Inv, Kept, Holds
    <3>3. View[c] = IdsOf(log[c]) /\ log[c] \in Seq(Events)
      BY <2>1, <3>1 DEF View, Inv, TypeOK
    <3>4. i \in 1..Len(View[c]) /\ View[c][i] = id
      BY <3>2, <3>3, IdsFacts
    <3>5. QED
      BY <3>4 DEF Trail!Contains
  <2>5. Trail!Tell(c, id)
    BY <2>1, <2>3, <2>4 DEF Trail!Tell, View
  <2>6. QED
    BY <2>1, <2>2, <2>5 DEF Trail!Next, Goal
<1>7. ASSUME NEW c \in Chains, Harm(c) PROVE Goal
  <2>1. UNCHANGED <<torn, acked>> /\ harmed' = harmed \cup {c}
    BY <1>7 DEF Harm
  <2>2. \A d \in Chains \ {c} : log'[d] = log[d]
    BY <1>7, HarmFacts
  <2>3. View' = [View EXCEPT ![c] = <<>>]
    BY <2>1, <2>2 DEF View
  <2>4. Trail!Change(c)
    BY <2>1, <2>3 DEF Trail!Change, View
  <2>5. QED
    BY <2>4 DEF Trail!Next, Goal
<1>8. ASSUME UNCHANGED vars PROVE Goal
  BY <1>1, <1>8 DEF vars, storeVars
<1>9. Goal
  BY <1>2, <1>3, <1>4, <1>5, <1>6, <1>7, <1>8 DEF Next
<1>10. QED
  BY <1>9 DEF Goal

(* Whatever the store, its writers and its crashes, it keeps an append-only *)
(* trail in which no event occurs twice and none is lost that was           *)
(* acknowledged while the store could be read.                              *)
THEOREM KeepsTrail == Spec => TrailSpec
<1>1. Init => Trail!Init
  <2>1. IdsOf(<<>>) = <<>>
    BY IdsFacts, EmptySeq
  <2>2. QED
    BY <2>1 DEF Init, Trail!Init
<1>2. Spec => []Traced
  BY InitTraced, NextTraced, Invariance, PTL DEF Spec
<1>3. Spec => []Unique
  BY <1>2, InitUnique, NextUnique, Invariance, PTL DEF Spec
<1>4. Inv /\ Unique /\ [Next]_vars => [Trail!Next]_<<View, acked, torn, harmed>>
  BY TrailStep
<1>5. QED
  BY <1>1, <1>3, <1>4, Invariance, PTL DEF Spec, TrailSpec, Trail!Spec, Trail!vars, View
=============================================================================
