---------------------------- MODULE OutboxProofs ----------------------------
(* The outbox's safety and its refinement of the delivery ledger, for any   *)
(* submissions, workers, leases, batch sizes and retry limits.              *)
EXTENDS Outbox, FiniteSetTheorems, TLAPS

\* A row's status says whether the row exists.
RowsStored ==
    \A e \in EventIds : status[e] # "absent" <=> \E r \in rows : r.id = e

\* A worker settles a stored event of its batch: as delivered one it handed
\* over, as a dead letter one whose attempts were used up in its snapshot.
WorkInHand ==
    \A w \in Workers :
        /\ \A e \in batch[w] : status[e] # "absent"
        /\ phase[w] \in {"retry", "ok", "failed", "moving"} => cur[w] \in batch[w]
        /\ phase[w] = "ok" => cur[w] \in received
        /\ phase[w] = "moving" => Backend = "sqlite" /\ Exhausted(seenAttempts[w][cur[w]])

\* A snapshot of attempts is at most as high as the row.
SnapshotsLag ==
    \A w \in Workers, e \in EventIds : seenAttempts[w][e] <= attempts[e]

\* A delivered event stays so; only SQLite lets it become a dead letter.
DeliveredKept ==
    \A e \in deliveredAt :
        status[e] = "delivered" \/ (Backend = "sqlite" /\ status[e] = "dead_letter")

Inv ==
    /\ TypeOK
    /\ RowsStored
    /\ WorkInHand
    /\ SnapshotsLag
    /\ DeliveredWasReceived
    /\ DeliveredKept
    /\ DeadLettersAgree

\* A snapshot lease that has not run out is the lease in the store, unless a
\* late worker has taken the event away for good.
HoldsLease ==
    \A w \in Workers : \A e \in batch[w] :
        seenLease[w][e] > 0 =>
            \/ /\ status[e] = "leased"
               /\ leaseOwner[e] = WorkerId[w]
               /\ leaseLeft[e] = seenLease[w][e]
            \/ status[e] = "dead_letter"

(* Event ids are positive numbers, so no event is NoEvent. *)
LEMMA IdsAreNumbers == EventIds \subseteq Nat \ {0}
  BY SubmissionsAssumption DEF EventIds

(* The initial state satisfies the inductive invariant. *)
LEMMA InitInv == Init => Inv /\ HoldsLease
<1>1. SUFFICES ASSUME Init PROVE Inv /\ HoldsLease
  OBVIOUS
<1>2. TypeOK
  BY <1>1, BoundsAssumption DEF Init, TypeOK, Statuses, Phases
<1>3. RowsStored /\ WorkInHand /\ SnapshotsLag /\ DeliveredWasReceived /\ DeliveredKept /\ HoldsLease
  BY <1>1 DEF Init, RowsStored, WorkInHand, SnapshotsLag, DeliveredWasReceived, DeliveredKept,
              HoldsLease
<1>4. DeadLettersAgree
  BY <1>1 DEF Init, DeadLettersAgree
<1>5. QED
  BY <1>2, <1>3, <1>4 DEF Inv

-----------------------------------------------------------------------------
(* enqueue inserts a row only for an id that has none.                      *)
LEMMA EnqueueInv ==
  ASSUME NEW m \in Submissions, Inv, Enqueue(m)
  PROVE  Inv'
<1>1. m.id \in EventIds
  BY DEF EventIds
<1>2. status' = status \/ (status[m.id] = "absent" /\ status' = [status EXCEPT ![m.id] = "pending"])
  BY <1>1 DEF Inv, TypeOK, RowsStored, Enqueue
<1>3. TypeOK'
  <2>1. /\ rows' \subseteq Submissions
        /\ status' \in [EventIds -> Statuses]
        /\ outcome' \in [Submissions -> {"none", "accepted", "refused"}]
    <3>1. /\ rows \subseteq Submissions
          /\ status \in [EventIds -> Statuses]
          /\ outcome \in [Submissions -> {"none", "accepted", "refused"}]
      BY DEF Inv, TypeOK
    <3>2. QED
      BY <1>1, <3>1 DEF Statuses, Enqueue
  <2>2. \A e \in EventIds : status'[e] # "leased" => leaseOwner[e] = NoOwner /\ leaseLeft[e] = 0
    BY <1>1, <1>2 DEF Inv, TypeOK
  <2>3. UNCHANGED <<attempts, availableIn, leaseOwner, leaseLeft, deliveredAt, deadLetters, phase,
                    batch, cur, tries, seenAttempts, seenLease, received, crashes>>
    BY DEF Enqueue, workerVars
  <2>4. QED
    BY <2>1, <2>2, <2>3 DEF Inv, TypeOK
<1>4. RowsStored'
  BY <1>1 DEF Inv, TypeOK, RowsStored, Enqueue
<1>5. WorkInHand' /\ SnapshotsLag'
  BY <1>1, <1>2 DEF Inv, TypeOK, WorkInHand, SnapshotsLag, Enqueue, workerVars, Exhausted
<1>6. DeliveredWasReceived' /\ DeliveredKept' /\ DeadLettersAgree'
  BY <1>1, <1>2 DEF Inv, TypeOK, DeliveredWasReceived, DeliveredKept, DeadLettersAgree, Enqueue
<1>7. QED
  BY <1>3, <1>4, <1>5, <1>6 DEF Inv

(* claim leases due rows only, so it leaves settled ones alone.             *)
LEMMA ClaimInv ==
  ASSUME NEW w \in Workers, NEW d, Inv, Claim(w, d)
  PROVE  Inv'
<1> DEFINE S == Oldest(Candidates(d))
<1>1. S \subseteq EventIds /\ \A e \in S : status[e] \in {"pending", "leased"}
  BY DEF Oldest, Candidates, Claimable
<1>2. /\ status' = [e \in EventIds |-> IF e \in S THEN "leased" ELSE status[e]]
      /\ attempts' = [e \in EventIds |-> IF e \in S THEN Bump(attempts[e]) ELSE attempts[e]]
      /\ leaseOwner' = [e \in EventIds |-> IF e \in S THEN WorkerId[w] ELSE leaseOwner[e]]
      /\ leaseLeft' = [e \in EventIds |-> IF e \in S THEN LeaseSeconds + 1 ELSE leaseLeft[e]]
      /\ batch' = [batch EXCEPT ![w] = S]
      /\ seenAttempts' = [seenAttempts EXCEPT ![w] = attempts']
      /\ seenLease' = [seenLease EXCEPT ![w] = [e \in EventIds |->
                            IF e \in S THEN LeaseSeconds + 1 ELSE 0]]
      /\ phase' = [phase EXCEPT ![w] = "loop"]
      /\ UNCHANGED <<rows, availableIn, deliveredAt, deadLetters, outcome, cur, tries, received,
                     crashes>>
  BY DEF Claim
<1> HIDE DEF S
<1>3. /\ attempts' \in [EventIds -> 0..MaxDeliveryAttempts]
      /\ \A e \in EventIds : attempts'[e] >= attempts[e]
  BY <1>2, BoundsAssumption DEF Inv, TypeOK, Bump
<1>4. TypeOK'
  <2>1. status' \in [EventIds -> Statuses] /\ phase' \in [Workers -> Phases]
    BY <1>2 DEF Inv, TypeOK, Statuses, Phases
  <2>2. /\ leaseLeft' \in [EventIds -> 0..(LeaseSeconds + 1)]
        /\ seenLease' \in [Workers -> [EventIds -> 0..(LeaseSeconds + 1)]]
    BY <1>2, BoundsAssumption DEF Inv, TypeOK
  <2>3. /\ leaseOwner' \in [EventIds -> {WorkerId[v] : v \in Workers} \cup {NoOwner}]
        /\ batch' \in [Workers -> SUBSET EventIds]
        /\ seenAttempts' \in [Workers -> [EventIds -> 0..MaxDeliveryAttempts]]
    BY <1>1, <1>2, <1>3 DEF Inv, TypeOK
  <2>4. \A e \in EventIds : status'[e] # "leased" => leaseOwner'[e] = NoOwner /\ leaseLeft'[e] = 0
    BY <1>2 DEF Inv, TypeOK
  <2>5. QED
    BY <1>2, <1>3, <2>1, <2>2, <2>3, <2>4 DEF Inv, TypeOK
<1>5. RowsStored'
  BY <1>1, <1>2 DEF Inv, TypeOK, RowsStored
<1>6. WorkInHand'
  BY <1>1, <1>2 DEF Inv, TypeOK, WorkInHand, Exhausted
<1>7. SnapshotsLag'
  BY <1>2, <1>3 DEF Inv, TypeOK, SnapshotsLag
<1>8. DeliveredWasReceived' /\ DeliveredKept'
  BY <1>1, <1>2 DEF Inv, TypeOK, DeliveredWasReceived, DeliveredKept
<1>9. DeadLettersAgree'
  BY <1>1, <1>2, <1>3, BoundsAssumption DEF Inv, TypeOK, DeadLettersAgree
<1>10. QED
  BY <1>4, <1>5, <1>6, <1>7, <1>8, <1>9 DEF Inv

(* A delivery attempt does not touch the store.                             *)
LEMMA DeliverInv ==
  ASSUME NEW w \in Workers, NEW e \in EventIds, Inv,
         DeliverOk(w, e) \/ DeliverRetry(w, e) \/ DeliverFail(w, e)
  PROVE  Inv'
<1>1. /\ e \in batch[w]
      /\ UNCHANGED <<storeVars, outcome, batch, seenAttempts, seenLease, crashes>>
      /\ cur' = [cur EXCEPT ![w] = e]
      /\ \E p \in {"ok", "retry", "failed"} :
            phase' = [phase EXCEPT ![w] = p] /\ (p = "ok" => e \in received')
      /\ received' \in {received, received \cup {e}}
      /\ tries' \in [Workers -> 0..(RetryAttempts - 1)]
  <2>1. tries \in [Workers -> 0..(RetryAttempts - 1)] /\ RetryAttempts \in Nat
    BY BoundsAssumption DEF Inv, TypeOK
  <2>2. CASE DeliverOk(w, e)
    BY <2>1, <2>2 DEF DeliverOk, Delivering
  <2>3. CASE DeliverRetry(w, e)
    BY <2>1, <2>3 DEF DeliverRetry, Delivering
  <2>4. CASE DeliverFail(w, e)
    BY <2>1, <2>4 DEF DeliverFail, Delivering
  <2>5. QED
    BY <2>2, <2>3, <2>4
<1>2. UNCHANGED <<rows, status, attempts, availableIn, leaseOwner, leaseLeft, deliveredAt, deadLetters>>
  BY <1>1 DEF storeVars
<1>3. TypeOK'
  BY <1>1, <1>2 DEF Inv, TypeOK, Phases
<1>4. WorkInHand'
  BY <1>1, <1>2 DEF Inv, TypeOK, WorkInHand, Exhausted
<1>5. RowsStored' /\ SnapshotsLag' /\ DeliveredWasReceived' /\ DeliveredKept' /\ DeadLettersAgree'
  BY <1>1, <1>2 DEF Inv, RowsStored, SnapshotsLag, DeliveredWasReceived, DeliveredKept,
                    DeadLettersAgree
<1>6. QED
  BY <1>3, <1>4, <1>5 DEF Inv

(* What the settling methods have in common: they settle an event of the    *)
(* worker's own batch, leased to its worker_id (or moved by event_id only), *)
(* and move on.                                                             *)
LEMMA SettleFacts ==
  ASSUME NEW w \in Workers, Inv, phase[w] \in {"ok", "failed", "moving"},
         NEW s \in {"delivered", "pending", "dead_letter"},
         Owns(w, cur[w]) \/ (phase[w] = "moving" /\ s = "dead_letter"),
         status' = [status EXCEPT ![cur[w]] = s],
         availableIn' \in [EventIds -> Nat],
         s = "delivered" => phase[w] = "ok" /\ deliveredAt' = deliveredAt \cup {cur[w]},
         s # "delivered" => deliveredAt' = deliveredAt,
         s = "dead_letter" => /\ Exhausted(seenAttempts[w][cur[w]])
                              /\ deadLetters' = deadLetters \cup {cur[w]},
         s # "dead_letter" => deadLetters' = deadLetters,
         ClearLease(cur[w]), EndIteration(w),
         UNCHANGED <<rows, attempts, outcome, received, crashes>>
  PROVE  Inv'
<1> DEFINE e == cur[w]
<1>1. e \in batch[w] /\ e \in EventIds /\ status[e] # "absent"
  BY DEF Inv, TypeOK, WorkInHand
<1>2. status[e] = "leased" \/ (s = "dead_letter" /\ Backend = "sqlite")
  BY DEF Inv, WorkInHand, Owns
<1>3. TypeOK'
  <2>1. /\ status' \in [EventIds -> Statuses]
        /\ phase' \in [Workers -> Phases]
        /\ batch' \in [Workers -> SUBSET EventIds]
        /\ cur' \in [Workers -> EventIds \cup {NoEvent}]
    BY <1>1 DEF Inv, TypeOK, Statuses, Phases, EndIteration
  <2>2. /\ tries' \in [Workers -> 0..(RetryAttempts - 1)]
        /\ leaseLeft' \in [EventIds -> 0..(LeaseSeconds + 1)]
    BY <1>1, BoundsAssumption DEF Inv, TypeOK, EndIteration, ClearLease
  <2>3. leaseOwner' \in [EventIds -> {WorkerId[v] : v \in Workers} \cup {NoOwner}]
    BY <1>1 DEF Inv, TypeOK, ClearLease
  <2>4. \A f \in EventIds : status'[f] # "leased" => leaseOwner'[f] = NoOwner /\ leaseLeft'[f] = 0
    BY <1>1 DEF Inv, TypeOK, ClearLease
  <2>5. deadLetters' \subseteq EventIds /\ deliveredAt' \subseteq EventIds
    BY <1>1 DEF Inv, TypeOK
  <2>6. QED
    BY <2>1, <2>2, <2>3, <2>4, <2>5 DEF Inv, TypeOK, EndIteration
<1>4. RowsStored'
  BY <1>1 DEF Inv, TypeOK, RowsStored
<1>5. WorkInHand'
  BY <1>1 DEF Inv, TypeOK, WorkInHand, EndIteration, Exhausted
<1>6. SnapshotsLag'
  BY DEF Inv, SnapshotsLag, EndIteration
<1>7. DeliveredWasReceived'
  BY <1>1 DEF Inv, TypeOK, DeliveredWasReceived, WorkInHand
<1>8. DeliveredKept'
  BY <1>1, <1>2 DEF Inv, TypeOK, DeliveredKept
<1>9. DeadLettersAgree'
  <2>1. s = "dead_letter" => attempts[e] >= MaxDeliveryAttempts
    BY <1>1, BoundsAssumption DEF Inv, TypeOK, SnapshotsLag, Exhausted
  <2>2. status[e] = "dead_letter" => s = "dead_letter"
    BY <1>2
  <2>3. QED
    BY <1>1, <2>1, <2>2 DEF Inv, TypeOK, DeadLettersAgree
<1>10. QED
  BY <1>3, <1>4, <1>5, <1>6, <1>7, <1>8, <1>9 DEF Inv

(* mark_delivered, reschedule and dead_letter preserve it.                  *)
LEMMA SettleInv ==
  ASSUME NEW w \in Workers, Inv,
         \/ MarkDelivered(w)
         \/ \E delay \in Delays : Reschedule(w, delay)
         \/ DeadLetter(w) \/ MoveSelected(w)
  PROVE  Inv'
<1>1. CASE MarkDelivered(w)
  BY <1>1, SettleFacts DEF MarkDelivered, Successful, Inv, TypeOK
<1>2. ASSUME NEW delay \in Delays, Reschedule(w, delay) PROVE Inv'
  <2>1. availableIn' \in [EventIds -> Nat]
    BY <1>2, BoundsAssumption DEF Reschedule, Inv, TypeOK
  <2>2. QED
    BY <1>2, <2>1, SettleFacts DEF Reschedule
<1>3. CASE DeadLetter(w)
  BY <1>3, SettleFacts DEF DeadLetter, Move, Inv, TypeOK
<1>4. CASE MoveSelected(w)
  BY <1>4, SettleFacts DEF MoveSelected, Move, Inv, TypeOK, WorkInHand
<1>5. QED
  BY <1>1, <1>2, <1>3, <1>4

(* The SELECT of SQLite's dead_letter changes nothing but the worker.       *)
LEMMA SelectInv ==
  ASSUME NEW w \in Workers, Inv, SelectOwned(w)
  PROVE  Inv'
<1>1. UNCHANGED <<rows, status, attempts, availableIn, leaseOwner, leaseLeft, deliveredAt, deadLetters>>
  BY DEF SelectOwned, storeVars
<1>2. TypeOK'
  BY <1>1 DEF Inv, TypeOK, SelectOwned, Phases
<1>3. WorkInHand'
  BY <1>1 DEF Inv, TypeOK, WorkInHand, SelectOwned, Exhausted
<1>4. RowsStored' /\ SnapshotsLag' /\ DeliveredWasReceived' /\ DeliveredKept' /\ DeadLettersAgree'
  BY <1>1 DEF Inv, RowsStored, SnapshotsLag, DeliveredWasReceived, DeliveredKept, DeadLettersAgree,
              SelectOwned
<1>5. QED
  BY <1>2, <1>3, <1>4 DEF Inv

(* A worker that gives up its batch leaves the store as it is.              *)
LEMMA AbandonInv ==
  ASSUME NEW w \in Workers, Inv, Abandon(w), crashes' \in 0..MaxCrashes
  PROVE  Inv'
<1>1. UNCHANGED <<rows, status, attempts, availableIn, leaseOwner, leaseLeft, deliveredAt, deadLetters>>
  BY DEF Abandon, storeVars
<1>2. TypeOK'
  BY <1>1, BoundsAssumption DEF Inv, TypeOK, Abandon, Phases
<1>3. WorkInHand'
  BY <1>1 DEF Inv, TypeOK, WorkInHand, Abandon, Exhausted
<1>4. RowsStored' /\ SnapshotsLag' /\ DeliveredWasReceived' /\ DeliveredKept' /\ DeadLettersAgree'
  BY <1>1 DEF Inv, RowsStored, SnapshotsLag, DeliveredWasReceived, DeliveredKept, DeadLettersAgree,
              Abandon
<1>5. QED
  BY <1>2, <1>3, <1>4 DEF Inv

(* The clock only counts down.                                              *)
LEMMA TickInv == Inv /\ Tick => Inv'
<1>1. SUFFICES ASSUME Inv, Tick PROVE Inv'
  OBVIOUS
<1>2. /\ availableIn' \in [EventIds -> Nat]
      /\ leaseLeft' \in [EventIds -> 0..(LeaseSeconds + 1)]
      /\ \A e \in EventIds : leaseLeft[e] = 0 => leaseLeft'[e] = 0
  BY <1>1, BoundsAssumption DEF Inv, TypeOK, Tick, Dec
<1>3. seenLease' \in [Workers -> [EventIds -> 0..(LeaseSeconds + 1)]]
  BY <1>1, BoundsAssumption DEF Inv, TypeOK, Tick, Dec
<1>4. TypeOK'
  BY <1>1, <1>2, <1>3 DEF Inv, TypeOK, Tick
<1>5. QED
  BY <1>1, <1>4 DEF Inv, Tick, RowsStored, WorkInHand, SnapshotsLag, DeliveredWasReceived,
                    DeliveredKept, DeadLettersAgree, Exhausted

(* Every step preserves the inductive invariant. *)
LEMMA NextInv == Inv /\ [Next]_vars => Inv'
<1>1. SUFFICES ASSUME Inv, [Next]_vars PROVE Inv'
  OBVIOUS
<1>2. ASSUME NEW m \in Submissions, Enqueue(m) PROVE Inv'
  BY <1>1, <1>2, EnqueueInv
<1>3. ASSUME NEW w \in Workers, ClaimAny(w) \/ Deliver(w) PROVE Inv'
  BY <1>1, <1>3, ClaimInv, DeliverInv DEF ClaimAny, Deliver
<1>4. ASSUME NEW w \in Workers, Settle(w) PROVE Inv'
  <2>1. CASE LeaseLost(w)
    BY <1>1, <2>1, AbandonInv DEF LeaseLost, Inv, TypeOK
  <2>2. QED
    BY <1>1, <1>4, <2>1, SettleInv, SelectInv DEF Settle
<1>5. ASSUME NEW w \in Workers, Crash(w) PROVE Inv'
  <2>1. crashes' \in 0..MaxCrashes
    BY <1>1, <1>5, BoundsAssumption DEF Crash, Inv, TypeOK
  <2>2. QED
    BY <1>1, <1>5, <2>1, AbandonInv DEF Crash
<1>6. CASE Tick
  BY <1>1, <1>6, TickInv
<1>7. CASE UNCHANGED vars
  BY <1>1, <1>7 DEF vars, storeVars, workerVars, Inv, TypeOK, RowsStored, WorkInHand,
                    SnapshotsLag, DeliveredWasReceived, DeliveredKept, DeadLettersAgree, Exhausted
<1>8. QED
  BY <1>1, <1>2, <1>3, <1>4, <1>5, <1>6, <1>7 DEF Next, Work

(* The inductive invariant holds throughout every behaviour. *)
LEMMA SpecInv == Spec => []Inv
  BY InitInv, NextInv, PTL DEF Spec

(* The types hold in every reachable state, and only leased rows carry a    *)
(* lease.                                                                   *)
THEOREM TypeCorrect == Spec => []TypeOK
<1>1. Inv => TypeOK
  BY DEF Inv
<1>2. QED
  BY <1>1, SpecInv, PTL

(* For any number of workers, leases, crashes and retries, mark_delivered   *)
(* never marks an event its receiver has not accepted.                      *)
THEOREM DeliveredReceived == Spec => []DeliveredWasReceived
<1>1. Inv => DeliveredWasReceived
  BY DEF Inv
<1>2. QED
  BY <1>1, SpecInv, PTL

(* dead_letter keeps the two tables in agreement and never gives an event   *)
(* up early, although it decides from a snapshot.                           *)
THEOREM DeadLettersSound == Spec => []DeadLettersAgree
<1>1. Inv => DeadLettersAgree
  BY DEF Inv
<1>2. QED
  BY <1>1, SpecInv, PTL

-----------------------------------------------------------------------------
(* PostgreSQL's dead_letter, which checks and moves in one statement, never  *)
(* takes a delivered event for a failure, even if worker ids are shared.    *)
THEOREM MovesFailuresOnly ==
  ASSUME Backend = "postgres"
  PROVE  Spec => []OnlyFailuresMoved
<1>1. Inv => OnlyFailuresMoved
  BY DEF Inv, TypeOK, DeliveredKept, DeadLettersAgree, OnlyFailuresMoved
<1>2. QED
  BY <1>1, SpecInv, PTL

-----------------------------------------------------------------------------
(* Only the holder of a live lease can settle the event, if worker ids are  *)
(* distinct, or a late worker moves it to the dead letters; nobody can      *)
(* claim it.                                                                *)
LEMMA HoldsLeaseStep ==
  ASSUME DistinctIds, Inv, HoldsLease, [Next]_vars
  PROVE  HoldsLease'
<1>1. SUFFICES ASSUME NEW v \in Workers, NEW e \in batch'[v], seenLease'[v][e] > 0
               PROVE  \/ /\ status'[e] = "leased"
                         /\ leaseOwner'[e] = WorkerId[v]
                         /\ leaseLeft'[e] = seenLease'[v][e]
                      \/ status'[e] = "dead_letter"
  BY DEF HoldsLease
<1> DEFINE Held == \/ /\ status'[e] = "leased"
                      /\ leaseOwner'[e] = WorkerId[v]
                      /\ leaseLeft'[e] = seenLease'[v][e]
                   \/ status'[e] = "dead_letter"
<1> HIDE DEF Held
<1>2. e \in EventIds
  BY <1>1, NextInv DEF Inv, TypeOK
<1>3. ASSUME e \in batch[v], seenLease[v][e] > 0
      PROVE  \/ status[e] = "leased" /\ leaseOwner[e] = WorkerId[v] /\ leaseLeft[e] = seenLease[v][e]
             \/ status[e] = "dead_letter"
  BY <1>3 DEF HoldsLease
<1>4. ASSUME NEW m \in Submissions, Enqueue(m) PROVE Held
  BY <1>1, <1>2, <1>3, <1>4 DEF Held, Enqueue, workerVars, Inv, TypeOK, RowsStored, EventIds
<1>5. ASSUME NEW w \in Workers, NEW d, Claim(w, d) PROVE Held
  <2>1. \A f \in Oldest(Candidates(d)) :
          status[f] = "pending" \/ (status[f] = "leased" /\ leaseLeft[f] = 0)
    BY DEF Oldest, Candidates, Claimable
  <2>2. CASE v = w
    BY <1>1, <1>2, <1>5, <2>2 DEF Held, Claim, Inv, TypeOK
  <2>3. CASE v # w
    BY <1>1, <1>2, <1>3, <1>5, <2>1, <2>3 DEF Held, Claim, Inv, TypeOK
  <2>4. QED
    BY <2>2, <2>3
<1>6. ASSUME NEW w \in Workers, Deliver(w) PROVE Held
  BY <1>1, <1>3, <1>6 DEF Held, Deliver, DeliverOk, DeliverRetry, DeliverFail, storeVars
<1>7. ASSUME NEW w \in Workers, Owns(w, cur[w]), phase[w] \in {"ok", "failed"},
             NEW s, status' = [status EXCEPT ![cur[w]] = s],
             ClearLease(cur[w]), EndIteration(w)
      PROVE  Held
  <2>1. e \in batch[v] /\ seenLease[v][e] > 0
    BY <1>1, <1>7 DEF EndIteration, Inv, TypeOK
  <2>2. e # cur[w]
    <3>1. SUFFICES ASSUME e = cur[w] PROVE FALSE
      OBVIOUS
    <3>2. v = w
      BY <1>3, <1>7, <2>1, <3>1 DEF Owns, DistinctIds
    <3>3. QED
      BY <1>1, <1>7, <3>1, <3>2 DEF EndIteration, Inv, TypeOK
  <2>3. QED
    BY <1>2, <1>3, <1>7, <2>1, <2>2 DEF Held, EndIteration, ClearLease, Inv, TypeOK
<1>8. ASSUME NEW w \in Workers, LeaseLost(w) \/ Crash(w) PROVE Held
  BY <1>1, <1>3, <1>8 DEF Held, LeaseLost, Crash, Abandon, storeVars, Inv, TypeOK
<1>9. ASSUME NEW w \in Workers, Settle(w) PROVE Held
  <2>1. CASE SelectOwned(w)
    BY <1>1, <1>3, <2>1 DEF Held, SelectOwned, storeVars
  <2>2. CASE MoveSelected(w)
    <3>1. e \in batch[v] /\ seenLease[v][e] > 0
      BY <1>1, <2>2 DEF MoveSelected, Move, EndIteration, Inv, TypeOK
    <3>2. cur[w] \in EventIds
      BY <2>2 DEF MoveSelected, Inv, TypeOK, WorkInHand
    <3>3. CASE e = cur[w]
      BY <1>2, <2>2, <3>3 DEF Held, MoveSelected, Move, Inv, TypeOK
    <3>4. CASE e # cur[w]
      BY <1>2, <1>3, <2>2, <3>1, <3>2, <3>4
      DEF Held, MoveSelected, Move, EndIteration, ClearLease, Inv, TypeOK
    <3>5. QED
      BY <3>3, <3>4
  <2>3. QED
    BY <1>7, <1>8, <1>9, <2>1, <2>2
    DEF Settle, MarkDelivered, Successful, Reschedule, DeadLetter, Move
<1>10. CASE Tick
  BY <1>1, <1>2, <1>3, <1>10 DEF Held, Tick, Dec, Inv, TypeOK
<1>11. CASE UNCHANGED vars
  BY <1>1, <1>3, <1>11 DEF Held, vars, storeVars, workerVars
<1>12. QED
  BY <1>4, <1>5, <1>6, <1>8, <1>9, <1>10, <1>11 DEF Held, Next, Work, ClaimAny

(* A worker that claims an event finds nobody with a live lease of it, and  *)
(* leases only run down.                                                    *)
LEMMA ExclusiveStep ==
  ASSUME Inv, HoldsLease, LeaseExclusive, DistinctIds, [Next]_vars
  PROVE  LeaseExclusive'
<1>1. SUFFICES ASSUME NEW v \in Workers, NEW w \in Workers, v # w,
                      NEW e \in batch'[v] \cap batch'[w]
               PROVE  seenLease'[v][e] = 0 \/ seenLease'[w][e] = 0
  BY DEF LeaseExclusive
<1> DEFINE Goal == seenLease'[v][e] = 0 \/ seenLease'[w][e] = 0
<1> HIDE DEF Goal
<1>2. e \in EventIds
  BY <1>1, NextInv DEF Inv, TypeOK
<1>3. ASSUME e \in batch[v] \cap batch[w] PROVE seenLease[v][e] = 0 \/ seenLease[w][e] = 0
  BY <1>1, <1>3 DEF LeaseExclusive
<1>4. ASSUME NEW u \in Workers, NEW d, Claim(u, d) PROVE Goal
  <2>1. \A f \in Oldest(Candidates(d)) :
          status[f] = "pending" \/ (status[f] = "leased" /\ leaseLeft[f] = 0)
    BY DEF Oldest, Candidates, Claimable
  <2>2. \A x \in Workers \ {u} : batch'[x] = batch[x] /\ seenLease'[x] = seenLease[x]
    BY <1>4 DEF Claim, Inv, TypeOK
  <2>3. batch'[u] = Oldest(Candidates(d))
    BY <1>4 DEF Claim, Inv, TypeOK
  <2>4. ASSUME NEW x \in Workers \ {u}, e \in batch[x], e \in Oldest(Candidates(d))
        PROVE  seenLease[x][e] = 0
    <3>1. ~(seenLease[x][e] > 0)
      BY <2>1, <2>4 DEF HoldsLease
    <3>2. seenLease[x][e] \in Nat
      BY <1>2 DEF Inv, TypeOK
    <3>3. QED
      BY <3>1, <3>2
  <2>5. CASE v = u
    BY <1>1, <2>2, <2>3, <2>4, <2>5 DEF Goal
  <2>6. CASE w = u
    BY <1>1, <2>2, <2>3, <2>4, <2>6 DEF Goal
  <2>7. CASE v # u /\ w # u
    BY <1>1, <1>3, <2>2, <2>7 DEF Goal
  <2>8. QED
    BY <2>5, <2>6, <2>7
<1>5. ASSUME \A x \in Workers : batch'[x] \subseteq batch[x], UNCHANGED seenLease PROVE Goal
  BY <1>1, <1>3, <1>5 DEF Goal
<1>6. ASSUME NEW u \in Workers, EndIteration(u) \/ Abandon(u) PROVE Goal
  <2>1. batch \in [Workers -> SUBSET EventIds]
    BY DEF Inv, TypeOK
  <2>2. \E S : S \subseteq batch[u] /\ batch' = [batch EXCEPT ![u] = S]
    BY <1>6 DEF EndIteration, Abandon
  <2>3. UNCHANGED seenLease
    BY <1>6 DEF EndIteration, Abandon
  <2>4. QED
    BY <1>5, <2>1, <2>2, <2>3
<1>7. ASSUME NEW u \in Workers, Deliver(u) \/ SelectOwned(u) PROVE Goal
  BY <1>5, <1>7 DEF Deliver, DeliverOk, DeliverRetry, DeliverFail, SelectOwned
<1>8. ASSUME NEW u \in Workers, Settle(u) \/ Crash(u) PROVE Goal
  BY <1>6, <1>7, <1>8
  DEF Settle, MarkDelivered, Reschedule, DeadLetter, MoveSelected, Move, LeaseLost, Crash
<1>9. ASSUME Tick PROVE Goal
  BY <1>1, <1>2, <1>3, <1>9 DEF Goal, Tick, Dec, Inv, TypeOK
<1>10. ASSUME \/ \E m \in Submissions : Enqueue(m)
             \/ UNCHANGED vars
       PROVE  Goal
  BY <1>5, <1>10 DEF Enqueue, vars, workerVars
<1>11. Goal
  BY <1>4, <1>7, <1>8, <1>9, <1>10 DEF Next, Work, ClaimAny
<1>12. QED
  BY <1>11 DEF Goal

(* If every process has its own worker_id, no two of them work on an event  *)
(* while both hold its lease.                                               *)
THEOREM LeasesExclusive == Spec => []LeaseExclusive
<1>1. CASE DistinctIds
  <2>1. Inv /\ HoldsLease /\ LeaseExclusive /\ [Next]_vars => (Inv /\ HoldsLease /\ LeaseExclusive)'
    BY <1>1, NextInv, HoldsLeaseStep, ExclusiveStep
  <2>2. Init => LeaseExclusive
    BY DEF Init, LeaseExclusive
  <2>3. QED
    BY <2>1, <2>2, InitInv, PTL DEF Spec
<1>2. CASE ~DistinctIds
  <2>1. LeaseExclusive
    BY <1>2 DEF LeaseExclusive
  <2>2. QED
    BY <2>1, PTL
<1>3. QED
  BY <1>1, <1>2

-----------------------------------------------------------------------------
\* enqueue returned for m only if a row of the same delivery is stored ...
OnFile == \A m \in Submissions : outcome[m] = "accepted" => \E r \in rows : SameDelivery(r, m)

\* ... and no two rows are the same delivery.
OncePerKey == \A r, s \in rows : SameDelivery(r, s) => r = s

(* Only enqueue writes rows and outcomes, and it looks for the row first.   *)
LEMMA StoredStep == TypeOK /\ OnFile /\ OncePerKey /\ [Next]_vars => OnFile' /\ OncePerKey'
<1>1. SUFFICES ASSUME TypeOK, OnFile, OncePerKey, [Next]_vars PROVE OnFile' /\ OncePerKey'
  OBVIOUS
<1>2. ASSUME NEW m \in Submissions, Enqueue(m) PROVE OnFile' /\ OncePerKey'
  <2>1. OnFile'
    BY <1>1, <1>2 DEF TypeOK, OnFile, Enqueue, SameDelivery
  <2>2. OncePerKey'
    BY <1>1, <1>2 DEF OncePerKey, Enqueue, SameDelivery
  <2>3. QED
    BY <2>1, <2>2
<1>3. ASSUME ~\E m \in Submissions : Enqueue(m) PROVE rows' = rows /\ outcome' = outcome
  BY <1>1, <1>3
  DEF Next, Work, ClaimAny, Claim, Deliver, DeliverOk, DeliverRetry, DeliverFail, Settle,
      MarkDelivered, Reschedule, DeadLetter, SelectOwned, MoveSelected, Move, LeaseLost, Crash, Abandon,
      Tick, vars, storeVars
<1>4. QED
  BY <1>1, <1>2, <1>3 DEF OnFile, OncePerKey

(* An event whose enqueue returned is stored for its destination, once,     *)
(* however often and under whichever ids it is submitted.                   *)
THEOREM AcceptedStored == Spec => []AcceptedIsStored
<1>1. Init => OnFile /\ OncePerKey
  BY DEF Init, OnFile, OncePerKey
<1>2. OnFile /\ OncePerKey => AcceptedIsStored
  <2>1. SUFFICES ASSUME OnFile, OncePerKey, NEW m \in Submissions, outcome[m] = "accepted"
                 PROVE  Cardinality({r \in rows : r.destination = m.destination /\ r.key = m.key}) = 1
    BY DEF AcceptedIsStored
  <2>2. PICK r \in rows : SameDelivery(r, m)
    BY <2>1 DEF OnFile
  <2>3. {s \in rows : s.destination = m.destination /\ s.key = m.key} = {r}
    BY <2>1, <2>2 DEF OncePerKey, SameDelivery
  <2>4. QED
    BY <2>3, FS_Singleton
<1>3. QED
  BY <1>1, <1>2, StoredStep, TypeCorrect, PTL DEF Spec

-----------------------------------------------------------------------------
(* Every step of the outbox is a step of the ledger or changes nothing the  *)
(* ledger shows, however stale the workers are and whether or not they      *)
(* share a worker_id.                                                       *)
Stage == [e \in EventIds |-> IF status[e] \in {"pending", "leased"} THEN "queued" ELSE status[e]]

(* Only the four kinds of step below show in the ledger.                    *)
LEMMA LedgerStep ==
  ASSUME Inv, [Next]_vars
  PROVE  [Ledger!Next]_<<Stage, received>>
<1> DEFINE Goal == [Ledger!Next]_<<Stage, received>>
<1> HIDE DEF Goal
<1>1. ASSUME NEW e \in EventIds,
             \/ /\ Stage[e] = "absent"
                /\ Stage' = [Stage EXCEPT ![e] = "queued"]
                /\ received' = received
             \/ /\ Stage[e] # "absent"
                /\ Stage' = Stage
                /\ received' = received \cup {e}
             \/ /\ Stage[e] = "queued"
                /\ e \in received
                /\ Stage' = [Stage EXCEPT ![e] = "delivered"]
                /\ received' = received
             \/ /\ Stage[e] = "queued" \/ (Backend = "sqlite" /\ Stage[e] = "delivered")
                /\ Stage' = [Stage EXCEPT ![e] = "dead_letter"]
                /\ received' = received
      PROVE  Goal
  BY <1>1 DEF Goal, Stage, Ledger!Next, Ledger!Accept, Ledger!Receive, Ledger!Deliver, Ledger!GiveUp
<1>2. ASSUME Stage' = Stage, received' = received PROVE Goal
  BY <1>2 DEF Goal
<1>3. status' = status => Stage' = Stage
  BY DEF Stage
<1>4. ASSUME NEW m \in Submissions, Enqueue(m) PROVE Goal
  <2>1. m.id \in EventIds
    BY DEF EventIds
  <2>2. CASE status' = status
    BY <1>2, <1>3, <1>4, <2>2 DEF Enqueue
  <2>3. CASE status' # status
    <3>1. status[m.id] = "absent" /\ status' = [status EXCEPT ![m.id] = "pending"]
      BY <1>4, <2>1, <2>3 DEF Enqueue, Inv, RowsStored
    <3>2. Stage[m.id] = "absent" /\ Stage' = [Stage EXCEPT ![m.id] = "queued"]
      BY <2>1, <3>1 DEF Stage, Inv, TypeOK
    <3>3. QED
      BY <1>1, <1>4, <2>1, <3>2 DEF Enqueue
  <2>4. QED
    BY <2>2, <2>3
<1>5. ASSUME NEW w \in Workers, NEW d, Claim(w, d) PROVE Goal
  <2>1. \A e \in Oldest(Candidates(d)) : status[e] \in {"pending", "leased"}
    BY DEF Oldest, Candidates, Claimable
  <2>2. Stage' = Stage
    BY <1>5, <2>1 DEF Stage, Claim
  <2>3. QED
    BY <1>2, <1>5, <2>2 DEF Claim
<1>6. ASSUME NEW w \in Workers, NEW e \in EventIds,
             DeliverOk(w, e) \/ DeliverRetry(w, e) \/ DeliverFail(w, e)
      PROVE  Goal
  <2>1. Stage' = Stage
    BY <1>3, <1>6 DEF DeliverOk, DeliverRetry, DeliverFail, storeVars
  <2>2. received' = received \/ (HasHandler(e) /\ received' = received \cup {e})
    BY <1>6 DEF DeliverOk, DeliverRetry, DeliverFail
  <2>3. HasHandler(e) => Stage[e] # "absent"
    BY DEF HasHandler, Inv, RowsStored, Stage
  <2>4. QED
    BY <1>1, <1>2, <2>1, <2>2, <2>3
<1>7. ASSUME NEW w \in Workers, Settle(w) PROVE Goal
  <2>1. CASE MarkDelivered(w)
    <3>1. /\ cur[w] \in EventIds /\ cur[w] \in received /\ status[cur[w]] = "leased"
          /\ status' = [status EXCEPT ![cur[w]] = "delivered"] /\ received' = received
      BY <2>1 DEF MarkDelivered, Successful, Owns, Inv, TypeOK, WorkInHand
    <3>2. Stage[cur[w]] = "queued" /\ Stage' = [Stage EXCEPT ![cur[w]] = "delivered"]
      BY <3>1 DEF Stage, Inv, TypeOK
    <3>3. QED
      BY <1>1, <3>1, <3>2
  <2>2. CASE DeadLetter(w)
    <3>1. /\ cur[w] \in EventIds /\ status[cur[w]] = "leased"
          /\ status' = [status EXCEPT ![cur[w]] = "dead_letter"] /\ received' = received
      BY <2>2 DEF DeadLetter, Move, Owns, Inv, TypeOK, WorkInHand
    <3>2. Stage[cur[w]] = "queued" /\ Stage' = [Stage EXCEPT ![cur[w]] = "dead_letter"]
      BY <3>1 DEF Stage, Inv, TypeOK
    <3>3. QED
      BY <1>1, <3>1, <3>2
  <2>3. ASSUME NEW delay \in Delays, Reschedule(w, delay) PROVE Goal
    <3>1. /\ cur[w] \in EventIds /\ status[cur[w]] = "leased"
          /\ status' = [status EXCEPT ![cur[w]] = "pending"] /\ received' = received
      BY <2>3 DEF Reschedule, Owns, Inv, TypeOK, WorkInHand
    <3>2. Stage' = Stage
      BY <3>1 DEF Stage, Inv, TypeOK
    <3>3. QED
      BY <1>2, <3>1, <3>2
  <2>4. CASE LeaseLost(w)
    BY <1>2, <1>3, <2>4 DEF LeaseLost, Abandon, storeVars
  <2>5. CASE SelectOwned(w)
    BY <1>2, <1>3, <2>5 DEF SelectOwned, storeVars
  <2>6. CASE MoveSelected(w)
    <3>1. /\ Backend = "sqlite" /\ cur[w] \in EventIds /\ status[cur[w]] # "absent"
          /\ status' = [status EXCEPT ![cur[w]] = "dead_letter"] /\ received' = received
      BY <2>6 DEF MoveSelected, Move, Inv, TypeOK, WorkInHand
    <3>2. Stage' = [Stage EXCEPT ![cur[w]] = "dead_letter"]
      BY <3>1 DEF Stage, Inv, TypeOK
    <3>3. Stage[cur[w]] \in {"queued", "delivered", "dead_letter"}
      BY <3>1 DEF Stage, Inv, TypeOK, Statuses
    <3>4. CASE Stage[cur[w]] = "dead_letter"
      BY <1>2, <3>1, <3>2, <3>4 DEF Stage
    <3>5. QED
      BY <1>1, <3>1, <3>2, <3>3, <3>4
  <2>7. QED
    BY <1>7, <2>1, <2>2, <2>3, <2>4, <2>5, <2>6 DEF Settle
<1>8. ASSUME NEW w \in Workers, Crash(w) PROVE Goal
  BY <1>2, <1>3, <1>8 DEF Crash, Abandon, storeVars
<1>9. ASSUME Tick \/ UNCHANGED vars PROVE Goal
  BY <1>2, <1>3, <1>9 DEF Tick, vars, storeVars
<1>10. Goal
  BY <1>4, <1>5, <1>6, <1>7, <1>8, <1>9 DEF Next, Work, ClaimAny, Deliver
<1>11. QED
  BY <1>10 DEF Goal

(* The outbox implements the delivery ledger. *)
THEOREM Refinement == Spec => LedgerSpec
<1>1. Init => Ledger!Init
  BY DEF Init, Ledger!Init
<1>2. Inv /\ [Next]_vars => [Ledger!Next]_<<Stage, received>>
  BY LedgerStep
<1>3. QED
  BY <1>1, <1>2, SpecInv, PTL DEF Spec, LedgerSpec, Ledger!Spec, Stage
=============================================================================
