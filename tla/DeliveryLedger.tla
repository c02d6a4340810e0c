--------------------------- MODULE DeliveryLedger ---------------------------
(***************************************************************************)
(* What the durable outbox promises, without leases, workers or clocks: an *)
(* accepted event stays on the books until it is settled, it is settled as *)
(* delivered only if its receiver has accepted it, and it is settled for   *)
(* good, unless a worker that gives an event up may come too late.         *)
(***************************************************************************)
CONSTANTS
    EventIds,
    LateGiveUp  \* whether an event can be given up after it was delivered

VARIABLES
    stage,      \* stage[e]: "absent", "queued", "delivered" or "dead_letter"
    received    \* the events whose receiver has accepted them

Init ==
    /\ stage = [e \in EventIds |-> "absent"]
    /\ received = {}

Accept(e) ==
    /\ stage[e] = "absent"
    /\ stage' = [stage EXCEPT ![e] = "queued"]
    /\ UNCHANGED received

\* The receiver may get an event again, and even after it was given up.
Receive(e) ==
    /\ stage[e] # "absent"
    /\ received' = received \cup {e}
    /\ UNCHANGED stage

Deliver(e) ==
    /\ stage[e] = "queued"
    /\ e \in received
    /\ stage' = [stage EXCEPT ![e] = "delivered"]
    /\ UNCHANGED received

GiveUp(e) ==
    /\ stage[e] = "queued" \/ (LateGiveUp /\ stage[e] = "delivered")
    /\ stage' = [stage EXCEPT ![e] = "dead_letter"]
    /\ UNCHANGED received

Next == \E e \in EventIds : Accept(e) \/ Receive(e) \/ Deliver(e) \/ GiveUp(e)

Spec == Init /\ [][Next]_<<stage, received>>
=============================================================================
