------------------------------ MODULE MCOutbox ------------------------------
(* Instances of Outbox for TLC. *)
EXTENDS Outbox

CONSTANTS w1, w2, siem, lake

Event(i, d, k) == [id |-> i, destination |-> d, key |-> k]

\* An event, the same delivery submitted again under another event_id, which
\* is also that of a different delivery; no handler serves lake; the two
\* destinations use the same idempotency key.
MCSubmissions == {Event(1, siem, 1), Event(2, lake, 1), Event(2, siem, 1)}

\* One event with a handler and one without.
LiveSubmissions == {Event(1, siem, 1), Event(2, lake, 2)}

OwnIds == [w \in Workers |-> w]

\* Two processes configured with one worker_id.
SharedId == [w \in Workers |-> w1]
=============================================================================
