----------------------------- MODULE AuditTrail -----------------------------
(***************************************************************************)
(* What an audit store promises, without writers, locks, files or hashes:  *)
(* a trail of events for each correlation that only grows, in which no     *)
(* event occurs twice.  A crash can break the store once and for all, and  *)
(* may then cost the last event of one trail, but never one that somebody  *)
(* was told is stored.  Of a trail changed from outside nothing is         *)
(* promised.                                                               *)
(***************************************************************************)
EXTENDS Naturals, Sequences

CONSTANTS Chains, Ids

VARIABLES
    trail,     \* trail[c]: the events of correlation c, as long as unchanged
    told,      \* told[c]: the events somebody was told are stored
    broken,    \* nothing can be read or added any more
    changed    \* correlations changed from outside

vars == <<trail, told, broken, changed>>

Contains(s, id) == \E i \in 1..Len(s) : s[i] = id

Init ==
    /\ trail = [c \in Chains |-> <<>>]
    /\ told = [c \in Chains |-> {}]
    /\ broken = FALSE
    /\ changed = {}

Add(c, id) ==
    /\ ~broken
    /\ c \notin changed
    /\ \A d \in Chains : ~Contains(trail[d], id)
    /\ trail' = [trail EXCEPT ![c] = Append(@, id)]
    /\ UNCHANGED <<told, broken, changed>>

Tell(c, id) ==
    /\ Contains(trail[c], id) \/ broken \/ c \in changed
    /\ told' = [told EXCEPT ![c] = @ \cup {id}]
    /\ UNCHANGED <<trail, broken, changed>>

\* The last event of trail c is lost; nobody was told of it.
Lose(c) ==
    /\ trail[c] # <<>>
    /\ trail[c][Len(trail[c])] \notin told[c]
    /\ trail' = [trail EXCEPT ![c] = SubSeq(@, 1, Len(@) - 1)]

Break ==
    /\ ~broken
    /\ broken' = TRUE
    /\ UNCHANGED trail \/ \E c \in Chains : Lose(c)
    /\ UNCHANGED <<told, changed>>

Change(c) ==
    /\ changed' = changed \cup {c}
    /\ trail' = [trail EXCEPT ![c] = <<>>]
    /\ UNCHANGED <<told, broken>>

Next ==
    \/ \E c \in Chains :
        \/ \E id \in Ids : Add(c, id) \/ Tell(c, id)
        \/ Change(c)
    \/ Break

Spec == Init /\ [][Next]_vars
=============================================================================
