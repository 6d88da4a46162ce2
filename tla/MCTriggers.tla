----------------------------- MODULE MCTriggers -----------------------------
(***************************************************************************)
(* Instances of Triggers for TLC: invocations with one key and one without,*)
(* deliveries of one event.                                                *)
(***************************************************************************)
EXTENDS Triggers, TLC

CONSTANTS i1, i2, i3, d1, d2

SharedKeys == [q \in Requests |->
    IF q \in Deliveries THEN "event" ELSE IF q = i3 THEN NoKey ELSE "k"]

\* Requests with one key are alike.
Alike == Permutations({i1, i2}) \cup Permutations({d1, d2})

\* Bound: the two tables have rows, keys and limits of their own, so that it
\* is enough to look at what happens in one of them.
OneTable ==
    \/ \A q \in Invocations : pc[q] = "idle"
    \/ \A q \in Deliveries : pc[q] = "idle"
=============================================================================
