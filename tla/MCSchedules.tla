---------------------------- MODULE MCSchedules ----------------------------
(* Two schedules: a repository has files for both or for one, and requests *)
(* make a one-time schedule of either.                                     *)
EXTENDS Schedules

OneTime == {[kind |-> "once", at |-> 2, enabled |-> TRUE]}
TwoRevisions ==
    LET cron == [kind |-> "cron", at |-> 1, enabled |-> TRUE]
    IN {[s \in {"a", "b"} |-> cron], [s \in {"b"} |-> cron]}
=============================================================================
