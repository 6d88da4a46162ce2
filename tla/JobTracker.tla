----------------------------- MODULE JobTracker -----------------------------
(***************************************************************************)
(* What the dispatcher promises of the jobs it is given, without queue,    *)
(* goroutines, counters or windows between locks: a run waits, or is with  *)
(* one connected runner that has a slot for it, or is unknown; it is       *)
(* forgotten while waiting only if its status is closed; and a runner that *)
(* goes gives all its jobs back at once.                                   *)
(***************************************************************************)
EXTENDS Integers, FiniteSets

CONSTANTS
  Runs,     \* run ids
  Runners,  \* runner ids
  Slots     \* [Runners -> Nat], the jobs a runner may hold

VARIABLES
  waiting,  \* runs the dispatcher has yet to place
  jobs,     \* the runs a runner holds
  up,       \* the connected runners
  open      \* runs whose status allows dispatch

vars == <<waiting, jobs, up, open>>

Placed == UNION {jobs[id] : id \in Runners}

Init ==
  /\ waiting = {} /\ up = {} /\ open = Runs
  /\ jobs = [id \in Runners |-> {}]

\* A submitted run has to wait.
Accept(r) ==
  /\ r \notin waiting \cup Placed
  /\ waiting' = waiting \cup {r}
  /\ UNCHANGED <<jobs, up, open>>

\* A run, waiting or just submitted, is given to a runner with a free slot.
Place(r, id) ==
  /\ r \notin Placed
  /\ id \in up /\ Cardinality(jobs[id]) < Slots[id]
  /\ jobs' = [jobs EXCEPT ![id] = @ \cup {r}]
  /\ waiting' = waiting \ {r}
  /\ UNCHANGED <<up, open>>

Drop(r) ==
  /\ r \in waiting \ open
  /\ waiting' = waiting \ {r}
  /\ UNCHANGED <<jobs, up, open>>

\* A runner reports the end of a job.  The run is forgotten, or waits again:
\* the runner asked for that, or it had been queued a second time meanwhile.
End(r, id) ==
  /\ r \in jobs[id]
  /\ jobs' = [jobs EXCEPT ![id] = @ \ {r}]
  /\ waiting' \in {waiting, waiting \cup {r}}
  /\ UNCHANGED <<up, open>>

Connect(id) ==
  /\ id \notin up
  /\ up' = up \cup {id}
  /\ UNCHANGED <<waiting, jobs, open>>

\* Runners are lost or removed, and what they hold waits again.
Lose(gone) ==
  /\ gone # {} /\ gone \subseteq up
  /\ up' = up \ gone
  /\ waiting' = waiting \cup UNION {jobs[id] : id \in gone}
  /\ jobs' = [id \in Runners |-> IF id \in gone THEN {} ELSE jobs[id]]
  /\ UNCHANGED open

ChangeStatus(r) ==
  /\ open' = IF r \in open THEN open \ {r} ELSE open \cup {r}
  /\ UNCHANGED <<waiting, jobs, up>>

Next ==
  \/ \E r \in Runs : Accept(r) \/ Drop(r) \/ ChangeStatus(r)
  \/ \E r \in Runs, id \in Runners : Place(r, id) \/ End(r, id)
  \/ \E id \in Runners : Connect(id)
  \/ \E gone \in SUBSET Runners : Lose(gone)

Spec == Init /\ [][Next]_vars
=============================================================================
