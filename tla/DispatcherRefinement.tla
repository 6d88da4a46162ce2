------------------------ MODULE DispatcherRefinement ------------------------
(* The dispatcher as an implementation of JobTracker.                      *)
EXTENDS Dispatcher

\* A run waits while the queue or some pumpQueue has it, unless it was
\* submitted and placed in between.
Waiting == {r \in Runs : Held(r) /\ ~Assigned(r)}
Jobs == [id \in Runners |-> UNION {inflight[c] : c \in RunnerByID(id)}]
Up == {id \in Runners : RunnerByID(id) # {}}
Slots == [id \in Runners |-> CapacityOf(id)]

Tracker == INSTANCE JobTracker WITH waiting <- Waiting, jobs <- Jobs, up <- Up

\* To its callers the dispatcher looks like a table changed one run at a time:
\* neither the time in which pumpQueue tracks a job nowhere, nor stale counts,
\* full channels and reconnections, ever show as a lost, doubled or overbooked
\* job.
ImplementsJobTracker == Tracker!Spec
=============================================================================
