--------------------------- MODULE AgentPipeline ---------------------------
(***************************************************************************)
(* One pipeline run from the inside: the agent process that executes its   *)
(* tasks, and the rows of the control plane its reports change.            *)
(*                                                                         *)
(* The agent works in rounds.  A round starts a goroutine for every task   *)
(* whose dependencies are completed, waits for all of them and reads their *)
(* results.  Beside the goroutines run the pipeline timeout, the watcher   *)
(* that polls the run for a cancellation, and the monitors of child        *)
(* pipelines started without waiting.  A step that asks for an approval    *)
(* ends the process: a later attempt takes the run up from the checkpoint, *)
(* or, launched without it, from the start.                                *)
(*                                                                         *)
(* A report is one call without a retry, whose error is only logged: it    *)
(* may be lost.  A task's work, an LLM's answer and a child's end are       *)
(* choices.  What an action or a condition says is abstracted.             *)
(***************************************************************************)
EXTENDS Naturals, FiniteSets

CONSTANTS
    Steps, Tasks,
    StepOf,         \* the step of a task
    Kind,           \* of a step: "work", "approval", "sync" or "async" include
    Place,          \* of a step: its place in the pipeline's list
    StepNeeds,      \* the steps a step's depends_on names
    StepNeedsTask,  \* the tasks it names as step.task
    TaskNeeds,      \* the tasks a task's depends_on names
    Conditional,    \* steps with a condition
    Tolerant,       \* tasks whose failure is ignored, by themselves or their step
    Outputs,        \* tasks that declare outputs
    StepReads,      \* the tasks whose outputs a step's variables name
    TaskReads,      \* the tasks whose outputs a task's variables name
    HasTimeout,     \* BOOLEAN
    FinalStatus,    \* not a task: names the report of the final status in lost
    MaxUpsets       \* bound: lost calls, a timeout, a cancellation and launches
                    \* without a checkpoint together

Approvals == {t \in Tasks : Kind[StepOf[t]] = "approval"}
Async == {t \in Tasks : Kind[StepOf[t]] = "async"}
TasksOf(s) == {t \in Tasks : StepOf[t] = s}

\* What a task must see completed before it starts.
Needs(t) == TaskNeeds[t] \cup StepNeedsTask[StepOf[t]]
              \cup UNION {TasksOf(s) : s \in StepNeeds[StepOf[t]]}

ASSUME PipelineAssumption ==
    /\ IsFiniteSet(Tasks)
    /\ StepOf \in [Tasks -> Steps]
    /\ Kind \in [Steps -> {"work", "approval", "sync", "async"}]
    /\ Place \in [Steps -> Nat]
    /\ \A s, u \in Steps : Place[s] = Place[u] => s = u
    \* an approval step has no list of tasks
    /\ \A t, u \in Approvals : StepOf[t] = StepOf[u] => t = u
    /\ StepNeeds \in [Steps -> SUBSET Steps]
    /\ StepNeedsTask \in [Steps -> SUBSET Tasks]
    /\ TaskNeeds \in [Tasks -> SUBSET Tasks]
    /\ StepReads \in [Steps -> SUBSET Tasks]
    /\ TaskReads \in [Tasks -> SUBSET Tasks]
    /\ Conditional \subseteq Steps
    /\ Tolerant \subseteq Tasks /\ Outputs \subseteq Tasks
    /\ HasTimeout \in BOOLEAN
    /\ FinalStatus \notin Tasks
    /\ MaxUpsets \in Nat

VARIABLES
    \* the agent's process
    pc,         \* the main goroutine
    at,         \* where a task's goroutine is
    verdict,    \* the status that goroutine has arrived at
    completed,  \* completedTasks
    failed, warned,     \* pipelineFailed, pipelineWarned
    produced,   \* tasks whose outputs are in the runtime output store
    active,     \* the active task tracker
    sessions,   \* keys of the step session registry
    monitors,   \* includes whose child is still monitored
    timer,      \* the pipeline timeout
    sweep, doomed,  \* a thread that cancels the active tasks and cleans up
    taken,      \* the sessions it took from the registry and has yet to remove
    \* the control plane's rows
    run, row, approval,
    \* history
    lost,       \* the tasks of which a report or an answer was lost
    starts,     \* how often a task's work was started
    outcome,    \* how a task ended, whatever its row says
    bare        \* attempts after the first that began without a checkpoint

agentVars == <<pc, at, verdict, completed, failed, warned, produced, active,
               sessions, monitors, timer, sweep, doomed, taken>>
rowVars == <<run, row, approval>>
historyVars == <<lost, starts, outcome, bare>>
vars == <<agentVars, rowVars, historyVars>>

\* "watch" and "exit" sweep once; "exit" is the function's deferred calls.
Sweepers == {"watch", "timeout", "exit"}
EndedTask == {"success", "warning", "failure", "ignored", "skipped", "cancelled"}
CompletedTask == {"success", "warning", "ignored", "skipped"}
TerminalRun == {"success", "warning", "failure", "cancelled", "rejected"}
\* A goroutine that has told the control plane its task runs.
Working == {"reported", "tracked", "open", "child", "closing", "untrack"}

Alive == pc \notin {"off", "killed"}
Triggered == timer = "fired"
Upsets == Cardinality(lost) + Cardinality({"fired"} \cap {timer})
            + Cardinality({"cancelled"} \cap {run}) + bare
Upsettable == Upsets < MaxUpsets

Init ==
    /\ pc = "round"
    /\ at = [t \in Tasks |-> "none"] /\ verdict = [t \in Tasks |-> "none"]
    /\ completed = {} /\ failed = FALSE /\ warned = FALSE
    /\ produced = {} /\ active = {} /\ sessions = {} /\ monitors = {}
    /\ timer = IF HasTimeout THEN "armed" ELSE "unset"
    /\ sweep = [w \in Sweepers |-> "idle"] /\ doomed = [w \in Sweepers |-> {}]
    /\ taken = [w \in Sweepers |-> {}]
    /\ run = "running" /\ row = [t \in Tasks |-> "pending"]
    /\ approval = [g \in Approvals |-> "none"]
    /\ lost = {} /\ starts = [t \in Tasks |-> 0]
    /\ outcome = [t \in Tasks |-> "none"] /\ bare = 0

-----------------------------------------------------------------------------
(* Reports, and what the control plane makes of them.                      *)

\* handleTaskUpdate: an ended run keeps its rows, except that a cancelled run
\* takes 'cancelled' for a row that has not ended.
UpdatedRow(t, s) ==
    IF run \in TerminalRun
    THEN IF run = "cancelled" /\ s = "cancelled" /\ row[t] \notin EndedTask
         THEN s ELSE row[t]
    ELSE s

\* One call, no retry: the row changes, or the report is lost.
Report(t, s) ==
    \/ /\ row' = [row EXCEPT ![t] = UpdatedRow(t, s)]
       /\ UNCHANGED lost
    \/ /\ Upsettable
       /\ lost' = lost \cup {t}
       /\ UNCHANGED row

\* Mutant: rows that never started stay as they are.
ClosedRowsStarted(s) ==
    [t \in Tasks |-> IF s # "failure" \/ row[t] \in EndedTask \cup {"pending"}
                     THEN row[t] ELSE "failure"]

\* closeIncompleteTasksForFinalStatus: only a failure closes rows.
ClosedRows(s) ==
    [t \in Tasks |->
        IF s # "failure" \/ row[t] \in EndedTask THEN row[t]
        ELSE IF row[t] = "pending" THEN "skipped" ELSE "failure"]

\* handleFinalizeRun
FinalizeRun(s) ==
    IF run \in TerminalRun \cup {"waiting"}
    THEN UNCHANGED <<run, row>>
    ELSE run' = s /\ row' = ClosedRows(s)

-----------------------------------------------------------------------------
(* The scheduler.                                                          *)

\* Mutant: a step counts as completed with its first task.
CompletedStepsAny == {s \in Steps : TasksOf(s) \cap completed # {}}

\* A step counts as completed when it has as many completed tasks as tasks.
CompletedSteps ==
    {s \in Steps : Cardinality(TasksOf(s) \cap completed) = Cardinality(TasksOf(s))}

\* NextRunnableTasks
Runnable ==
    {t \in Tasks \ completed :
        /\ StepNeeds[StepOf[t]] \subseteq CompletedSteps
        /\ StepNeedsTask[StepOf[t]] \subseteq completed
        /\ TaskNeeds[t] \subseteq completed}

\* Mutant: an approval runs beside the round's other tasks.
RoundTasksAll == Runnable

\* FirstApprovalRunnable: an approval that may start is the round's only task.
RoundTasks ==
    LET asking == Runnable \cap Approvals
        First(g) == \A h \in asking : Place[StepOf[g]] <= Place[StepOf[h]]
    IN  IF asking = {} THEN Runnable ELSE {g \in asking : First(g)}

StartRound ==
    /\ pc = "round" /\ completed # Tasks /\ ~Triggered /\ Runnable # {}
    /\ pc' = "spawn"
    /\ at' = [t \in Tasks |-> IF t \in RoundTasks THEN "queued" ELSE "none"]
    /\ UNCHANGED <<verdict, completed, failed, warned, produced, active, sessions,
                   monitors, timer, sweep, doomed, taken, rowVars, historyVars>>

\* Mutant: the top of the loop does not look at the timeout.
LeaveLoopUntimed ==
    /\ pc = "round"
    /\ completed = Tasks \/ Runnable = {}
    /\ failed' = (failed \/ completed # Tasks)
    /\ pc' = "conclude"
    /\ UNCHANGED <<at, verdict, completed, warned, produced, active, sessions,
                   monitors, timer, sweep, doomed, taken, rowVars, historyVars>>

\* All tasks are completed, the timeout came first, or nothing can run.
LeaveLoop ==
    /\ pc = "round"
    /\ completed = Tasks \/ Triggered \/ Runnable = {}
    /\ failed' = (failed \/ completed # Tasks)
    /\ pc' = "conclude"
    /\ UNCHANGED <<at, verdict, completed, warned, produced, active, sessions,
                   monitors, timer, sweep, doomed, taken, rowVars, historyVars>>

Spawn(t) ==
    /\ pc = "spawn" /\ at[t] = "queued" /\ ~Triggered
    /\ at' = [at EXCEPT ![t] = "spawned"]
    /\ UNCHANGED <<pc, verdict, completed, failed, warned, produced, active,
                   sessions, monitors, timer, sweep, doomed, taken, rowVars, historyVars>>

\* The timeout leaves the loop over the round's tasks.
StopSpawning ==
    /\ pc = "spawn" /\ Triggered
    /\ \E t \in Tasks : at[t] = "queued"
    /\ at' = [t \in Tasks |-> IF at[t] = "queued" THEN "none" ELSE at[t]]
    /\ UNCHANGED <<pc, verdict, completed, failed, warned, produced, active,
                   sessions, monitors, timer, sweep, doomed, taken, rowVars, historyVars>>

\* wg.Wait, and the results.
EndRound ==
    LET over == {t \in Tasks : at[t] = "over"}
        paused == \E t \in over : verdict[t] = "paused"
    IN
    /\ pc = "spawn"
    /\ \A t \in Tasks : at[t] \in {"none", "over"}
    /\ completed' = completed \cup {t \in over : verdict[t] \in CompletedTask}
    /\ failed' = (\/ failed \/ Triggered
                  \/ \E t \in over : verdict[t] \in {"failure", "cancelled"})
    /\ pc' = IF paused THEN "leaving" ELSE IF failed' THEN "conclude" ELSE "round"
    /\ at' = [t \in Tasks |-> "none"]
    /\ verdict' = [t \in Tasks |-> "none"]
    /\ UNCHANGED <<warned, produced, active, sessions, monitors, timer, sweep,
                   doomed, taken, rowVars, historyVars>>

-----------------------------------------------------------------------------
(* A task's goroutine.                                                     *)

\* Mutant: an empty status is not taken for a failure.
ToleratedEmpty(t) == IF t \in Tolerant THEN "ignored" ELSE ""
\* failureStatusWithTolerance
Tolerated(t) == IF t \in Tolerant THEN "ignored" ELSE "failure"

Goto(t, where) == at' = [at EXCEPT ![t] = where]
Decide(t, where, v) == Goto(t, where) /\ verdict' = [verdict EXCEPT ![t] = v]
Fail(t) == Decide(t, "closing", Tolerated(t))

goroutineOnly == <<pc, completed, failed, timer, sweep, doomed, taken, approval, bare>>

\* The stop check, the step's variables and its condition.  A condition that
\* cannot be evaluated fails the task without a report unless it is tolerated.
Check(t) ==
    /\ at[t] = "spawned"
    /\ IF Triggered THEN Decide(t, "closing", "cancelled")
       ELSE IF ~(StepReads[StepOf[t]] \subseteq produced) THEN Fail(t)
       ELSE \/ Goto(t, "ready") /\ UNCHANGED verdict
            \/ /\ StepOf[t] \in Conditional
               /\ \/ Decide(t, "closing", "skipped")
                  \/ Decide(t, "closing", "failure")   \* blocking knowledge
                  \/ Decide(t, IF t \in Tolerant THEN "closing" ELSE "over", Tolerated(t))
    /\ UNCHANGED <<goroutineOnly, warned, produced, active, sessions, monitors,
                   run, row, historyVars>>

\* setTaskRunning reports first ...
ReportRunning(t) ==
    /\ at[t] = "ready"
    /\ Goto(t, "reported")
    /\ Report(t, "running")
    /\ UNCHANGED <<goroutineOnly, verdict, warned, produced, active, sessions,
                   monitors, run, starts, outcome>>

\* ... and tracks the task after that.
Track(t) ==
    /\ at[t] = "reported"
    /\ Goto(t, "tracked")
    /\ active' = active \cup {t}
    /\ UNCHANGED <<goroutineOnly, verdict, warned, produced, sessions, monitors,
                   run, row, historyVars>>

\* A task with outputs has a container of its own, the others share the step's.
SessionKey(t) == IF t \in Outputs THEN t ELSE StepOf[t]

\* The task's variables and its step's container.
OpenSession(t) ==
    /\ at[t] = "tracked" /\ Kind[StepOf[t]] = "work"
    /\ \/ Fail(t) /\ UNCHANGED sessions
       \/ /\ TaskReads[t] \subseteq produced
          /\ Goto(t, "open")
          /\ sessions' = sessions \cup {SessionKey(t)}
          /\ UNCHANGED verdict
    /\ UNCHANGED <<goroutineOnly, warned, produced, active, monitors, run, row,
                   historyVars>>

\* The action cannot be resolved: ignored if tolerated and the run is not
\* stopping, otherwise a failure that may go without a report.
ActionUnresolved(t) ==
    /\ at[t] = "open"
    /\ IF t \in Tolerant /\ ~Triggered
       THEN Decide(t, "closing", "ignored")
       ELSE \E where \in {"closing", "over"} : Decide(t, where, "failure")
    /\ UNCHANGED <<goroutineOnly, warned, produced, active, sessions, monitors,
                   run, row, historyVars>>

\* Governance or blocking knowledge refuses the action: never tolerated.
ActionRefused(t) ==
    /\ at[t] = "open"
    /\ Decide(t, "closing", "failure")
    /\ UNCHANGED <<goroutineOnly, warned, produced, active, sessions, monitors,
                   run, row, historyVars>>

\* Execution with its ten attempts, then the outputs: they are in the store
\* before they are persisted, and a failure to persist them fails the task.
Execute(t) ==
    /\ at[t] = "open"
    /\ starts' = [starts EXCEPT ![t] = @ + 1]
    /\ \/ /\ Decide(t, "closing", "success")
          /\ produced' = produced \cup ({t} \cap Outputs)
       \/ /\ Fail(t)
          /\ \/ UNCHANGED produced
             \/ t \in Outputs /\ produced' = produced \cup {t}
    /\ UNCHANGED <<goroutineOnly, warned, active, sessions, monitors, run, row,
                   lost, outcome>>

\* Pause and handlePauseApproval: the workspace is archived and the approval
\* stored, unless the run has ended or the approval was decided before.
AskApproval(g) ==
    /\ at[g] = "tracked" /\ g \in Approvals
    /\ \/ /\ Decide(g, "closing", "failure")
          /\ UNCHANGED <<run, row, approval, lost>>
       \/ /\ run \notin TerminalRun
          /\ approval[g] \in {"none", "pending"}
          /\ run' = "waiting"
          /\ row' = [row EXCEPT ![g] = "waiting"]
          /\ approval' = [approval EXCEPT ![g] = "pending"]
          /\ \/ Decide(g, "untrack", "paused") /\ UNCHANGED lost
             \/ Upsettable /\ lost' = lost \cup {g} /\ Decide(g, "closing", "failure")
    /\ UNCHANGED <<pc, completed, failed, warned, produced, active, sessions,
                   monitors, timer, sweep, doomed, taken, starts, outcome, bare>>

\* The child pipeline is created, or one of the calls before that fails.
TriggerChild(t) ==
    /\ at[t] = "tracked" /\ Kind[StepOf[t]] \in {"sync", "async"}
    /\ \/ Fail(t) /\ UNCHANGED <<monitors, starts>>
       \/ /\ starts' = [starts EXCEPT ![t] = @ + 1]
          /\ IF t \in Async
             THEN Decide(t, "closing", "success") /\ monitors' = monitors \cup {t}
             ELSE Goto(t, "child") /\ UNCHANGED <<verdict, monitors>>
    /\ UNCHANGED <<goroutineOnly, warned, produced, active, sessions, run, row,
                   lost, outcome>>

\* The status of a child, with the include's tolerance.
ChildStatus(t) == {"success", "warning", "cancelled", Tolerated(t)}

\* waitForChild; with a success come the outputs the include declares.
ChildEnds(t) ==
    /\ at[t] = "child"
    /\ \E s \in ChildStatus(t) :
          /\ Decide(t, "closing", s)
          /\ produced' = IF s \in {"success", "warning"}
                         THEN produced \cup ({t} \cap Outputs) ELSE produced
    /\ UNCHANGED <<goroutineOnly, warned, active, sessions, monitors, run, row,
                   historyVars>>

\* monitor finalizes the include a second time, with its child's status.
MonitorEnds(t) ==
    /\ Alive /\ t \in monitors
    /\ monitors' = monitors \ {t}
    /\ active' = active \ {t}
    /\ \E s \in ChildStatus(t) :
          /\ Report(t, s)
          /\ warned' = (warned \/ s \in {"warning", "ignored"})
    /\ UNCHANGED <<pc, at, verdict, completed, failed, produced, sessions, timer,
                   sweep, doomed, taken, run, approval, starts, outcome, bare>>

\* finalizeTask reports the status ...
Close(t) ==
    /\ at[t] = "closing"
    /\ Goto(t, "untrack")
    /\ Report(t, verdict[t])
    /\ warned' = (warned \/ verdict[t] \in {"warning", "ignored"})
    \* an approval given meanwhile stands
    /\ outcome' = [outcome EXCEPT ![t] =
                      IF t \in Approvals /\ @ = "success" THEN @ ELSE verdict[t]]
    /\ UNCHANGED <<goroutineOnly, verdict, produced, active, sessions, monitors,
                   run, starts>>

\* ... and untracks the task after that; the result is sent.
Untrack(t) ==
    /\ at[t] = "untrack"
    /\ Goto(t, "over")
    /\ active' = active \ {t}
    /\ UNCHANGED <<goroutineOnly, verdict, warned, produced, sessions, monitors,
                   run, row, historyVars>>

-----------------------------------------------------------------------------
(* The end of an attempt, the timeout and the watcher.                     *)

\* Mutant: a warning is looked for before a failure.
PipelineStatusWarnedFirst ==
    IF warned THEN "warning"
    ELSE IF Triggered \/ failed THEN "failure" ELSE "success"
PipelineStatus ==
    IF Triggered \/ failed THEN "failure" ELSE IF warned THEN "warning" ELSE "success"

\* notifyFinalStatus: the final status goes to handleFinalizeRun, or is lost.
Conclude ==
    /\ pc = "conclude"
    /\ pc' = "leaving"
    /\ \/ /\ FinalizeRun(PipelineStatus)
          /\ UNCHANGED lost
       \/ Upsettable /\ lost' = lost \cup {FinalStatus} /\ UNCHANGED <<run, row>>
    /\ UNCHANGED <<at, verdict, completed, failed, warned, produced, active,
                   sessions, monitors, timer, sweep, doomed, taken, approval, starts, outcome, bare>>

\* Mutant: no deferred sweep after a timeout, which has swept already.
ReturnUnswept ==
    /\ pc = "leaving"
    /\ pc' = "exit"
    /\ timer' = IF Triggered THEN timer ELSE "unset"
    /\ sweep' = [sweep EXCEPT !["exit"] = IF Triggered THEN "swept" ELSE "clear"]
    /\ UNCHANGED <<at, verdict, completed, failed, warned, produced, active,
                   sessions, monitors, doomed, taken, rowVars, historyVars>>

\* The deferred calls: the timeout is stopped, then the sweep.
Return ==
    /\ pc = "leaving"
    /\ pc' = "exit"
    /\ timer' = IF Triggered THEN timer ELSE "unset"
    /\ sweep' = [sweep EXCEPT !["exit"] = "clear"]
    /\ UNCHANGED <<at, verdict, completed, failed, warned, produced, active,
                   sessions, monitors, doomed, taken, rowVars, historyVars>>

TimeoutFires ==
    /\ timer = "armed" /\ Alive /\ Upsettable
    /\ timer' = "fired"
    /\ sweep' = [sweep EXCEPT !["timeout"] = "clear"]
    /\ UNCHANGED <<pc, at, verdict, completed, failed, warned, produced, active,
                   sessions, monitors, doomed, taken, rowVars, historyVars>>

\* The poll that finds the run cancelled, or the SIGTERM that stops the agent
\* of a cancelled run: both sweep and exit.
SeeCancelled ==
    /\ Alive /\ run = "cancelled" /\ sweep["watch"] = "idle"
    /\ sweep' = [sweep EXCEPT !["watch"] = "clear"]
    /\ UNCHANGED <<pc, at, verdict, completed, failed, warned, produced, active,
                   sessions, monitors, timer, doomed, taken, rowVars, historyVars>>

\* cancelActiveTasks takes the tracked tasks ...
SweepClear(w) ==
    /\ Alive /\ sweep[w] = "clear"
    /\ sweep' = [sweep EXCEPT ![w] = "report"]
    /\ doomed' = [doomed EXCEPT ![w] = active]
    /\ active' = {}
    /\ UNCHANGED <<pc, at, verdict, completed, failed, warned, produced, sessions,
                   monitors, timer, taken, rowVars, historyVars>>

\* ... and reports them, one by one, as cancelled.
SweepReport(w, t) ==
    /\ Alive /\ sweep[w] = "report" /\ t \in doomed[w]
    /\ doomed' = [doomed EXCEPT ![w] = @ \ {t}]
    /\ Report(t, "cancelled")
    /\ UNCHANGED <<pc, at, verdict, completed, failed, warned, produced, active,
                   sessions, monitors, timer, sweep, taken, run, approval, starts, outcome, bare>>

\* cleanupStepSessions takes the registry ...
SweepSessions(w) ==
    /\ Alive /\ sweep[w] = "report" /\ doomed[w] = {}
    /\ sweep' = [sweep EXCEPT ![w] = IF sessions = {} THEN "swept" ELSE "remove"]
    /\ taken' = [taken EXCEPT ![w] = sessions]
    /\ sessions' = {}
    /\ UNCHANGED <<pc, at, verdict, completed, failed, warned, produced, active,
                   monitors, timer, doomed, rowVars, historyVars>>

\* ... and stops and removes the containers after that, one by one.  A call
\* that fails is only logged.
SweepRemove(w, k) ==
    /\ Alive /\ sweep[w] = "remove" /\ k \in taken[w]
    /\ taken' = [taken EXCEPT ![w] = @ \ {k}]
    /\ sweep' = [sweep EXCEPT ![w] = IF taken[w] = {k} THEN "swept" ELSE @]
    /\ UNCHANGED <<pc, at, verdict, completed, failed, warned, produced, active,
                   sessions, monitors, timer, doomed, rowVars, historyVars>>

\* The process ends, with its memory and every goroutine in it: a sweep that is
\* removing containers leaves those it has not come to.
EndProcess(end) ==
    /\ pc' = end
    /\ at' = [t \in Tasks |-> "none"] /\ verdict' = [t \in Tasks |-> "none"]
    /\ completed' = {} /\ failed' = FALSE /\ warned' = FALSE /\ produced' = {}
    /\ monitors' = {} /\ active' = {}
    /\ sweep' = [w \in Sweepers |-> "idle"] /\ doomed' = [w \in Sweepers |-> {}]
    /\ UNCHANGED <<sessions, timer, taken, rowVars, historyVars>>

\* Returned, or killed by exit(0) from the watcher.
Exit == Alive /\ sweep["exit"] = "swept" /\ EndProcess("off")
ExitCancelled == Alive /\ sweep["watch"] = "swept" /\ EndProcess("killed")

-----------------------------------------------------------------------------
(* The control plane: decisions, cancellation and the next attempt.        *)

\* decideApproval; a rejection ends the run and leaves the other rows.
Approve(g) ==
    /\ run = "waiting" /\ approval[g] = "pending"
    /\ run' = "pending"
    /\ approval' = [approval EXCEPT ![g] = "approved"]
    /\ row' = [row EXCEPT ![g] = "success"]
    /\ outcome' = [outcome EXCEPT ![g] = "success"]
    /\ UNCHANGED <<agentVars, lost, starts, bare>>

Reject(g) ==
    /\ run = "waiting" /\ approval[g] = "pending"
    /\ run' = "rejected"
    /\ approval' = [approval EXCEPT ![g] = "rejected"]
    /\ row' = [row EXCEPT ![g] = "failure"]
    /\ UNCHANGED <<agentVars, historyVars>>

\* markRunCancelled
CancelRun ==
    /\ run \notin TerminalRun /\ Upsettable
    /\ run' = "cancelled"
    /\ row' = [t \in Tasks |-> IF row[t] \in EndedTask THEN row[t] ELSE "cancelled"]
    /\ UNCHANGED <<agentVars, approval, historyVars>>

\* Mutant: only tasks of completed steps are taken for completed.
ResumedSteps ==
    {t \in Tasks : \A u \in TasksOf(StepOf[t]) : row[u] \in CompletedTask}

\* completedTaskKeysForRun: what a resumed agent takes for completed is read
\* from the rows, not from the list stored with the checkpoint.
ResumedTasks == {t \in Tasks : row[t] \in CompletedTask}

\* A fresh agent: its memory starts empty.  A launch by the approval carries
\* the checkpoint and what it lists as completed; one by a sweep or by the
\* release of the run's group carries none, and every task is run again.
Resume ==
    /\ pc = "off" /\ run = "pending"
    /\ pc' = "round" /\ run' = "running"
    /\ \/ completed' = ResumedTasks /\ UNCHANGED bare
       \/ Upsettable /\ completed' = {} /\ bare' = bare + 1
    /\ failed' = FALSE /\ warned' = FALSE
    /\ produced' = {} /\ sessions' = {}
    /\ taken' = [w \in Sweepers |-> {}]
    /\ timer' = IF HasTimeout THEN "armed" ELSE "unset"
    /\ UNCHANGED <<at, verdict, active, monitors, sweep, doomed, row, approval,
                   lost, starts, outcome>>

-----------------------------------------------------------------------------
Goroutine(t) ==
    \/ Spawn(t) \/ Check(t) \/ ReportRunning(t) \/ Track(t) \/ OpenSession(t)
    \/ ActionUnresolved(t) \/ ActionRefused(t) \/ Execute(t)
    \/ AskApproval(t) \/ TriggerChild(t) \/ ChildEnds(t)
    \/ Close(t) \/ Untrack(t)

MainLoop == StartRound \/ LeaveLoop \/ StopSpawning \/ EndRound \/ Conclude \/ Return \/ Exit

Sweep(w) ==
    \/ SweepClear(w) \/ \E t \in Tasks : SweepReport(w, t)
    \/ SweepSessions(w) \/ \E k \in taken[w] : SweepRemove(w, k)

Next ==
    \/ MainLoop \/ TimeoutFires \/ SeeCancelled \/ ExitCancelled
    \/ \E t \in Tasks : Goroutine(t) \/ MonitorEnds(t)
    \/ \E w \in Sweepers : Sweep(w)
    \/ \E g \in Approvals : Approve(g) \/ Reject(g)
    \/ CancelRun \/ Resume

Spec == Init /\ [][Next]_vars

\* What the process does of itself: a child pipeline ends, the watcher polls.
Process ==
    \/ MainLoop \/ SeeCancelled \/ ExitCancelled
    \/ \E t \in Tasks : Goroutine(t)
    \/ \E w \in Sweepers : Sweep(w)

\* The process runs while something in it can; which of its goroutines does is
\* left open.  Nobody need approve, and no timeout need fire.
Fairness == WF_vars(Process)

FairSpec == Spec /\ Fairness

-----------------------------------------------------------------------------
(* Properties.                                                             *)

TypeOK ==
    /\ pc \in {"round", "spawn", "conclude", "leaving", "exit", "off", "killed"}
    /\ at \in [Tasks -> Working \cup {"none", "queued", "spawned", "ready", "over"}]
    /\ verdict \in [Tasks -> EndedTask \cup {"none", "paused"}]
    /\ completed \subseteq Tasks /\ produced \subseteq Tasks
    /\ active \subseteq Tasks /\ monitors \subseteq Async
    /\ sessions \subseteq Steps \cup Tasks
    /\ failed \in BOOLEAN /\ warned \in BOOLEAN
    /\ timer \in {"unset", "armed", "fired"}
    /\ sweep \in [Sweepers -> {"idle", "clear", "report", "remove", "swept"}]
    /\ doomed \in [Sweepers -> SUBSET Tasks]
    /\ taken \in [Sweepers -> SUBSET (Steps \cup Tasks)]
    /\ run \in TerminalRun \cup {"running", "waiting", "pending"}
    /\ row \in [Tasks -> EndedTask \cup {"pending", "running", "waiting"}]
    /\ approval \in [Approvals -> {"none", "pending", "approved", "rejected"}]
    /\ lost \subseteq Tasks \cup {FinalStatus}
    /\ starts \in [Tasks -> Nat]
    /\ outcome \in [Tasks -> EndedTask \cup {"none"}] /\ bare \in Nat

\* A task is only at work when everything it depends on has ended well, in
\* this attempt or an earlier one, and none of that is at work again.
DependenciesRespected ==
    \A t \in Tasks : at[t] \in Working =>
        \A u \in Needs(t) : outcome[u] \in CompletedTask /\ at[u] = "none"

\* While an approval is being asked for, and until the process has ended, no
\* other task of the attempt is at work: what the checkpoint archives and
\* lists stays what it is.
ApprovalBarrier ==
    \A g \in Approvals : at[g] \in Working =>
        \A t \in Tasks \ {g} : at[t] = "none"

\* The work of a task starts once, over all attempts that carry the checkpoint
\* on, and once more for each attempt that was launched without it; unless a
\* report of it was lost or it is an include that was not waited for.
StartedOnce ==
    \A t \in Tasks \ Async : starts[t] > 1 + bare => t \in lost

\* A run that ends well has ended every task well.
VerdictTruthful ==
    run \in {"success", "warning"} =>
        \A t \in Tasks : outcome[t] \in CompletedTask

\* A run that finished, with no report lost, shows no task as unfinished.
RowsSettled ==
    run \in {"success", "warning", "failure"} /\ lost = {} =>
        \A t \in Tasks : row[t] \in EndedTask

\* An agent that returns has removed the containers of the steps it opened,
\* those opened after a timeout's cleanup included.  What it may leave are
\* containers that the timeout's cleanup, or that of a cancelled run, has
\* taken and not come to: the deferred cleanup no longer finds those, and the
\* process does not wait.
SessionsReleased ==
    pc = "off" =>
        /\ sessions = {} /\ taken["exit"] = {}
        /\ taken["timeout"] # {} => Triggered
        /\ taken["watch"] # {} => run = "cancelled"

\* Every attempt comes to its end.
AgentEnds == Alive ~> ~Alive
=============================================================================
