------------------------ MODULE AgentPipelineProofs ------------------------
(***************************************************************************)
(* What holds of a pipeline run for any steps and tasks, any number of     *)
(* attempts and any losses: dependencies come first, an approval is asked  *)
(* for alone, work starts once from one start of the run, a run that ends  *)
(* well has ended every task well, a run that finished shows no unfinished *)
(* row, and an agent that returns leaves no container but one that another *)
(* sweep was about to remove.                                              *)
(*                                                                         *)
(* An agent that is given the checkpoint reads what is completed from the  *)
(* rows, which goroutines, monitors, sweeps and decisions write in any     *)
(* order; one that is given none starts over beside the rows of the        *)
(* attempts before it.  The invariant relates a row to how its task ended  *)
(* and to where its goroutine is, for as long as the run has not ended.    *)
(***************************************************************************)
EXTENDS AgentPipeline, FiniteSetTheorems, TLAPS

Paused == {"failure", "paused"}
Closed == {"untrack", "over"}
Ill == {"failure", "cancelled", "paused"}

\* Goroutines run only while the main one waits for them.
Quiet == pc # "spawn" => \A t \in Tasks : at[t] = "none"

\* An approval is its round's only task.
Barrier ==
    \A g \in Approvals : at[g] # "none" => \A t \in Tasks \ {g} : at[t] = "none"

\* A task that was started, and is not completed, needs completed ones.
Ordered ==
    \A t \in Tasks : at[t] # "none" => Needs(t) \subseteq completed /\ t \notin completed

\* A status that completes a task is the one it ended with.
Decided ==
    \A t \in Tasks :
        /\ at[t] = "closing" => verdict[t] \in EndedTask
        /\ at[t] \in Closed /\ verdict[t] \in CompletedTask => outcome[t] \in CompletedTask

Ended == \A t \in completed : outcome[t] \in CompletedTask

\* A main loop that leaves without a failure has completed every task.
Concluding == pc = "conclude" /\ ~failed => completed = Tasks

\* A run that ended well is not worked on any more.
Final ==
    run \in {"success", "warning"} =>
        /\ pc \notin {"round", "spawn", "conclude"}
        /\ \A t \in Tasks : outcome[t] \in CompletedTask

Monitored ==
    \A t \in monitors :
        \/ at[t] = "closing" /\ verdict[t] = "success"
        \/ at[t] \in Closed /\ verdict[t] = "success" /\ outcome[t] = "success"
        \/ at[t] = "none" /\ t \in completed

InLoop == pc \in {"round", "spawn"}

\* The attempt ends, and no later one may follow: the run waits for nobody.
Leaving == ~InLoop /\ run = "running"

\* What a completed row of a run that has not ended says about its task.  It
\* may be of an attempt before one that started over: while that one runs, the
\* task may end otherwise and its report be lost.
RowTrue(t) ==
    \/ outcome[t] \in CompletedTask
    \/ at[t] = "closing" /\ verdict[t] = "success"
    \/ at[t] \in Closed /\ verdict[t] \in Ill /\ run = "running"
    \/ Leaving
RowsTrue ==
    run \notin TerminalRun =>
        \A t \in Tasks : row[t] \in CompletedTask =>
            /\ RowTrue(t)
            \* an approval is given while its agent is still pausing
            /\ t \in Approvals /\ at[t] # "none" /\ run # "running" => outcome[t] = "success"

\* A run waits for one approval, and for its agent to pause or to fail.
Pending ==
    \A g \in Approvals : approval[g] = "pending" =>
        /\ run \in TerminalRun \cup {"waiting"}
        /\ \A h \in Approvals : approval[h] = "pending" => h = g
Asked ==
    run \in {"waiting", "pending"} /\ pc \in {"round", "spawn"} =>
        /\ pc = "spawn"
        /\ \E g \in Approvals :
             /\ at[g] \in Closed \cup {"closing"} /\ verdict[g] \in Paused
             /\ run = "waiting" => approval[g] = "pending"

\* Only a cancelled run is swept by the watcher; the deferred sweep is last.
\* An ended process monitors nothing.
Swept ==
    /\ sweep["watch"] # "idle" => run = "cancelled"
    /\ sweep["exit"] # "idle" => pc = "exit"
    /\ sweep["exit"] \in {"remove", "swept"} => sessions = {}
    /\ \A w \in Sweepers : taken[w] # {} =>
         sweep[w] = "remove" \/ pc = "killed" \/ (w # "exit" /\ pc = "off")
    /\ Alive /\ sweep["timeout"] # "idle" => Triggered
    /\ SessionsReleased
    /\ ~Alive => monitors = {} /\ sweep["timeout"] = "idle"

Rounds == Quiet /\ Barrier /\ Ordered
Verdicts == Decided /\ Ended /\ Concluding /\ Final
Stored == Monitored /\ RowsTrue /\ Pending /\ Asked
IInv == TypeOK /\ Rounds /\ Verdicts /\ Stored /\ Swept

-----------------------------------------------------------------------------
(* What the operators give.                                                *)

\* When a step counts as completed, each of its tasks is.
LEMMA StepCompleted ==
  ASSUME NEW s \in CompletedSteps
  PROVE  TasksOf(s) \subseteq completed
<1>1. TasksOf(s) \subseteq Tasks /\ IsFiniteSet(Tasks)
  BY PipelineAssumption DEF TasksOf, PipelineAssumption
<1>2. IsFiniteSet(TasksOf(s))
  BY <1>1, FS_Subset
<1>3. Cardinality(TasksOf(s) \cap completed) = Cardinality(TasksOf(s))
  BY DEF CompletedSteps
<1>4. TasksOf(s) \cap completed = TasksOf(s)
  BY <1>2, <1>3, FS_Subset
<1> QED
  BY <1>4

LEMMA RunnableNeeds ==
  ASSUME NEW t \in Runnable
  PROVE  t \in Tasks \ completed /\ Needs(t) \subseteq completed
BY StepCompleted DEF Runnable, Needs

\* An approval that is chosen is chosen alone: no two steps have one place.
LEMMA Chosen ==
  /\ RoundTasks \subseteq Runnable
  /\ \A g \in Approvals \cap RoundTasks : RoundTasks = {g}
<1>1. RoundTasks \subseteq Runnable
  BY DEF RoundTasks
<1>2. ASSUME NEW g \in Approvals \cap RoundTasks, NEW h \in RoundTasks PROVE h = g
  <2>1. g \in Runnable \cap Approvals /\ h \in Runnable \cap Approvals
    BY <1>1, <1>2 DEF RoundTasks
  <2>2. Place[StepOf[g]] <= Place[StepOf[h]] /\ Place[StepOf[h]] <= Place[StepOf[g]]
    BY <2>1, <1>2 DEF RoundTasks
  <2>3. StepOf[g] \in Steps /\ StepOf[h] \in Steps
    BY <2>1, PipelineAssumption DEF Approvals, PipelineAssumption
  <2>4. Place[StepOf[g]] \in Nat /\ Place[StepOf[h]] \in Nat
    BY <2>3, PipelineAssumption DEF PipelineAssumption
  <2>5. Place[StepOf[g]] = Place[StepOf[h]]
    BY <2>2, <2>4
  <2> QED
    BY <2>1, <2>3, <2>5, PipelineAssumption DEF PipelineAssumption
<1> QED
  BY <1>1, <1>2

\* A report changes at most the row of its task, to what it says while the run
\* has not ended.
LEMMA Reported ==
  ASSUME TypeOK, NEW t \in Tasks, NEW s \in EndedTask \cup {"running"}, Report(t, s)
  PROVE  /\ row' \in [Tasks -> EndedTask \cup {"pending", "running", "waiting"}]
         /\ lost' \subseteq Tasks \cup {FinalStatus}
         /\ \A u \in Tasks : row'[u] # row[u] => u = t /\ (run \notin TerminalRun => row'[u] = s)
<1>1. UpdatedRow(t, s) \in EndedTask \cup {"pending", "running", "waiting"}
  BY DEF UpdatedRow, TypeOK
<1>2. run \notin TerminalRun => UpdatedRow(t, s) = s
  BY DEF UpdatedRow
<1>3. CASE row' = [row EXCEPT ![t] = UpdatedRow(t, s)] /\ UNCHANGED lost
  BY <1>1, <1>2, <1>3 DEF TypeOK
<1>4. CASE lost' = lost \cup {t} /\ UNCHANGED row
  BY <1>4 DEF TypeOK
<1> QED
  BY <1>3, <1>4 DEF Report

LEMMA InitIInv == Init => IInv
<1> SUFFICES ASSUME Init PROVE IInv
  OBVIOUS
<1> USE DEF Init
<1>1. TypeOK
  BY DEF TypeOK
<1>2. Rounds /\ Verdicts
  BY DEF Rounds, Quiet, Barrier, Ordered, Verdicts, Decided, Ended, Concluding, Final
<1>3. Stored /\ Swept
  BY DEF Stored, Monitored, RowsTrue, Pending, Asked, Swept, SessionsReleased, Alive, CompletedTask, Sweepers
<1> QED
  BY <1>1, <1>2, <1>3 DEF IInv

-----------------------------------------------------------------------------
(* A step of a task's goroutine.                                           *)

\* The goroutine goes on to another place: the round stays what it is.
LEMMA MoveRounds ==
  ASSUME TypeOK, Rounds, NEW t \in Tasks, NEW w, w # "none", at[t] # "none",
         at' = [at EXCEPT ![t] = w], UNCHANGED <<pc, completed>>
  PROVE  Rounds' /\ pc = "spawn"
BY DEF TypeOK, Rounds, Quiet, Barrier, Ordered

LEMMA Tolerances ==
  \A t : Tolerated(t) \in {"ignored", "failure"} /\ ChildStatus(t) \subseteq EndedTask
BY DEF Tolerated, ChildStatus, EndedTask

LEMMA SessionKeyType == \A t \in Tasks : SessionKey(t) \in Steps \cup Tasks
BY PipelineAssumption DEF SessionKey, PipelineAssumption

LEMMA ClosedRowsType ==
  ASSUME TypeOK, NEW s
  PROVE  ClosedRows(s) \in [Tasks -> EndedTask \cup {"pending", "running", "waiting"}]
BY DEF TypeOK, ClosedRows, EndedTask

\* A task whose goroutine is not through is not monitored.
LEMMA MoveMonitored ==
  ASSUME TypeOK, Monitored, NEW t \in Tasks, at[t] \notin Closed \cup {"none", "closing"},
         \A u \in Tasks \ {t} : at'[u] = at[u] /\ verdict'[u] = verdict[u],
         UNCHANGED <<monitors, completed, outcome>>
  PROVE  Monitored'
BY PipelineAssumption DEF TypeOK, Monitored, Async

LEMMA SpawnIInv ==
  ASSUME IInv, NEW t \in Tasks, Spawn(t)
  PROVE  IInv'
<1> USE DEF IInv, Spawn, Goto, agentVars, rowVars, historyVars
<1>1. TypeOK'
  BY DEF TypeOK
<1>2. Rounds'
  BY MoveRounds DEF TypeOK, Working
<1>3. Verdicts'
  BY DEF Verdicts, Decided, Ended, Concluding, Final, Closed
<1>4. Stored'
  BY DEF Stored, Monitored, RowsTrue, RowTrue, Leaving, InLoop, Pending, Asked, Closed
<1>5. Swept'
  BY DEF Swept, Alive, SessionsReleased, Triggered
<1> QED
  BY <1>1, <1>2, <1>3, <1>4, <1>5

LEMMA CheckIInv ==
  ASSUME IInv, NEW t \in Tasks, Check(t)
  PROVE  IInv'
<1> USE DEF IInv, Check, Decide, Fail, goroutineOnly, Goto, agentVars, rowVars,
    historyVars
<1>0. PICK w \in {"ready", "closing", "over"}, v \in EndedTask :
        /\ at' = [at EXCEPT ![t] = w]
        /\ verdict' = [verdict EXCEPT ![t] = v] \/ (w = "ready" /\ UNCHANGED verdict)
        /\ w = "over" => v = "failure"
  BY Tolerances DEF EndedTask, Tolerated
<1>a. at[t] = "spawned"
  OBVIOUS
<1>b. UNCHANGED <<goroutineOnly, warned, produced, active, sessions, monitors, run, row,
                  historyVars>>
  OBVIOUS
<1> HIDE DEF Check, Decide, Fail
<1> USE <1>0, <1>a, <1>b
<1>1. TypeOK'
  BY DEF TypeOK, Working
<1>2. Rounds'
  BY MoveRounds DEF TypeOK, Working
<1>3. Verdicts'
  <2>1. Decided'
    BY DEF TypeOK, Verdicts, Decided, Closed, CompletedTask
  <2> QED
    BY <2>1 DEF Verdicts, Ended, Concluding, Final
<1>4. Stored'
  <2>1. Monitored'
    BY MoveMonitored DEF TypeOK, Closed, Stored
  <2>2. RowsTrue'
    BY DEF TypeOK, Stored, RowsTrue, RowTrue, Leaving, InLoop, Closed
  <2>3. Pending'
    BY DEF Stored, Pending
  <2>4. Asked'
    BY DEF Rounds, Barrier, Stored, Asked, Closed
  <2> QED
    BY <2>1, <2>2, <2>3, <2>4 DEF Stored
<1>5. Swept'
  BY DEF Swept, Alive, SessionsReleased, Triggered
<1> QED
  BY <1>1, <1>2, <1>3, <1>4, <1>5

LEMMA ReportRunningIInv ==
  ASSUME IInv, NEW t \in Tasks, ReportRunning(t)
  PROVE  IInv'
<1> USE DEF IInv, ReportRunning, goroutineOnly, Goto, agentVars, rowVars, historyVars
<1>1. TypeOK'
  BY Reported DEF TypeOK, Working
<1>2. Rounds'
  BY MoveRounds DEF TypeOK, Working
<1>3. Verdicts'
  BY DEF Verdicts, Decided, Ended, Concluding, Final, Closed
<1>4. Stored'
  BY Reported DEF Stored, Monitored, RowsTrue, RowTrue, Leaving, InLoop, Pending, Asked, Closed,
      CompletedTask
<1>5. Swept'
  BY DEF Swept, Alive, SessionsReleased, Triggered
<1> QED
  BY <1>1, <1>2, <1>3, <1>4, <1>5

LEMMA TrackIInv ==
  ASSUME IInv, NEW t \in Tasks, Track(t)
  PROVE  IInv'
<1> USE DEF IInv, Track, goroutineOnly, Goto, agentVars, rowVars, historyVars
<1>1. TypeOK'
  BY DEF TypeOK, Working
<1>2. Rounds'
  BY MoveRounds DEF TypeOK, Working
<1>3. Verdicts'
  BY DEF Verdicts, Decided, Ended, Concluding, Final, Closed
<1>4. Stored'
  BY DEF Stored, Monitored, RowsTrue, RowTrue, Leaving, InLoop, Pending, Asked, Closed
<1>5. Swept'
  BY DEF Swept, Alive, SessionsReleased, Triggered
<1> QED
  BY <1>1, <1>2, <1>3, <1>4, <1>5

LEMMA OpenSessionIInv ==
  ASSUME IInv, NEW t \in Tasks, OpenSession(t)
  PROVE  IInv'
<1> USE DEF IInv, OpenSession, Decide, Fail, goroutineOnly, SessionKey, Goto,
    agentVars, rowVars, historyVars
<1>1. TypeOK'
  BY Tolerances, SessionKeyType DEF TypeOK, EndedTask, Working
<1>2. Rounds'
  BY MoveRounds DEF TypeOK, Working
<1>3. Verdicts'
    BY Tolerances DEF TypeOK, Verdicts, Decided, Ended, Concluding, Final, Closed,
      EndedTask
<1>4. Stored'
  <2>1. Monitored'
    BY MoveMonitored DEF TypeOK, Closed, Stored
  <2>2. RowsTrue'
    BY DEF TypeOK, Stored, RowsTrue, RowTrue, Leaving, InLoop, Closed
  <2>3. Pending'
    BY DEF Stored, Pending
  <2>4. Asked'
    BY DEF Rounds, Barrier, Stored, Asked, Closed
  <2> QED
    BY <2>1, <2>2, <2>3, <2>4 DEF Stored
<1>5. Swept'
  BY DEF Swept, Rounds, Quiet, Alive, SessionsReleased, Triggered
<1> QED
  BY <1>1, <1>2, <1>3, <1>4, <1>5

LEMMA ActionUnresolvedIInv ==
  ASSUME IInv, NEW t \in Tasks, ActionUnresolved(t)
  PROVE  IInv'
<1> USE DEF IInv, ActionUnresolved, Decide, goroutineOnly, Goto, agentVars, rowVars,
    historyVars
<1>1. TypeOK'
  BY DEF TypeOK, EndedTask, Working
<1>2. Rounds'
  BY MoveRounds DEF TypeOK, Working
<1>3. Verdicts'
  BY DEF TypeOK, Verdicts, Decided, Ended, Concluding, Final, Closed, EndedTask,
      CompletedTask
<1>4. Stored'
  <2>1. Monitored'
    BY MoveMonitored DEF TypeOK, Closed, Stored
  <2>2. RowsTrue'
    BY DEF TypeOK, Stored, RowsTrue, RowTrue, Leaving, InLoop, Closed
  <2>3. Pending'
    BY DEF Stored, Pending
  <2>4. Asked'
    BY DEF Rounds, Barrier, Stored, Asked, Closed
  <2> QED
    BY <2>1, <2>2, <2>3, <2>4 DEF Stored
<1>5. Swept'
  BY DEF Swept, Alive, SessionsReleased, Triggered
<1> QED
  BY <1>1, <1>2, <1>3, <1>4, <1>5

LEMMA ActionRefusedIInv ==
  ASSUME IInv, NEW t \in Tasks, ActionRefused(t)
  PROVE  IInv'
<1> USE DEF IInv, ActionRefused, Decide, goroutineOnly, Goto, agentVars, rowVars,
    historyVars
<1>1. TypeOK'
  BY DEF TypeOK, EndedTask, Working
<1>2. Rounds'
  BY MoveRounds DEF TypeOK, Working
<1>3. Verdicts'
  BY DEF TypeOK, Verdicts, Decided, Ended, Concluding, Final, EndedTask, CompletedTask
<1>4. Stored'
  BY DEF Stored, Monitored, RowsTrue, RowTrue, Leaving, InLoop, Pending, Asked, Closed
<1>5. Swept'
  BY DEF Swept, Alive, SessionsReleased, Triggered
<1> QED
  BY <1>1, <1>2, <1>3, <1>4, <1>5

LEMMA ExecuteIInv ==
  ASSUME IInv, NEW t \in Tasks, Execute(t)
  PROVE  IInv'
<1> USE DEF IInv, Execute, Decide, Fail, goroutineOnly, Goto, agentVars, rowVars,
    historyVars
<1>1. TypeOK'
  BY Tolerances DEF TypeOK, EndedTask, Working
<1>2. Rounds'
  BY MoveRounds DEF TypeOK, Working
<1>3. Verdicts'
    BY Tolerances DEF TypeOK, Verdicts, Decided, Ended, Concluding, Final, Closed,
      EndedTask
<1>4. Stored'
  <2>1. Monitored'
    BY MoveMonitored DEF TypeOK, Closed, Stored
  <2>2. RowsTrue'
    BY DEF TypeOK, Stored, RowsTrue, RowTrue, Leaving, InLoop, Closed
  <2>3. Pending'
    BY DEF Stored, Pending
  <2>4. Asked'
    BY DEF Rounds, Barrier, Stored, Asked, Closed
  <2> QED
    BY <2>1, <2>2, <2>3, <2>4 DEF Stored
<1>5. Swept'
  BY DEF Swept, Alive, SessionsReleased, Triggered
<1> QED
  BY <1>1, <1>2, <1>3, <1>4, <1>5

LEMMA AskApprovalIInv ==
  ASSUME IInv, NEW t \in Tasks, AskApproval(t)
  PROVE  IInv'
<1> USE DEF IInv, AskApproval, Decide, Goto, agentVars, rowVars, historyVars
<1>1. TypeOK'
  BY DEF TypeOK, EndedTask, Working
<1>2. Rounds'
  BY MoveRounds DEF TypeOK, Working
<1>3. Verdicts'
  BY DEF TypeOK, Verdicts, Decided, Ended, Concluding, Final, EndedTask, CompletedTask
<1>4. Stored'
  <2>1. Monitored'
    BY MoveMonitored DEF TypeOK, Closed, Stored
  <2>2. RowsTrue'
    <3>1. pc = "spawn" /\ t \in Approvals /\ at[t] = "tracked"
      BY DEF Rounds, Quiet
    <3>2. \A u \in Tasks \ {t} : at[u] = "none"
      BY <3>1 DEF Rounds, Barrier
    <3>3. /\ pc' = pc /\ outcome' = outcome /\ (run' = run \/ run' = "waiting")
          /\ run' \notin TerminalRun => run \notin TerminalRun
          /\ \A u \in Tasks \ {t} : at'[u] = at[u] /\ row'[u] = row[u]
          /\ row'[t] \in CompletedTask => row'[t] = row[t] /\ run' = run
      BY DEF TypeOK, CompletedTask, TerminalRun
    <3>4. ASSUME run' \notin TerminalRun, NEW u \in Tasks, row'[u] \in CompletedTask
          PROVE  /\ outcome[u] \in CompletedTask
                 /\ u \in Approvals /\ at'[u] # "none" /\ run' # "running"
                      => outcome[u] = "success"
      BY <3>1, <3>2, <3>3, <3>4 DEF Stored, RowsTrue, RowTrue, Leaving, InLoop, Closed
    <3> QED BY <3>3, <3>4 DEF RowsTrue, RowTrue
  <2>3. Pending'
    <3>1. CASE approval' = approval /\ run' = run
      BY <3>1 DEF Stored, Pending
    <3>2. CASE approval' = [approval EXCEPT ![t] = "pending"] /\ run' = "waiting"
      <4>1. pc = "spawn" /\ t \in Approvals /\ run \notin TerminalRun
        BY <3>2 DEF Rounds, Quiet, TypeOK, TerminalRun
      <4>2. \A g \in Approvals \ {t} : at[g] = "none"
        BY <4>1 DEF Rounds, Barrier, Approvals
      <4>3. run # "waiting"
        BY <4>1, <4>2 DEF Stored, Asked, Closed
      <4>4. \A g \in Approvals : approval[g] # "pending"
        BY <4>1, <4>3 DEF Stored, Pending
      <4> QED BY <3>2, <4>1, <4>4 DEF TypeOK, Pending
    <3> QED BY <3>1, <3>2
  <2>4. Asked'
    BY DEF TypeOK, Rounds, Quiet, Barrier, Stored, Asked, Closed, Paused
  <2> QED
    BY <2>1, <2>2, <2>3, <2>4 DEF Stored
<1>5. Swept'
  BY DEF TypeOK, Swept, Alive, SessionsReleased, Triggered
<1> QED
  BY <1>1, <1>2, <1>3, <1>4, <1>5

LEMMA TriggerChildIInv ==
  ASSUME IInv, NEW t \in Tasks, TriggerChild(t)
  PROVE  IInv'
<1> USE DEF IInv, TriggerChild, Decide, Fail, goroutineOnly, Goto, agentVars,
    rowVars, historyVars
<1>1. TypeOK'
  BY Tolerances DEF TypeOK, EndedTask, Working
<1>2. Rounds'
  BY MoveRounds DEF TypeOK, Working
<1>3. Verdicts'
    BY Tolerances DEF TypeOK, Verdicts, Decided, Ended, Concluding, Final, Closed,
      EndedTask
<1>4. Stored'
  <2>1. Monitored'
    <3>1. CASE monitors' = monitors
      BY <3>1, MoveMonitored DEF TypeOK, Closed, Stored
    <3>2. CASE monitors' # monitors
      <4>1. /\ monitors' = monitors \cup {t} /\ UNCHANGED <<completed, outcome>>
            /\ at' = [at EXCEPT ![t] = "closing"] /\ verdict' = [verdict EXCEPT ![t] = "success"]
            /\ at[t] = "tracked" /\ monitors \subseteq Tasks
        BY <3>2 DEF TypeOK, Async
      <4>2. at'[t] = "closing" /\ verdict'[t] = "success"
        BY <4>1 DEF TypeOK
      <4>3. \A u \in Tasks \ {t} : at'[u] = at[u] /\ verdict'[u] = verdict[u]
        BY <4>1 DEF TypeOK
      <4> QED BY <4>1, <4>2 DEF Stored, Monitored
    <3> QED BY <3>1, <3>2
  <2>2. RowsTrue'
    BY DEF TypeOK, Stored, RowsTrue, RowTrue, Leaving, InLoop, Closed
  <2>3. Pending'
    BY DEF Stored, Pending
  <2>4. Asked'
    BY DEF Rounds, Barrier, Stored, Asked, Closed
  <2> QED
    BY <2>1, <2>2, <2>3, <2>4 DEF Stored
<1>5. Swept'
  BY DEF Swept, Rounds, Quiet, Alive, SessionsReleased, Triggered
<1> QED
  BY <1>1, <1>2, <1>3, <1>4, <1>5

LEMMA ChildEndsIInv ==
  ASSUME IInv, NEW t \in Tasks, ChildEnds(t)
  PROVE  IInv'
<1> USE DEF IInv, ChildEnds, Decide, goroutineOnly, Goto, agentVars, rowVars,
    historyVars
<1>1. TypeOK'
  BY Tolerances DEF TypeOK, Working
<1>2. Rounds'
  BY DEF TypeOK, Rounds, Quiet, Barrier, Ordered
<1>3. Verdicts'
  BY Tolerances DEF TypeOK, Verdicts, Decided, Ended, Concluding, Final, Closed
<1>4. Stored'
  BY DEF Stored, Monitored, RowsTrue, RowTrue, Leaving, InLoop, Pending, Asked, Closed
<1>5. Swept'
  BY DEF Swept, Alive, SessionsReleased, Triggered
<1> QED
  BY <1>1, <1>2, <1>3, <1>4, <1>5

LEMMA CloseIInv ==
  ASSUME IInv, NEW t \in Tasks, Close(t)
  PROVE  IInv'
<1> USE DEF IInv, Close, goroutineOnly, Goto, agentVars, rowVars, historyVars
<1>0. verdict[t] \in EndedTask
  BY DEF Verdicts, Decided
<1>a. \A u \in Tasks : outcome[u] # outcome'[u] => u = t /\ outcome'[u] = verdict[u]
  BY DEF TypeOK
<1>b. outcome'[t] \in {"success", verdict[t]}
  BY DEF TypeOK
<1>d. pc = "spawn" /\ t \notin completed
  BY DEF Rounds, Quiet, Ordered
<1>1. TypeOK'
  BY <1>0, Reported DEF TypeOK, EndedTask, Working
<1>2. Rounds'
  BY MoveRounds DEF TypeOK, Working
<1>3. Verdicts'
  <2>3. Decided'
    BY <1>b DEF Verdicts, Decided, CompletedTask
  <2>5. Ended'
    BY <1>a, <1>d DEF Verdicts, Ended
  <2> QED
    BY <2>3, <2>5, <1>d DEF Verdicts, Concluding, Final
<1>4. Stored'
  <2>1. Monitored'
    BY DEF TypeOK, Stored, Monitored, Closed
  <2>2. RowsTrue'
    <3>0. /\ run' = run /\ pc' = "spawn" /\ verdict' = verdict /\ at[t] = "closing"
          /\ at'[t] = "untrack" /\ \A u \in Tasks \ {t} : at'[u] = at[u]
      BY <1>d DEF TypeOK
    <3>1. ASSUME run \notin TerminalRun, run # "running"
          PROVE  t \in Approvals /\ verdict[t] \in Paused
      <4>1. PICK g \in Approvals : at[g] \in Closed \cup {"closing"} /\ verdict[g] \in Paused
        BY <1>d, <3>1 DEF TypeOK, Stored, Asked
      <4>2. g = t
        BY <3>0, <4>1 DEF Rounds, Barrier, Closed
      <4> QED BY <4>1, <4>2
    <3>2. ASSUME run \notin TerminalRun, NEW u \in Tasks \ {t}, row'[u] \in CompletedTask
          PROVE  /\ RowTrue(u)'
                 /\ u \in Approvals /\ at'[u] # "none" /\ run' # "running"
                      => outcome'[u] = "success"
      <4>1. row'[u] = row[u] /\ outcome'[u] = outcome[u] /\ at'[u] = at[u]
        BY <1>0, <1>a, <3>0, Reported
      <4>2. /\ RowTrue(u)
            /\ u \in Approvals /\ at[u] # "none" /\ run # "running" => outcome[u] = "success"
        BY <3>2, <4>1 DEF Stored, RowsTrue
      <4> QED BY <1>d, <3>0, <4>1, <4>2 DEF RowTrue, Leaving, InLoop
    <3>3. ASSUME run \notin TerminalRun, row'[t] \in CompletedTask
          PROVE  /\ RowTrue(t)'
                 /\ t \in Approvals /\ run # "running" => outcome'[t] = "success"
      <4>1. CASE verdict[t] \in CompletedTask
        BY <1>b, <3>1, <3>3, <4>1 DEF RowTrue, CompletedTask, Paused, Ill
      <4>2. CASE verdict[t] \notin CompletedTask
        <5>1. row[t] \in CompletedTask
          BY <1>0, <3>3, <4>2, Reported
        <5>2. /\ outcome[t] \in CompletedTask
              /\ t \in Approvals /\ run # "running" => outcome[t] = "success"
          BY <1>d, <3>0, <3>3, <4>2, <5>1 DEF Stored, RowsTrue, RowTrue, Closed, Leaving, InLoop,
              CompletedTask
        <5>3. t \in Approvals /\ outcome[t] = "success" => outcome'[t] = "success"
          BY DEF TypeOK
        <5> QED
          BY <3>0, <3>1, <3>3, <4>2, <5>2, <5>3, <1>0 DEF RowTrue, Closed, CompletedTask, Ill, EndedTask
      <4> QED BY <4>1, <4>2
    <3> QED BY <3>0, <3>2, <3>3 DEF RowsTrue
  <2>3. Pending'
    BY DEF Stored, Pending
  <2>4. Asked'
    BY DEF Stored, Asked, Closed
  <2> QED
    BY <2>1, <2>2, <2>3, <2>4 DEF Stored
<1>5. Swept'
  BY DEF Swept, Alive, SessionsReleased, Triggered
<1> QED
  BY <1>1, <1>2, <1>3, <1>4, <1>5

LEMMA UntrackIInv ==
  ASSUME IInv, NEW t \in Tasks, Untrack(t)
  PROVE  IInv'
<1> USE DEF IInv, Untrack, goroutineOnly, Goto, agentVars, rowVars, historyVars
<1>1. TypeOK'
  BY DEF TypeOK
<1>2. Rounds'
  BY MoveRounds DEF TypeOK, Working
<1>3. Verdicts'
  BY DEF Verdicts, Decided, Ended, Concluding, Final, Closed
<1>4. Stored'
  BY DEF Stored, Monitored, RowsTrue, RowTrue, Leaving, InLoop, Pending, Asked, Closed
<1>5. Swept'
  BY DEF Swept, Alive, SessionsReleased, Triggered
<1> QED
  BY <1>1, <1>2, <1>3, <1>4, <1>5

LEMMA MonitorEndsIInv ==
  ASSUME IInv, NEW t \in Tasks, MonitorEnds(t)
  PROVE  IInv'
<1> USE DEF IInv, MonitorEnds, agentVars, rowVars, historyVars
<1>1. TypeOK'
  BY Tolerances, Reported DEF TypeOK
<1>2. Rounds'
  BY DEF TypeOK, Rounds, Quiet, Barrier, Ordered
<1>3. Verdicts'
  BY DEF Verdicts, Decided, Ended, Concluding, Final
<1>4. Stored'
  <2>1. Monitored'
    BY DEF Stored, Monitored
  <2>2. RowsTrue'
    <3>0. t \in Tasks /\ at' = at /\ verdict' = verdict /\ outcome' = outcome
          /\ pc' = pc /\ completed' = completed /\ run' = run
      OBVIOUS
    <3>1. \A u \in Tasks : row'[u] # row[u] => u = t
      BY Reported, Tolerances
    <3>2. run \notin TerminalRun => RowTrue(t)
      BY DEF Stored, Monitored, RowTrue, Verdicts, Ended, Closed, CompletedTask
    <3>3. \A u \in Tasks : RowTrue(u)' <=> RowTrue(u)
      BY <3>0 DEF RowTrue, Leaving, InLoop
    <3>4. t \notin Approvals
      BY DEF TypeOK, Approvals, Async
    <3> QED BY <3>0, <3>1, <3>2, <3>3, <3>4 DEF Stored, RowsTrue
  <2>3. Pending'
    BY DEF Stored, Pending
  <2>4. Asked'
    BY DEF Stored, Asked
  <2> QED
    BY <2>1, <2>2, <2>3, <2>4 DEF Stored
<1>5. Swept'
  BY DEF Swept, Alive, SessionsReleased, Triggered
<1> QED
  BY <1>1, <1>2, <1>3, <1>4, <1>5

LEMMA StartRoundIInv ==
  ASSUME IInv, StartRound
  PROVE  IInv'
<1> USE DEF IInv, StartRound, agentVars, rowVars, historyVars
<1>0. at' = [t \in Tasks |-> IF t \in RoundTasks THEN "queued" ELSE "none"]
  OBVIOUS
<1>a. /\ pc = "round" /\ pc' = "spawn" /\ \A t \in Tasks : at[t] = "none"
      /\ UNCHANGED <<verdict, completed, failed, warned, produced, active, sessions, monitors,
                     timer, sweep, doomed, taken, rowVars, historyVars>>
  BY DEF Rounds, Quiet
<1>b. \A t \in RoundTasks : t \in Tasks \ completed /\ Needs(t) \subseteq completed
  BY Chosen, RunnableNeeds
<1> HIDE DEF StartRound
<1> USE <1>0, <1>a, <1>b
<1>1. TypeOK'
  BY DEF TypeOK
<1>2. Rounds'
  <2>1. Barrier'
    BY <1>0, Chosen DEF Barrier, Approvals
  <2>2. Quiet' /\ Ordered'
    BY <1>0, <1>a, <1>b DEF Quiet, Ordered
  <2> QED BY <2>1, <2>2 DEF Rounds
<1>3. Verdicts'
  BY DEF Verdicts, Decided, Ended, Concluding, Final, Closed
<1>4. Stored'
  <2>1. Monitored'
    BY DEF TypeOK, Stored, Monitored, Closed, Async
  <2>2. RowsTrue'
    <3>1. run \notin TerminalRun => run = "running"
      BY DEF TypeOK, Stored, Asked
    <3>2. \A t \in Tasks : run \notin TerminalRun /\ row[t] \in CompletedTask =>
            outcome[t] \in CompletedTask
      BY DEF Stored, RowsTrue, RowTrue, Leaving, InLoop, Closed
    <3> QED BY <3>1, <3>2 DEF RowsTrue, RowTrue
  <2>3. Pending'
    BY DEF Stored, Pending
  <2>4. Asked'
    BY DEF Stored, Asked
  <2> QED
    BY <2>1, <2>2, <2>3, <2>4 DEF Stored
<1>5. Swept'
  BY DEF Swept, Alive, SessionsReleased, Triggered
<1> QED
  BY <1>1, <1>2, <1>3, <1>4, <1>5

LEMMA LeaveLoopIInv ==
  ASSUME IInv, LeaveLoop
  PROVE  IInv'
<1> USE DEF IInv, LeaveLoop, agentVars, rowVars, historyVars
<1>1. TypeOK'
  BY DEF TypeOK
<1>2. Rounds'
  BY DEF TypeOK, Rounds, Quiet, Barrier, Ordered
<1>3. Verdicts'
  BY DEF Verdicts, Decided, Ended, Concluding, Final
<1>4. Stored'
  <2>1. Monitored'
    BY DEF Stored, Monitored
  <2>2. RowsTrue'
    <3>1. /\ \A t \in Tasks : at[t] = "none" /\ at' = at
          /\ pc = "round" /\ pc' = "conclude" /\ UNCHANGED <<run, row, outcome, completed>>
      BY DEF Rounds, Quiet
    <3> QED BY DEF Stored, RowsTrue, RowTrue, Leaving, InLoop
  <2>3. Pending'
    BY DEF Stored, Pending
  <2>4. Asked'
    BY DEF Asked
  <2> QED
    BY <2>1, <2>2, <2>3, <2>4 DEF Stored
<1>5. Swept'
  BY DEF Swept, Alive, SessionsReleased, Triggered
<1> QED
  BY <1>1, <1>2, <1>3, <1>4, <1>5

LEMMA StopSpawningIInv ==
  ASSUME IInv, StopSpawning
  PROVE  IInv'
<1> USE DEF IInv, StopSpawning, agentVars, rowVars, historyVars
<1>0. /\ at' = [t \in Tasks |-> IF at[t] = "queued" THEN "none" ELSE at[t]]
      /\ UNCHANGED <<pc, verdict, completed, outcome, monitors, run, row, approval>>
  OBVIOUS
<1>1. TypeOK'
  BY DEF TypeOK
<1>2. Rounds'
  <2>1. \A t \in Tasks : at'[t] # "none" => at[t] # "none" /\ at'[t] = at[t]
    BY <1>0
  <2>2. Quiet' /\ Ordered'
    BY <1>0, <2>1 DEF Rounds, Quiet, Ordered
  <2>3. Barrier'
    BY <1>0, <2>1 DEF Rounds, Barrier, Approvals
  <2> QED BY <2>2, <2>3 DEF Rounds
<1>3. Verdicts'
  BY DEF Verdicts, Decided, Ended, Concluding, Final, Closed
<1>4. Stored'
  <2>1. Monitored'
    BY DEF TypeOK, Stored, Monitored, Closed, Async
  <2>2. RowsTrue'
    BY DEF Stored, RowsTrue, RowTrue, Leaving, InLoop, Closed
  <2>3. Pending'
    BY DEF Stored, Pending
  <2>4. Asked'
    <3>1. \A g \in Approvals : at[g] \in Closed \cup {"closing"} => at'[g] = at[g]
      BY <1>0 DEF Closed, Approvals
    <3> QED BY <3>1 DEF Stored, Asked
  <2> QED
    BY <2>1, <2>2, <2>3, <2>4 DEF Stored
<1>5. Swept'
  BY DEF Swept, Alive, SessionsReleased, Triggered
<1> QED
  BY <1>1, <1>2, <1>3, <1>4, <1>5

LEMMA EndRoundIInv ==
  ASSUME IInv, EndRound
  PROVE  IInv'
<1> USE DEF IInv, EndRound, agentVars, rowVars, historyVars
<1> DEFINE over == {t \in Tasks : at[t] = "over"}
<1>0. /\ pc = "spawn" /\ \A t \in Tasks : at[t] \in {"none", "over"}
      /\ completed' = completed \cup {t \in over : verdict[t] \in CompletedTask}
      /\ failed' = (\/ failed \/ Triggered
                    \/ \E t \in over : verdict[t] \in {"failure", "cancelled"})
      /\ pc' = IF \E t \in over : verdict[t] = "paused" THEN "leaving"
               ELSE IF failed' THEN "conclude" ELSE "round"
      /\ at' = [t \in Tasks |-> "none"] /\ verdict' = [t \in Tasks |-> "none"]
      /\ UNCHANGED <<outcome, monitors, run, row, approval>>
  OBVIOUS
<1>1. TypeOK'
  BY DEF TypeOK
<1>2. Rounds'
  BY DEF TypeOK, Rounds, Quiet, Barrier, Ordered
<1>3. Verdicts'
  BY DEF Verdicts, Decided, Ended, Concluding, Final, Closed
<1>4. Stored'
  <2>1. Monitored'
    <3> SUFFICES ASSUME NEW t \in monitors PROVE at'[t] = "none" /\ t \in completed'
      BY DEF Monitored
    <3>1. t \in Tasks
      BY DEF TypeOK, Async
    <3> QED BY <3>1 DEF Stored, Monitored, Closed, CompletedTask
  <2>2. RowsTrue'
    <3> SUFFICES ASSUME run \notin TerminalRun, NEW t \in Tasks, row[t] \in CompletedTask
                 PROVE  outcome[t] \in CompletedTask \/ Leaving'
      BY <1>0 DEF RowsTrue, RowTrue
    <3>1. CASE outcome[t] \in CompletedTask
      BY <3>1
    <3>2. CASE at[t] \in Closed /\ verdict[t] \in Ill /\ run = "running"
      <4>1. t \in over
        BY <1>0, <3>2 DEF Closed
      <4> QED
        BY <1>0, <3>2, <4>1 DEF Leaving, InLoop, Ill
    <3> QED BY <1>0, <3>1, <3>2 DEF Stored, RowsTrue, RowTrue, Leaving, InLoop, Closed
  <2>3. Pending'
    BY DEF Stored, Pending
  <2>4. Asked'
    <3>1. ASSUME run \in {"waiting", "pending"} PROVE pc' \in {"leaving", "conclude"}
      <4>1. PICK g \in Approvals : at[g] \in Closed \cup {"closing"} /\ verdict[g] \in Paused
        BY <1>0, <3>1 DEF Stored, Asked
      <4>2. g \in over /\ verdict[g] \in {"failure", "paused"}
        BY <1>0, <4>1 DEF Approvals, Closed, Paused
      <4> QED BY <1>0, <4>2
    <3> QED BY <1>0, <3>1 DEF Asked
  <2> QED
    BY <2>1, <2>2, <2>3, <2>4 DEF Stored
<1>5. Swept'
  BY DEF Swept, Alive, SessionsReleased, Triggered
<1> QED
  BY <1>1, <1>2, <1>3, <1>4, <1>5

LEMMA ConcludeIInv ==
  ASSUME IInv, Conclude
  PROVE  IInv'
<1> USE DEF IInv, Conclude, FinalizeRun, agentVars, rowVars, historyVars
<1>0. /\ pc = "conclude" /\ pc' = "leaving"
      /\ UNCHANGED <<at, verdict, completed, failed, warned, produced, active, sessions,
                     monitors, timer, sweep, doomed, taken, approval, starts, bare, outcome>>
  OBVIOUS
<1>a. /\ PipelineStatus \in {"failure", "warning", "success"}
      /\ PipelineStatus # "failure" => ~failed
  BY DEF PipelineStatus
<1>b. \/ UNCHANGED <<run, row>>
      \/ run' = PipelineStatus /\ row' = ClosedRows(PipelineStatus)
  OBVIOUS
<1>d. run \in TerminalRun => run' = run
  OBVIOUS
<1>c. lost' \subseteq Tasks \cup {FinalStatus}
  BY DEF TypeOK
<1> HIDE DEF Conclude
<1> USE <1>0, <1>a, <1>b, <1>c, <1>d
<1>1. TypeOK'
  BY ClosedRowsType DEF TypeOK, TerminalRun
<1>2. Rounds'
  BY DEF TypeOK, Rounds, Quiet, Barrier, Ordered
<1>3. Verdicts'
  <2>1. Decided' /\ Ended' /\ Concluding'
    BY <1>0 DEF Verdicts, Decided, Ended, Concluding
  <2>2. Final'
    <3>1. CASE UNCHANGED <<run, row>>
      BY <1>0, <3>1 DEF Verdicts, Final
    <3>2. CASE run' = PipelineStatus
      BY DEF Verdicts, Final, Concluding, Ended
    <3> QED BY <1>b, <3>1, <3>2
  <2> QED BY <2>1, <2>2 DEF Verdicts
<1>4. Stored'
  <2>1. Monitored'
    BY DEF Stored, Monitored
  <2>2. RowsTrue'
    <3>1. run' \notin TerminalRun => UNCHANGED <<run, row>>
      BY <1>a, <1>b DEF TerminalRun
    <3>2. \A t \in Tasks : at[t] = "none"
      BY <1>0 DEF Rounds, Quiet
    <3> QED BY <3>1 DEF Stored, RowsTrue, RowTrue, Leaving, InLoop
  <2>3. Pending'
    BY DEF Stored, Pending, TerminalRun
  <2>4. Asked'
    BY DEF Asked
  <2> QED
    BY <2>1, <2>2, <2>3, <2>4 DEF Stored
<1>5. Swept'
  <2>1. Alive /\ Alive' /\ sweep["exit"] = "idle" /\ pc' # "off" /\ sweep' = sweep
    BY DEF Swept, Alive, SessionsReleased, Triggered
  <2>2. sweep["watch"] # "idle" => run' = "cancelled"
    BY DEF Swept, TerminalRun
  <2> QED BY <2>1, <2>2 DEF Swept, SessionsReleased, Triggered
<1> QED
  BY <1>1, <1>2, <1>3, <1>4, <1>5

LEMMA ReturnIInv ==
  ASSUME IInv, Return
  PROVE  IInv'
<1> USE DEF IInv, Return, agentVars, rowVars, historyVars
<1>1. TypeOK'
  BY DEF TypeOK
<1>2. Rounds'
  BY DEF TypeOK, Rounds, Quiet, Barrier, Ordered
<1>3. Verdicts'
  BY DEF Verdicts, Decided, Ended, Concluding, Final
<1>4. Stored'
  BY DEF Stored, Monitored, RowsTrue, RowTrue, Leaving, InLoop, Pending, Asked
<1>5. Swept'
  BY DEF Swept, Alive, SessionsReleased, Triggered
<1> QED
  BY <1>1, <1>2, <1>3, <1>4, <1>5

LEMMA ExitIInv ==
  ASSUME IInv, Exit
  PROVE  IInv'
<1> USE DEF IInv, Exit, EndProcess, agentVars, rowVars, historyVars
<1>1. TypeOK'
  BY DEF TypeOK
<1>2. Rounds'
  BY DEF TypeOK, Rounds, Quiet, Barrier, Ordered
<1>3. Verdicts'
  BY DEF Verdicts, Decided, Ended, Concluding, Final, CompletedTask
<1>4. Stored'
  <2>1. Monitored'
    BY DEF Monitored
  <2>2. RowsTrue'
    <3>1. pc = "exit" /\ pc' = "off" /\ UNCHANGED <<run, row, outcome>>
      BY DEF Swept
    <3>2. at' = [t \in Tasks |-> "none"]
      OBVIOUS
    <3>a. Quiet
      BY DEF Rounds
    <3>3. \A t \in Tasks : at[t] = "none" /\ at'[t] = "none"
      BY ONLY <3>a, <3>1, <3>2 DEF Quiet
    <3> QED BY <3>3 DEF Stored, RowsTrue, RowTrue, Leaving, InLoop, Closed
  <2>3. Pending'
    BY DEF Stored, Pending
  <2>4. Asked'
    BY DEF Asked
  <2> QED
    BY <2>1, <2>2, <2>3, <2>4 DEF Stored
<1>5. Swept'
  BY DEF TypeOK, Swept, Sweepers, Alive, SessionsReleased, Triggered
<1> QED
  BY <1>1, <1>2, <1>3, <1>4, <1>5

LEMMA ExitCancelledIInv ==
  ASSUME IInv, ExitCancelled
  PROVE  IInv'
<1> USE DEF IInv, ExitCancelled, EndProcess, agentVars, rowVars, historyVars
<1>1. TypeOK'
  BY DEF TypeOK
<1>2. Rounds'
  BY DEF TypeOK, Rounds, Quiet, Barrier, Ordered
<1>3. Verdicts'
  BY DEF Verdicts, Decided, Ended, Concluding, Final, CompletedTask
<1>4. Stored'
  <2>1. Monitored'
    BY DEF Monitored
  <2>2. RowsTrue'
    BY DEF Swept, RowsTrue, TerminalRun
  <2>3. Pending'
    BY DEF Stored, Pending
  <2>4. Asked'
    BY DEF Asked
  <2> QED
    BY <2>1, <2>2, <2>3, <2>4 DEF Stored
<1>5. Swept'
  BY DEF TypeOK, Swept, Sweepers, Alive, SessionsReleased, Triggered
<1> QED
  BY <1>1, <1>2, <1>3, <1>4, <1>5

LEMMA TimeoutFiresIInv ==
  ASSUME IInv, TimeoutFires
  PROVE  IInv'
<1> USE DEF IInv, TimeoutFires, agentVars, rowVars, historyVars
<1>1. TypeOK'
  BY DEF TypeOK
<1>2. Rounds'
  BY DEF TypeOK, Rounds, Quiet, Barrier, Ordered
<1>3. Verdicts'
  BY DEF Verdicts, Decided, Ended, Concluding, Final
<1>4. Stored'
  BY DEF Stored, Monitored, RowsTrue, RowTrue, Leaving, InLoop, Pending, Asked
<1>5. Swept'
  BY DEF Swept, Alive, SessionsReleased, Triggered
<1> QED
  BY <1>1, <1>2, <1>3, <1>4, <1>5

LEMMA SeeCancelledIInv ==
  ASSUME IInv, SeeCancelled
  PROVE  IInv'
<1> USE DEF IInv, SeeCancelled, agentVars, rowVars, historyVars
<1>1. TypeOK'
  BY DEF TypeOK
<1>2. Rounds'
  BY DEF TypeOK, Rounds, Quiet, Barrier, Ordered
<1>3. Verdicts'
  BY DEF Verdicts, Decided, Ended, Concluding, Final
<1>4. Stored'
  BY DEF Stored, Monitored, RowsTrue, Pending, Asked, TerminalRun
<1>5. Swept'
  BY DEF Swept, Alive, SessionsReleased, Triggered
<1> QED
  BY <1>1, <1>2, <1>3, <1>4, <1>5

LEMMA SweepClearIInv ==
  ASSUME IInv, NEW w \in Sweepers, SweepClear(w)
  PROVE  IInv'
<1> USE DEF IInv, SweepClear, agentVars, rowVars, historyVars
<1>1. TypeOK'
  BY DEF TypeOK
<1>2. Rounds'
  BY DEF TypeOK, Rounds, Quiet, Barrier, Ordered
<1>3. Verdicts'
  BY DEF Verdicts, Decided, Ended, Concluding, Final
<1>4. Stored'
  BY DEF Stored, Monitored, RowsTrue, RowTrue, Leaving, InLoop, Pending, Asked
<1>5. Swept'
  BY DEF Swept, Alive, SessionsReleased, Triggered
<1> QED
  BY <1>1, <1>2, <1>3, <1>4, <1>5

LEMMA SweepReportIInv ==
  ASSUME IInv, NEW w \in Sweepers, NEW t \in Tasks, SweepReport(w, t)
  PROVE  IInv'
<1> USE DEF IInv, SweepReport, agentVars, rowVars, historyVars
<1>1. TypeOK'
  BY Reported DEF TypeOK, EndedTask
<1>2. Rounds'
  BY DEF TypeOK, Rounds, Quiet, Barrier, Ordered
<1>3. Verdicts'
  BY DEF Verdicts, Decided, Ended, Concluding, Final
<1>4. Stored'
  BY Reported DEF Stored, Monitored, RowsTrue, RowTrue, Leaving, InLoop, Pending, Asked, EndedTask,
      CompletedTask
<1>5. Swept'
  BY DEF Swept, Alive, SessionsReleased, Triggered
<1> QED
  BY <1>1, <1>2, <1>3, <1>4, <1>5

LEMMA SweepSessionsIInv ==
  ASSUME IInv, NEW w \in Sweepers, SweepSessions(w)
  PROVE  IInv'
<1> USE DEF IInv, SweepSessions, agentVars, rowVars, historyVars
<1>1. TypeOK'
  BY DEF TypeOK
<1>2. Rounds'
  BY DEF TypeOK, Rounds, Quiet, Barrier, Ordered
<1>3. Verdicts'
  BY DEF Verdicts, Decided, Ended, Concluding, Final
<1>4. Stored'
  BY DEF Stored, Monitored, RowsTrue, RowTrue, Leaving, InLoop, Pending, Asked
<1>5. Swept'
  BY DEF TypeOK, Swept, Rounds, Quiet, Alive, SessionsReleased, Triggered
<1> QED
  BY <1>1, <1>2, <1>3, <1>4, <1>5

LEMMA SweepRemoveIInv ==
  ASSUME IInv, NEW w \in Sweepers, NEW k \in taken[w], SweepRemove(w, k)
  PROVE  IInv'
<1> USE DEF IInv, SweepRemove, agentVars, rowVars, historyVars
<1>0. /\ taken' = [taken EXCEPT ![w] = taken[w] \ {k}]
      /\ sweep' = [sweep EXCEPT ![w] = "swept"] \/ sweep' = sweep
      /\ taken[w] # {k} => sweep' = sweep
      /\ Alive /\ sweep[w] = "remove"
      /\ UNCHANGED <<pc, at, verdict, completed, failed, warned, produced, active, sessions,
                     monitors, timer, doomed, run, row, approval, lost, starts, outcome, bare>>
  BY DEF TypeOK
<1> HIDE DEF SweepRemove
<1> USE <1>0
<1>1. TypeOK'
  BY DEF TypeOK
<1>2. Rounds'
  BY DEF TypeOK, Rounds, Quiet, Barrier, Ordered
<1>3. Verdicts'
  BY DEF Verdicts, Decided, Ended, Concluding, Final
<1>4. Stored'
  BY DEF Stored, Monitored, RowsTrue, RowTrue, Leaving, InLoop, Pending, Asked
<1>5. Swept'
  <2>1. \A v \in Sweepers :
          /\ sweep'[v] # "idle" => sweep[v] # "idle"
          /\ sweep'[v] \in {"remove", "swept"} => sweep[v] \in {"remove", "swept"}
          /\ taken'[v] # {} => taken[v] # {} /\ sweep'[v] = sweep[v]
    BY DEF TypeOK
  <2>2. "watch" \in Sweepers /\ "timeout" \in Sweepers /\ "exit" \in Sweepers
    BY DEF Sweepers
  <2>3. UNCHANGED <<pc, timer, sessions, run, monitors>> /\ Alive
    OBVIOUS
  <2>4. Swept
    OBVIOUS
  <2>5. \A v \in Sweepers : taken'[v] # {} => sweep'[v] = "remove"
    BY ONLY <2>1, <2>3, <2>4 DEF Swept, Alive
  <2>6. /\ sweep'["watch"] # "idle" => run = "cancelled"
        /\ sweep'["exit"] # "idle" => pc = "exit"
        /\ sweep'["exit"] \in {"remove", "swept"} => sessions = {}
        /\ sweep'["timeout"] # "idle" => Triggered
    BY ONLY <2>1, <2>2, <2>3, <2>4 DEF Swept
  <2> QED
    BY ONLY <2>3, <2>5, <2>6 DEF Swept, Alive, SessionsReleased, Triggered
<1> QED
  BY <1>1, <1>2, <1>3, <1>4, <1>5

LEMMA ApproveIInv ==
  ASSUME IInv, NEW g \in Approvals, Approve(g)
  PROVE  IInv'
<1> USE DEF IInv, Approve, agentVars, rowVars, historyVars
<1>1. TypeOK'
  BY DEF TypeOK, EndedTask
<1>2. Rounds'
  BY DEF TypeOK, Rounds, Quiet, Barrier, Ordered
<1>3. Verdicts'
  BY DEF Verdicts, Decided, Ended, Concluding, Final, CompletedTask
<1>4. Stored'
  BY DEF TypeOK, Rounds, Quiet, Stored, Monitored, RowsTrue, RowTrue, Leaving, InLoop, Pending,
      Asked, Closed, TerminalRun
<1>5. Swept'
  BY DEF Swept, Alive, SessionsReleased, Triggered
<1> QED
  BY <1>1, <1>2, <1>3, <1>4, <1>5

LEMMA RejectIInv ==
  ASSUME IInv, NEW g \in Approvals, Reject(g)
  PROVE  IInv'
<1> USE DEF IInv, Reject, agentVars, rowVars, historyVars
<1>1. TypeOK'
  BY DEF TypeOK, EndedTask, TerminalRun
<1>2. Rounds'
  BY DEF TypeOK, Rounds, Quiet, Barrier, Ordered
<1>3. Verdicts'
  BY DEF Verdicts, Decided, Ended, Concluding, Final
<1>4. Stored'
  BY DEF Stored, Monitored, RowsTrue, Pending, Asked, TerminalRun
<1>5. Swept'
  BY DEF Swept, Alive, SessionsReleased, Triggered
<1> QED
  BY <1>1, <1>2, <1>3, <1>4, <1>5

LEMMA CancelRunIInv ==
  ASSUME IInv, CancelRun
  PROVE  IInv'
<1> USE DEF IInv, CancelRun, agentVars, rowVars, historyVars
<1>1. TypeOK'
  BY DEF TypeOK, EndedTask, TerminalRun
<1>2. Rounds'
  BY DEF TypeOK, Rounds, Quiet, Barrier, Ordered
<1>3. Verdicts'
  BY DEF Verdicts, Decided, Ended, Concluding, Final
<1>4. Stored'
  BY DEF Stored, Monitored, RowsTrue, Pending, Asked, TerminalRun
<1>5. Swept'
  BY DEF Swept, Alive, SessionsReleased, Triggered
<1> QED
  BY <1>1, <1>2, <1>3, <1>4, <1>5

LEMMA ResumeIInv ==
  ASSUME IInv, Resume
  PROVE  IInv'
<1> USE DEF IInv, Resume, agentVars, rowVars, historyVars
<1>0. /\ pc = "off" /\ pc' = "round" /\ run = "pending" /\ run' = "running"
      /\ completed' = ResumedTasks \/ completed' = {}
      /\ bare' \in {bare, bare + 1} /\ failed' = FALSE /\ sessions' = {}
      /\ taken' = [w \in Sweepers |-> {}]
      /\ timer' \in {"armed", "unset"} /\ warned' = FALSE /\ produced' = {}
      /\ UNCHANGED <<at, verdict, active, monitors, sweep, doomed, row, approval, lost, starts,
                     outcome>>
  OBVIOUS
<1>a. \A t \in Tasks : at[t] = "none"
  BY <1>0 DEF Rounds, Quiet
<1>b. \A t \in Tasks : row[t] \in CompletedTask => outcome[t] \in CompletedTask
  BY <1>a DEF Stored, RowsTrue, RowTrue, Leaving, InLoop, TerminalRun
<1> HIDE DEF Resume
<1> USE <1>0, <1>a, <1>b
<1>1. TypeOK'
  <2>1. completed' \subseteq Tasks
    <3>1. completed' = ResumedTasks \/ completed' = {}
      OBVIOUS
    <3> QED BY ONLY <3>1 DEF ResumedTasks
  <2>2. run' \in TerminalRun \cup {"running", "waiting", "pending"}
        /\ timer' \in {"unset", "armed", "fired"}
        /\ pc' \in {"round", "spawn", "conclude", "leaving", "exit", "off", "killed"}
    BY <1>0
  <2>3. failed' \in BOOLEAN /\ warned' \in BOOLEAN
    BY <1>0
  <2>4. produced' \subseteq Tasks /\ sessions' \subseteq Steps \cup Tasks
        /\ taken' \in [Sweepers -> SUBSET (Steps \cup Tasks)] /\ bare' \in Nat
    BY <1>0 DEF TypeOK
  <2> HIDE <1>0, <1>a, <1>b
  <2>5. UNCHANGED <<at, verdict, active, monitors, sweep, doomed, row, approval, lost, starts,
                    outcome>>
    BY <1>0
  <2> QED BY <2>1, <2>2, <2>3, <2>4, <2>5 DEF TypeOK
<1>2. Rounds'
  BY DEF TypeOK, Rounds, Quiet, Barrier, Ordered
<1>3. Verdicts'
  BY DEF Verdicts, Decided, Ended, Concluding, Final, ResumedTasks
<1>4. Stored'
  <2>1. monitors = {}
    BY <1>0 DEF Swept, Alive, SessionsReleased, Triggered
  <2>2. Monitored'
    BY <1>0, <2>1 DEF Monitored
  <2>3. RowsTrue'
    <3>1. \A t \in Tasks : row'[t] \in CompletedTask =>
            outcome'[t] \in CompletedTask /\ at'[t] = "none"
      BY <1>0, <1>a, <1>b
    <3> QED BY <3>1 DEF RowsTrue, RowTrue
  <2>4. Pending' /\ Asked'
    BY <1>0 DEF Stored, Pending, Asked, TerminalRun
  <2> QED BY <2>2, <2>3, <2>4 DEF Stored
<1>5. Swept'
  BY DEF Swept, Alive, SessionsReleased, Triggered
<1> QED
  BY <1>1, <1>2, <1>3, <1>4, <1>5

-----------------------------------------------------------------------------
(* What follows.                                                           *)

LEMMA NextIInv == IInv /\ [Next]_vars => IInv'
<1> SUFFICES ASSUME IInv, [Next]_vars PROVE IInv'
  OBVIOUS
<1>1. CASE MainLoop
  BY <1>1, StartRoundIInv, LeaveLoopIInv, StopSpawningIInv, EndRoundIInv,
      ConcludeIInv, ReturnIInv, ExitIInv DEF MainLoop
<1>2. CASE TimeoutFires \/ SeeCancelled \/ ExitCancelled
  BY <1>2, TimeoutFiresIInv, SeeCancelledIInv, ExitCancelledIInv
<1>3. ASSUME NEW t \in Tasks, Goroutine(t) \/ MonitorEnds(t) PROVE IInv'
  BY <1>3, SpawnIInv, CheckIInv, ReportRunningIInv, TrackIInv, OpenSessionIInv,
      ActionUnresolvedIInv, ActionRefusedIInv, ExecuteIInv, AskApprovalIInv,
      TriggerChildIInv, ChildEndsIInv, CloseIInv, UntrackIInv, MonitorEndsIInv DEF
      Goroutine
<1>4. ASSUME NEW w \in Sweepers, Sweep(w) PROVE IInv'
  BY <1>4, SweepClearIInv, SweepReportIInv, SweepSessionsIInv, SweepRemoveIInv DEF Sweep
<1>5. ASSUME NEW g \in Approvals, Approve(g) \/ Reject(g) PROVE IInv'
  BY <1>5, ApproveIInv, RejectIInv
<1>6. CASE CancelRun \/ Resume
  BY <1>6, CancelRunIInv, ResumeIInv
<1>7. CASE UNCHANGED vars
  BY <1>7 DEF vars, agentVars, rowVars, historyVars, IInv, TypeOK, Rounds, Quiet,
      Barrier, Ordered, Verdicts, Decided, Ended, Concluding, Final, Stored, Monitored,
      RowsTrue, RowTrue, Leaving, InLoop, Pending, Asked, Swept, Alive, SessionsReleased, Triggered
<1> QED
  BY <1>1, <1>2, <1>3, <1>4, <1>5, <1>6, <1>7 DEF Next

LEMMA IInvHolds == Spec => []IInv
BY InitIInv, NextIInv, PTL DEF Spec

\* The agent's memory and the run's rows keep their types, for any pipeline.
THEOREM Typed == Spec => []TypeOK
<1>1. IInv => TypeOK
  BY DEF IInv
<1> QED
  BY <1>1, IInvHolds, PTL

\* A task is at work only when all it depends on has ended well, in whichever
\* attempt, although a resumed agent learns that from rows that reports,
\* monitors, sweeps and approvals write.
THEOREM DependenciesFirst == Spec => []DependenciesRespected
<1>1. IInv => DependenciesRespected
  <2> SUFFICES ASSUME IInv, NEW t \in Tasks, at[t] \in Working, NEW u \in Needs(t)
               PROVE  outcome[u] \in CompletedTask /\ at[u] = "none"
    BY DEF DependenciesRespected
  <2>1. at[t] # "none"
    BY DEF Working
  <2>2. u \in completed
    BY <2>1 DEF IInv, Rounds, Ordered
  <2>3. u \in Tasks
    BY <2>2 DEF IInv, TypeOK
  <2> QED
    BY <2>2, <2>3 DEF IInv, Rounds, Ordered, Verdicts, Ended
<1> QED
  BY <1>1, IInvHolds, PTL

\* What an approval's checkpoint archives and lists stays what it is: no other
\* task of the attempt runs beside the one that asks.
THEOREM ApprovalAlone == Spec => []ApprovalBarrier
<1>1. IInv => ApprovalBarrier
  BY DEF IInv, Rounds, Barrier, ApprovalBarrier, Working
<1> QED
  BY <1>1, IInvHolds, PTL

\* A run is reported as a success or a warning only when every task of it has
\* ended well, over all attempts and whatever reports were lost.
THEOREM SuccessMeansAll == Spec => []VerdictTruthful
<1>1. IInv => VerdictTruthful
  BY DEF IInv, Verdicts, Final, VerdictTruthful
<1> QED
  BY <1>1, IInvHolds, PTL

\* An agent that returns has asked for the removal of every container it
\* opened, but those that the timeout's cleanup, or that of a cancelled run,
\* had taken from the registry and not come to.
THEOREM NoContainerLeft == Spec => []SessionsReleased
<1>1. IInv => SessionsReleased
  BY DEF IInv, Swept, SessionsReleased
<1> QED
  BY <1>1, IInvHolds, PTL

-----------------------------------------------------------------------------
(* Work starts once, and rows end.                                         *)
(*                                                                         *)
(* What a row says of a task whose reports have all arrived, while the run *)
(* has not ended.  A resumed agent starts what no row shows as completed,  *)
(* so a task that was started must have such a row before the run can be   *)
(* taken up again, and no sweep may take it back.                          *)

\* Tasks of which no report was lost.
Heard == Tasks \ lost

\* Where a goroutine is before its task's work starts.
Before == {"queued", "spawned", "ready", "reported", "tracked", "open"}
Unstarted(t) == at[t] \in Before \/ (at[t] = "none" /\ InLoop /\ t \notin completed)

Counted ==
    \A t \in Heard \ Async :
        starts[t] <= 1 + bare /\ (Unstarted(t) => starts[t] <= bare)

\* Work started since the last fresh start is under way, or a completed row
\* tells of it.
Known ==
    run \notin TerminalRun =>
        \A t \in Heard \ Async : starts[t] > bare =>
            at[t] \in Closed \cup {"child", "closing"} \/ row[t] \in CompletedTask \/ Leaving

\* A status that was reported is in the row, or a later end of the same task.
Told ==
    run \notin TerminalRun =>
        \A t \in Heard :
            /\ at[t] \in Closed /\ verdict[t] \in CompletedTask =>
                 /\ row[t] \in EndedTask
                 /\ t \notin Async /\ ~Triggered => row[t] \in CompletedTask
            /\ t \in completed => row[t] \in EndedTask

\* A task that a sweep reports as cancelled belongs to the round that runs, or
\* the attempt is its run's last.
Chased ==
    run \notin TerminalRun =>
        /\ \A t \in active \ Approvals :
             \/ at[t] \in {"tracked", "open", "child", "closing", "untrack"}
             \/ at[t] = "over" /\ verdict[t] \notin CompletedTask
             \/ Leaving
        /\ \A w \in Sweepers : \A t \in doomed[w] \ Approvals :
             at[t] \notin {"none", "queued"} \/ Leaving

Cleaned ==
    /\ sweep["timeout"] # "idle" => Triggered
    /\ \A w \in Sweepers : doomed[w] # {} => sweep[w] = "report"
    /\ ~Alive => active = {} /\ \A w \in Sweepers : sweep[w] = "idle"

\* An approval has no work, and nothing else pauses.
Asking ==
    \A t \in Tasks :
        /\ t \in Approvals => starts[t] = 0 /\ at[t] \notin {"open", "child"}
        /\ verdict[t] = "paused" => t \in Approvals
        /\ at[t] \in Closed => verdict[t] # "none"

SInv == Counted /\ Known /\ Told /\ Chased /\ Cleaned /\ Asking /\ RowsSettled

LEMMA InitSInv == Init => SInv
<1> SUFFICES ASSUME Init PROVE SInv
  OBVIOUS
<1> USE DEF Init
<1>1. Counted /\ Known /\ Told
  BY DEF Counted, Known, Told, Heard, Unstarted, Before, Closed
<1>2. Chased /\ Cleaned
  BY DEF Chased, Cleaned, Sweepers, Alive, Triggered
<1>3. Asking /\ RowsSettled
  BY DEF Asking, RowsSettled, Closed
<1> QED
  BY <1>1, <1>2, <1>3 DEF SInv

\* A report that is not lost is in its task's row; an ended run that was not
\* cancelled keeps its rows.
LEMMA ReportHeard ==
  ASSUME TypeOK, NEW t \in Tasks, NEW s \in EndedTask \cup {"running"}, Report(t, s)
  PROVE  /\ \A u \in Tasks : row'[u] # row[u] => u = t
         /\ t \in Heard' /\ run \notin TerminalRun => row'[t] = s
         /\ Heard' \subseteq Heard /\ Heard \subseteq Tasks /\ (lost' = {} => lost = {})
         /\ run \in TerminalRun \ {"cancelled"} => row' = row
<1>1. CASE row' = [row EXCEPT ![t] = UpdatedRow(t, s)] /\ UNCHANGED lost
  BY <1>1 DEF TypeOK, UpdatedRow, Heard
<1>2. CASE lost' = lost \cup {t} /\ UNCHANGED row
  BY <1>2 DEF Heard
<1> QED
  BY <1>1, <1>2 DEF Report

LEMMA SpawnSInv ==
  ASSUME IInv, SInv, NEW t \in Tasks, Spawn(t)
  PROVE  SInv'
<1> USE DEF Spawn, agentVars, rowVars, historyVars, goroutineOnly, Goto, Decide, Fail,
    IInv, SInv
<1>1. Counted'
  BY DEF TypeOK, Counted, Heard, Unstarted, Before, InLoop
<1>2. Known'
  BY DEF TypeOK, Known, Heard, Closed, Leaving, InLoop
<1>3. Told'
  BY DEF TypeOK, Told, Heard, Closed, Triggered
<1>4. Chased'
  BY DEF TypeOK, Chased, Leaving, InLoop
<1>5. Cleaned'
  BY DEF TypeOK, Cleaned, Alive, Triggered
<1>6. Asking'
  BY DEF TypeOK, Asking, Closed
<1>7. RowsSettled'
  BY DEF TypeOK, RowsSettled
<1> QED
  BY <1>1, <1>2, <1>3, <1>4, <1>5, <1>6, <1>7

LEMMA CheckSInv ==
  ASSUME IInv, SInv, NEW t \in Tasks, Check(t)
  PROVE  SInv'
<1> USE DEF Check, agentVars, rowVars, historyVars, goroutineOnly, Goto, Decide, Fail,
    IInv, SInv
<1>0. PICK w \in {"ready", "closing", "over"}, v \in EndedTask :
        /\ at' = [at EXCEPT ![t] = w]
        /\ verdict' = [verdict EXCEPT ![t] = v] \/ (w = "ready" /\ UNCHANGED verdict)
        /\ w = "over" => v = "failure"
  BY Tolerances DEF EndedTask, Tolerated
<1>z. /\ at[t] = "spawned"
      /\ UNCHANGED <<goroutineOnly, warned, produced, active, sessions, monitors, run, row,
                     historyVars>>
  OBVIOUS
<1> HIDE DEF Check, Decide, Fail
<1> USE <1>0, <1>z
<1>1. Counted'
  BY DEF TypeOK, Counted, Heard, Unstarted, Before, InLoop
<1>2. Known'
  BY DEF TypeOK, Known, Heard, Closed, Leaving, InLoop
<1>3. Told'
  BY DEF TypeOK, Told, Heard, Closed, Triggered, CompletedTask
<1>4. Chased'
  BY DEF TypeOK, Chased, Leaving, InLoop
<1>5. Cleaned'
  BY DEF TypeOK, Cleaned, Alive, Triggered
<1>6. Asking'
  BY DEF TypeOK, Asking, Closed, EndedTask
<1>7. RowsSettled'
  BY DEF TypeOK, RowsSettled
<1> QED
  BY <1>1, <1>2, <1>3, <1>4, <1>5, <1>6, <1>7

LEMMA ReportRunningSInv ==
  ASSUME IInv, SInv, NEW t \in Tasks, ReportRunning(t)
  PROVE  SInv'
<1> USE DEF ReportRunning, agentVars, rowVars, historyVars, goroutineOnly, Goto, Decide,
    Fail, IInv, SInv
<1>0. /\ \A u \in Tasks : row'[u] # row[u] => u = t
      /\ t \in Heard' /\ run \notin TerminalRun => row'[t] = "running"
      /\ Heard' \subseteq Heard /\ Heard \subseteq Tasks /\ (lost' = {} => lost = {})
      /\ run \in TerminalRun \ {"cancelled"} => row' = row
  BY ReportHeard DEF EndedTask
<1>1. Counted'
  BY <1>0 DEF TypeOK, Counted, Unstarted, Before, InLoop
<1>2. Known'
  BY <1>0 DEF TypeOK, Known, Counted, Unstarted, Before, Closed, Leaving, InLoop
<1>3. Told'
  BY <1>0 DEF TypeOK, Told, Closed, Triggered, Rounds, Ordered
<1>4. Chased'
  BY DEF TypeOK, Chased, Leaving, InLoop
<1>5. Cleaned'
  BY DEF TypeOK, Cleaned, Alive, Triggered
<1>6. Asking'
  BY DEF TypeOK, Asking, Closed
<1>7. RowsSettled'
  BY <1>0 DEF TypeOK, RowsSettled, TerminalRun
<1> QED
  BY <1>1, <1>2, <1>3, <1>4, <1>5, <1>6, <1>7

LEMMA TrackSInv ==
  ASSUME IInv, SInv, NEW t \in Tasks, Track(t)
  PROVE  SInv'
<1> USE DEF Track, agentVars, rowVars, historyVars, goroutineOnly, Goto, Decide, Fail,
    IInv, SInv
<1>1. Counted'
  BY DEF TypeOK, Counted, Heard, Unstarted, Before, InLoop
<1>2. Known'
  BY DEF TypeOK, Known, Heard, Closed, Leaving, InLoop
<1>3. Told'
  BY DEF TypeOK, Told, Heard, Closed, Triggered
<1>4. Chased'
  BY DEF TypeOK, Chased, Leaving, InLoop
<1>5. Cleaned'
  BY DEF TypeOK, Cleaned, Alive, Triggered, Rounds, Quiet
<1>6. Asking'
  BY DEF TypeOK, Asking, Closed
<1>7. RowsSettled'
  BY DEF TypeOK, RowsSettled
<1> QED
  BY <1>1, <1>2, <1>3, <1>4, <1>5, <1>6, <1>7

LEMMA OpenSessionSInv ==
  ASSUME IInv, SInv, NEW t \in Tasks, OpenSession(t)
  PROVE  SInv'
<1> USE DEF OpenSession, agentVars, rowVars, historyVars, goroutineOnly, Goto, Decide,
    Fail, IInv, SInv
<1>1. Counted'
  BY DEF TypeOK, Counted, Heard, Unstarted, Before, InLoop
<1>2. Known'
  BY DEF TypeOK, Known, Heard, Closed, Leaving, InLoop
<1>3. Told'
  BY DEF TypeOK, Told, Heard, Closed, Triggered
<1>4. Chased'
  BY DEF TypeOK, Chased, Leaving, InLoop
<1>5. Cleaned'
  BY DEF TypeOK, Cleaned, Alive, Triggered
<1>6. Asking'
  BY Tolerances DEF TypeOK, Asking, Closed, Approvals
<1>7. RowsSettled'
  BY DEF TypeOK, RowsSettled
<1> QED
  BY <1>1, <1>2, <1>3, <1>4, <1>5, <1>6, <1>7

LEMMA ActionUnresolvedSInv ==
  ASSUME IInv, SInv, NEW t \in Tasks, ActionUnresolved(t)
  PROVE  SInv'
<1> USE DEF ActionUnresolved, agentVars, rowVars, historyVars, goroutineOnly, Goto,
    Decide, Fail, IInv, SInv
<1>1. Counted'
  BY DEF TypeOK, Counted, Heard, Unstarted, Before, InLoop
<1>2. Known'
  BY DEF TypeOK, Known, Heard, Closed, Leaving, InLoop
<1>3. Told'
  BY DEF TypeOK, Told, Heard, Closed, Triggered, CompletedTask
<1>4. Chased'
  BY DEF TypeOK, Chased, Leaving, InLoop, CompletedTask
<1>5. Cleaned'
  BY DEF TypeOK, Cleaned, Alive, Triggered
<1>6. Asking'
  BY DEF TypeOK, Asking, Closed
<1>7. RowsSettled'
  BY DEF TypeOK, RowsSettled
<1> QED
  BY <1>1, <1>2, <1>3, <1>4, <1>5, <1>6, <1>7

LEMMA ActionRefusedSInv ==
  ASSUME IInv, SInv, NEW t \in Tasks, ActionRefused(t)
  PROVE  SInv'
<1> USE DEF ActionRefused, agentVars, rowVars, historyVars, goroutineOnly, Goto, Decide,
    Fail, IInv, SInv
<1>1. Counted'
  BY DEF TypeOK, Counted, Heard, Unstarted, Before, InLoop
<1>2. Known'
  BY DEF TypeOK, Known, Heard, Closed, Leaving, InLoop
<1>3. Told'
  BY DEF TypeOK, Told, Heard, Closed, Triggered
<1>4. Chased'
  BY DEF TypeOK, Chased, Leaving, InLoop
<1>5. Cleaned'
  BY DEF TypeOK, Cleaned, Alive, Triggered
<1>6. Asking'
  BY DEF TypeOK, Asking, Closed
<1>7. RowsSettled'
  BY DEF TypeOK, RowsSettled
<1> QED
  BY <1>1, <1>2, <1>3, <1>4, <1>5, <1>6, <1>7

LEMMA ExecuteSInv ==
  ASSUME IInv, SInv, NEW t \in Tasks, Execute(t)
  PROVE  SInv'
<1> USE DEF Execute, agentVars, rowVars, historyVars, goroutineOnly, Goto, Decide, Fail,
    IInv, SInv
<1>1. Counted'
  BY DEF TypeOK, Counted, Heard, Unstarted, Before, InLoop
<1>2. Known'
  BY DEF TypeOK, Known, Heard, Closed, Leaving, InLoop
<1>3. Told'
  BY DEF TypeOK, Told, Heard, Closed, Triggered
<1>4. Chased'
  BY DEF TypeOK, Chased, Leaving, InLoop
<1>5. Cleaned'
  BY DEF TypeOK, Cleaned, Alive, Triggered
<1>6. Asking'
  BY Tolerances DEF TypeOK, Asking, Closed
<1>7. RowsSettled'
  BY DEF TypeOK, RowsSettled
<1> QED
  BY <1>1, <1>2, <1>3, <1>4, <1>5, <1>6, <1>7

LEMMA AskApprovalSInv ==
  ASSUME IInv, SInv, NEW t \in Tasks, AskApproval(t)
  PROVE  SInv'
<1> USE DEF AskApproval, agentVars, rowVars, historyVars, goroutineOnly, Goto, Decide,
    Fail, IInv, SInv
<1>1. Counted'
  BY DEF TypeOK, Counted, Heard, Unstarted, Before, InLoop
<1>2. Known'
    BY DEF TypeOK, Known, Heard, Closed, Leaving, InLoop, Rounds, Quiet, Barrier,
      Asking, TerminalRun
<1>3. Told'
    BY DEF TypeOK, Told, Heard, Closed, Triggered, Rounds, Ordered, CompletedTask,
      TerminalRun
<1>4. Chased'
  BY DEF TypeOK, Chased, Leaving, InLoop, Rounds, Quiet, Barrier, TerminalRun
<1>5. Cleaned'
  BY DEF TypeOK, Cleaned, Alive, Triggered
<1>6. Asking'
  BY DEF TypeOK, Asking, Closed
<1>7. RowsSettled'
  BY DEF TypeOK, RowsSettled
<1> QED
  BY <1>1, <1>2, <1>3, <1>4, <1>5, <1>6, <1>7

LEMMA TriggerChildSInv ==
  ASSUME IInv, SInv, NEW t \in Tasks, TriggerChild(t)
  PROVE  SInv'
<1> USE DEF TriggerChild, agentVars, rowVars, historyVars, goroutineOnly, Goto, Decide,
    Fail, IInv, SInv
<1>1. Counted'
  BY DEF TypeOK, Counted, Heard, Unstarted, Before, InLoop
<1>2. Known'
  BY DEF TypeOK, Known, Heard, Closed, Leaving, InLoop
<1>3. Told'
  BY DEF TypeOK, Told, Heard, Closed, Triggered
<1>4. Chased'
  BY DEF TypeOK, Chased, Leaving, InLoop
<1>5. Cleaned'
  BY DEF TypeOK, Cleaned, Alive, Triggered
<1>6. Asking'
  BY Tolerances DEF TypeOK, Asking, Closed, Approvals
<1>7. RowsSettled'
  BY DEF TypeOK, RowsSettled
<1> QED
  BY <1>1, <1>2, <1>3, <1>4, <1>5, <1>6, <1>7

LEMMA ChildEndsSInv ==
  ASSUME IInv, SInv, NEW t \in Tasks, ChildEnds(t)
  PROVE  SInv'
<1> USE DEF ChildEnds, agentVars, rowVars, historyVars, goroutineOnly, Goto, Decide,
    Fail, IInv, SInv
<1>1. Counted'
  BY DEF TypeOK, Counted, Heard, Unstarted, Before, InLoop
<1>2. Known'
  BY DEF TypeOK, Known, Heard, Closed, Leaving, InLoop
<1>3. Told'
  BY DEF TypeOK, Told, Heard, Closed, Triggered
<1>4. Chased'
  BY DEF TypeOK, Chased, Leaving, InLoop
<1>5. Cleaned'
  BY DEF TypeOK, Cleaned, Alive, Triggered
<1>6. Asking'
  BY Tolerances DEF TypeOK, Asking, Closed, EndedTask
<1>7. RowsSettled'
  BY DEF TypeOK, RowsSettled
<1> QED
  BY <1>1, <1>2, <1>3, <1>4, <1>5, <1>6, <1>7

LEMMA CloseSInv ==
  ASSUME IInv, SInv, NEW t \in Tasks, Close(t)
  PROVE  SInv'
<1> USE DEF Close, agentVars, rowVars, historyVars, goroutineOnly, Goto, Decide, Fail,
    IInv, SInv
<1>0. /\ \A u \in Tasks : row'[u] # row[u] => u = t
      /\ t \in Heard' /\ run \notin TerminalRun => row'[t] = verdict[t]
      /\ Heard' \subseteq Heard /\ Heard \subseteq Tasks /\ (lost' = {} => lost = {})
      /\ run \in TerminalRun \ {"cancelled"} => row' = row
  BY ReportHeard DEF Verdicts, Decided
<1>z. verdict[t] \in EndedTask
  BY DEF Verdicts, Decided
<1>1. Counted'
  BY <1>0 DEF TypeOK, Counted, Unstarted, Before, InLoop
<1>2. Known'
  BY <1>0 DEF TypeOK, Known, Closed, Leaving, InLoop
<1>3. Told'
  BY <1>0, <1>z DEF TypeOK, Told, Closed, Triggered, CompletedTask, Rounds, Ordered
<1>4. Chased'
  BY DEF TypeOK, Chased, Leaving, InLoop
<1>5. Cleaned'
  BY DEF TypeOK, Cleaned, Alive, Triggered
<1>6. Asking'
  BY <1>z DEF TypeOK, Asking, Closed, EndedTask
<1>7. RowsSettled'
  BY <1>0 DEF TypeOK, RowsSettled, TerminalRun
<1> QED
  BY <1>1, <1>2, <1>3, <1>4, <1>5, <1>6, <1>7

LEMMA UntrackSInv ==
  ASSUME IInv, SInv, NEW t \in Tasks, Untrack(t)
  PROVE  SInv'
<1> USE DEF Untrack, agentVars, rowVars, historyVars, goroutineOnly, Goto, Decide, Fail,
    IInv, SInv
<1>1. Counted'
  BY DEF TypeOK, Counted, Heard, Unstarted, Before, InLoop
<1>2. Known'
  BY DEF TypeOK, Known, Heard, Closed, Leaving, InLoop
<1>3. Told'
  BY DEF TypeOK, Told, Heard, Closed, Triggered
<1>4. Chased'
  BY DEF TypeOK, Chased, Leaving, InLoop
<1>5. Cleaned'
  BY DEF TypeOK, Cleaned, Alive, Triggered
<1>6. Asking'
  BY DEF TypeOK, Asking, Closed
<1>7. RowsSettled'
  BY DEF TypeOK, RowsSettled
<1> QED
  BY <1>1, <1>2, <1>3, <1>4, <1>5, <1>6, <1>7

LEMMA MonitorEndsSInv ==
  ASSUME IInv, SInv, NEW t \in Tasks, MonitorEnds(t)
  PROVE  SInv'
<1> USE DEF MonitorEnds, agentVars, rowVars, historyVars, goroutineOnly, Goto, Decide,
    Fail, IInv, SInv
<1>s. PICK s \in ChildStatus(t) : Report(t, s)
  OBVIOUS
<1>0. /\ \A u \in Tasks : row'[u] # row[u] => u = t
      /\ t \in Heard' /\ run \notin TerminalRun => row'[t] = s
      /\ Heard' \subseteq Heard /\ Heard \subseteq Tasks /\ (lost' = {} => lost = {})
      /\ run \in TerminalRun \ {"cancelled"} => row' = row
  BY <1>s, ReportHeard, Tolerances
<1>z. t \in Async /\ s \in EndedTask
  BY Tolerances, <1>s DEF TypeOK
<1>1. Counted'
  BY <1>0 DEF TypeOK, Counted, Unstarted, Before, InLoop
<1>2. Known'
  BY <1>0, <1>z DEF TypeOK, Known, Closed, Leaving, InLoop
<1>3. Told'
  BY <1>0, <1>z DEF TypeOK, Told, Closed, Triggered
<1>4. Chased'
  BY DEF TypeOK, Chased, Leaving, InLoop
<1>5. Cleaned'
  BY DEF TypeOK, Cleaned, Alive, Triggered
<1>6. Asking'
  BY DEF TypeOK, Asking, Closed
<1>7. RowsSettled'
  BY <1>0 DEF TypeOK, RowsSettled, TerminalRun
<1> QED
  BY <1>1, <1>2, <1>3, <1>4, <1>5, <1>6, <1>7

LEMMA StartRoundSInv ==
  ASSUME IInv, SInv, StartRound
  PROVE  SInv'
<1> USE DEF StartRound, agentVars, rowVars, historyVars, goroutineOnly, Goto, Decide,
    Fail, IInv, SInv
<1>0. /\ pc = "round" /\ pc' = "spawn" /\ \A t \in Tasks : at[t] = "none"
      /\ \A t \in Tasks : at'[t] \in {"none", "queued"}
      /\ \A t \in Tasks : at'[t] = "queued" => t \notin completed
      /\ UNCHANGED <<completed, active, doomed, taken, run, row, starts, bare, lost, verdict>>
  BY Chosen, RunnableNeeds DEF Rounds, Quiet
<1>1. Counted'
  BY ONLY <1>0, Counted DEF Counted, Heard, Unstarted, Before, InLoop
<1>2. Known'
  BY ONLY <1>0, Known DEF Known, Heard, Closed, Leaving, InLoop
<1>3. Told'
  BY DEF TypeOK, Told, Heard, Closed, Triggered
<1>4. Chased'
  BY ONLY <1>0, Chased, TypeOK DEF TypeOK, Chased, Leaving, InLoop
<1>5. Cleaned'
  BY DEF TypeOK, Cleaned, Alive, Triggered
<1>6. Asking'
  BY DEF TypeOK, Asking, Closed
<1>7. RowsSettled'
  BY DEF TypeOK, RowsSettled
<1> QED
  BY <1>1, <1>2, <1>3, <1>4, <1>5, <1>6, <1>7

LEMMA LeaveLoopSInv ==
  ASSUME IInv, SInv, LeaveLoop
  PROVE  SInv'
<1> USE DEF LeaveLoop, agentVars, rowVars, historyVars, goroutineOnly, Goto, Decide,
    Fail, IInv, SInv
<1>1. Counted'
  BY DEF TypeOK, Counted, Heard, Unstarted, Before, InLoop
<1>2. Known'
  BY DEF TypeOK, Known, Heard, Closed, Leaving, InLoop
<1>3. Told'
  BY DEF TypeOK, Told, Heard, Closed, Triggered
<1>4. Chased'
  BY DEF TypeOK, Chased, Leaving, InLoop
<1>5. Cleaned'
  BY DEF TypeOK, Cleaned, Alive, Triggered
<1>6. Asking'
  BY DEF TypeOK, Asking, Closed
<1>7. RowsSettled'
  BY DEF TypeOK, RowsSettled
<1> QED
  BY <1>1, <1>2, <1>3, <1>4, <1>5, <1>6, <1>7

LEMMA StopSpawningSInv ==
  ASSUME IInv, SInv, StopSpawning
  PROVE  SInv'
<1> USE DEF StopSpawning, agentVars, rowVars, historyVars, goroutineOnly, Goto, Decide,
    Fail, IInv, SInv
<1>1. Counted'
  BY DEF TypeOK, Counted, Heard, Unstarted, Before, InLoop
<1>2. Known'
  BY DEF TypeOK, Known, Heard, Closed, Leaving, InLoop
<1>3. Told'
  BY DEF TypeOK, Told, Heard, Closed, Triggered
<1>4. Chased'
  BY DEF TypeOK, Chased, Leaving, InLoop
<1>5. Cleaned'
  BY DEF TypeOK, Cleaned, Alive, Triggered
<1>6. Asking'
  BY DEF TypeOK, Asking, Closed
<1>7. RowsSettled'
  BY DEF TypeOK, RowsSettled
<1> QED
  BY <1>1, <1>2, <1>3, <1>4, <1>5, <1>6, <1>7

LEMMA EndRoundSInv ==
  ASSUME IInv, SInv, EndRound
  PROVE  SInv'
<1> USE DEF EndRound, agentVars, rowVars, historyVars, goroutineOnly, Goto, Decide,
    Fail, IInv, SInv
<1> DEFINE over == {t \in Tasks : at[t] = "over"}
<1>0. /\ pc = "spawn" /\ \A t \in Tasks : at[t] \in {"none", "over"}
      /\ completed' = completed \cup {t \in over : verdict[t] \in CompletedTask}
      /\ failed' = (\/ failed \/ Triggered
                    \/ \E t \in over : verdict[t] \in {"failure", "cancelled"})
      /\ pc' = IF \E t \in over : verdict[t] = "paused" THEN "leaving"
               ELSE IF failed' THEN "conclude" ELSE "round"
      /\ at' = [t \in Tasks |-> "none"] /\ verdict' = [t \in Tasks |-> "none"]
      /\ UNCHANGED <<outcome, monitors, active, doomed, taken, sweep, timer, run, row, lost, starts, bare>>
  OBVIOUS
<1>a. pc' \in {"round", "leaving", "conclude"}
  BY <1>0
<1>b. pc' = "round" => ~Triggered /\ \A t \in over : verdict[t] \in CompletedTask /\ t \in completed'
  <2>1. \A t \in over : verdict[t] \in EndedTask \cup {"paused"}
    BY <1>0 DEF TypeOK, Asking, Closed
  <2> QED BY <1>0, <2>1 DEF EndedTask, CompletedTask
<1>c. ASSUME run \in {"waiting", "pending"}
      PROVE  \A t \in Tasks \ Approvals : at[t] = "none"
  <2>1. PICK g \in Approvals : at[g] \in Closed \cup {"closing"}
    BY <1>0, <1>c DEF Stored, Asked
  <2> QED BY <2>1 DEF Rounds, Barrier, Closed
<1>d. run \in TerminalRun \cup {"running", "waiting", "pending"}
  BY DEF TypeOK
<1>e. \A t \in Tasks : at'[t] = "none"
  BY <1>0
<1> HIDE DEF EndRound
<1>1. Counted'
  BY <1>0, <1>b, <1>e DEF Counted, Heard, Unstarted, Before, InLoop
<1>2. Known'
  <2> SUFFICES ASSUME run \notin TerminalRun, NEW t \in Heard \ Async, starts[t] > bare
               PROVE  row[t] \in CompletedTask \/ Leaving'
    BY <1>0 DEF Known, Heard
  <2>1. t \in Tasks /\ ~Leaving /\ starts[t] # 0
    BY <1>0 DEF TypeOK, Heard, Leaving, InLoop
  <2>2. CASE at[t] = "none"
    BY <2>1, <2>2 DEF Known, Closed
  <2>3. CASE at[t] = "over" /\ pc' = "round"
    BY <1>b, <2>1, <2>3 DEF Told, Closed
  <2>4. CASE at[t] = "over" /\ pc' # "round"
    <3>1. t \notin Approvals
      BY <2>1 DEF Asking
    <3>2. run = "running"
      BY <1>c, <1>d, <2>1, <2>4, <3>1
    <3> QED BY <1>0, <1>a, <2>4, <3>2 DEF Leaving, InLoop
  <2> QED BY <1>0, <2>1, <2>2, <2>3, <2>4
<1>3. Told'
  BY <1>0, <1>e DEF Told, Heard, Closed
<1>4. Chased'
  <2> SUFFICES ASSUME run \notin TerminalRun
               PROVE  \/ Leaving'
                      \/ /\ active \subseteq Approvals
                         /\ \A w \in Sweepers : doomed[w] \subseteq Approvals
    BY <1>0 DEF Chased
  <2>1. ~Leaving /\ active \subseteq Tasks /\ \A w \in Sweepers : doomed[w] \subseteq Tasks
    BY <1>0 DEF TypeOK, Leaving, InLoop
  <2>2. CASE run = "running" /\ pc' # "round"
    BY <1>0, <1>a, <2>2 DEF Leaving, InLoop
  <2>3. CASE run # "running"
    <3>1. \A t \in Tasks \ Approvals : at[t] = "none"
      BY <1>c, <1>d, <2>3
    <3> QED BY <2>1, <3>1 DEF Chased
  <2>4. CASE pc' = "round"
    <3>1. active \subseteq Approvals
      BY <1>0, <1>b, <2>1, <2>4 DEF Chased
    <3>2. \A w \in Sweepers : doomed[w] = {}
      BY <1>0, <1>b, <2>4 DEF Cleaned, Swept, Sweepers, TerminalRun
    <3> QED BY <3>1, <3>2
  <2> QED BY <1>d, <2>2, <2>3, <2>4
<1>5. Cleaned'
  BY <1>0, <1>a DEF Cleaned, Alive, Triggered
<1>6. Asking'
  BY <1>0, <1>e DEF Asking, Closed
<1>7. RowsSettled'
  BY <1>0 DEF RowsSettled
<1> QED
  BY <1>1, <1>2, <1>3, <1>4, <1>5, <1>6, <1>7

LEMMA ConcludeSInv ==
  ASSUME IInv, SInv, Conclude
  PROVE  SInv'
<1> USE DEF Conclude, agentVars, rowVars, historyVars, goroutineOnly, Goto, Decide,
    Fail, IInv, SInv
<1>0. UNCHANGED <<run, row>> \/ run' \in TerminalRun
  BY DEF FinalizeRun, PipelineStatus, TerminalRun
<1>r. \A t \in Tasks : at[t] = "none"
  BY DEF Rounds, Quiet
<1>v. FinalizeRun(PipelineStatus) \/ UNCHANGED <<run, row>>
  OBVIOUS
<1>l. lost' = {} => lost = {}
  OBVIOUS
<1>1. Counted'
  BY DEF TypeOK, Counted, Heard, Unstarted, Before, InLoop
<1>2. Known'
  BY <1>0 DEF TypeOK, Known, Heard, Leaving, InLoop, TerminalRun
<1>3. Told'
  BY <1>0 DEF TypeOK, Told, Heard, Triggered
<1>4. Chased'
  BY <1>0 DEF TypeOK, Chased, Leaving, InLoop
<1>5. Cleaned'
  BY DEF TypeOK, Cleaned, Alive, Triggered
<1>6. Asking'
  BY DEF TypeOK, Asking, Closed
<1>7. RowsSettled'
  <2>1. CASE UNCHANGED <<run, row>>
    BY <1>l, <2>1 DEF RowsSettled
  <2>2. CASE run \notin TerminalRun /\ run' = PipelineStatus /\ row' = ClosedRows(PipelineStatus)
    <3>1. CASE PipelineStatus = "failure"
      BY <2>2, <3>1 DEF RowsSettled, ClosedRows, EndedTask
    <3>2. CASE PipelineStatus # "failure"
      <4>1. row' = [t \in Tasks |-> row[t]] /\ ~failed
        BY <2>2, <3>2 DEF ClosedRows, PipelineStatus
      <4>2. completed = Tasks
        BY <4>1 DEF Verdicts, Concluding
      <4>3. lost = {} => \A t \in Tasks : row[t] \in EndedTask
        BY <2>2, <4>2 DEF Told, Heard
      <4> QED BY <1>l, <4>1, <4>3 DEF RowsSettled
    <3> QED BY <3>1, <3>2
  <2> QED BY <1>v, <2>1, <2>2 DEF FinalizeRun
<1> QED
  BY <1>1, <1>2, <1>3, <1>4, <1>5, <1>6, <1>7

LEMMA ReturnSInv ==
  ASSUME IInv, SInv, Return
  PROVE  SInv'
<1> USE DEF Return, agentVars, rowVars, historyVars, goroutineOnly, Goto, Decide, Fail,
    IInv, SInv
<1>1. Counted'
  BY DEF TypeOK, Counted, Heard, Unstarted, Before, InLoop
<1>2. Known'
  BY DEF TypeOK, Known, Heard, Closed, Leaving, InLoop
<1>3. Told'
  BY DEF TypeOK, Told, Heard, Closed, Triggered
<1>4. Chased'
  BY DEF TypeOK, Chased, Leaving, InLoop
<1>5. Cleaned'
  BY DEF TypeOK, Cleaned, Alive, Triggered, Swept, Sweepers
<1>6. Asking'
  BY DEF TypeOK, Asking, Closed
<1>7. RowsSettled'
  BY DEF TypeOK, RowsSettled
<1> QED
  BY <1>1, <1>2, <1>3, <1>4, <1>5, <1>6, <1>7

LEMMA ExitSInv ==
  ASSUME IInv, SInv, Exit
  PROVE  SInv'
<1> USE DEF Exit, agentVars, rowVars, historyVars, goroutineOnly, Goto, Decide, Fail,
    EndProcess, IInv, SInv
<1>0. pc = "exit" /\ pc' = "off" /\ \A t \in Tasks : at[t] = "none" /\ at'[t] = "none"
  BY DEF Swept, Rounds, Quiet
<1>1. Counted'
  BY DEF TypeOK, Counted, Heard, Unstarted, Before, InLoop
<1>2. Known'
  BY <1>0 DEF Known, Heard, Leaving, InLoop, Closed
<1>3. Told'
  BY DEF TypeOK, Told, Heard, Closed, Triggered
<1>4. Chased'
  BY DEF TypeOK, Chased, Leaving, InLoop
<1>5. Cleaned'
  BY DEF Cleaned, Sweepers
<1>6. Asking'
  BY DEF TypeOK, Asking, Closed
<1>7. RowsSettled'
  BY DEF TypeOK, RowsSettled
<1> QED
  BY <1>1, <1>2, <1>3, <1>4, <1>5, <1>6, <1>7

LEMMA ExitCancelledSInv ==
  ASSUME IInv, SInv, ExitCancelled
  PROVE  SInv'
<1> USE DEF ExitCancelled, agentVars, rowVars, historyVars, goroutineOnly, Goto, Decide,
    Fail, EndProcess, IInv, SInv
<1>1. Counted'
  BY DEF TypeOK, Counted, Heard, Unstarted, Before, InLoop
<1>2. Known'
  BY DEF Known, Swept, TerminalRun
<1>3. Told'
  BY DEF TypeOK, Told, Heard, Closed, Triggered
<1>4. Chased'
  BY DEF TypeOK, Chased, Leaving, InLoop
<1>5. Cleaned'
  BY DEF Cleaned, Sweepers
<1>6. Asking'
  BY DEF TypeOK, Asking, Closed
<1>7. RowsSettled'
  BY DEF TypeOK, RowsSettled
<1> QED
  BY <1>1, <1>2, <1>3, <1>4, <1>5, <1>6, <1>7

LEMMA TimeoutFiresSInv ==
  ASSUME IInv, SInv, TimeoutFires
  PROVE  SInv'
<1> USE DEF TimeoutFires, agentVars, rowVars, historyVars, goroutineOnly, Goto, Decide,
    Fail, IInv, SInv
<1>1. Counted'
  BY DEF TypeOK, Counted, Heard, Unstarted, Before, InLoop
<1>2. Known'
  BY DEF TypeOK, Known, Heard, Closed, Leaving, InLoop
<1>3. Told'
  BY DEF TypeOK, Told, Heard, Closed, Triggered
<1>4. Chased'
  BY DEF TypeOK, Chased, Leaving, InLoop
<1>5. Cleaned'
  BY DEF TypeOK, Cleaned, Alive, Triggered
<1>6. Asking'
  BY DEF TypeOK, Asking, Closed
<1>7. RowsSettled'
  BY DEF TypeOK, RowsSettled
<1> QED
  BY <1>1, <1>2, <1>3, <1>4, <1>5, <1>6, <1>7

LEMMA SeeCancelledSInv ==
  ASSUME IInv, SInv, SeeCancelled
  PROVE  SInv'
<1> USE DEF SeeCancelled, agentVars, rowVars, historyVars, goroutineOnly, Goto, Decide,
    Fail, IInv, SInv
<1>1. Counted'
  BY DEF TypeOK, Counted, Heard, Unstarted, Before, InLoop
<1>2. Known'
  BY DEF TypeOK, Known, Heard, Closed, Leaving, InLoop
<1>3. Told'
  BY DEF TypeOK, Told, Heard, Closed, Triggered
<1>4. Chased'
  BY DEF TypeOK, Chased, Leaving, InLoop
<1>5. Cleaned'
  BY DEF TypeOK, Cleaned, Alive, Triggered
<1>6. Asking'
  BY DEF TypeOK, Asking, Closed
<1>7. RowsSettled'
  BY DEF TypeOK, RowsSettled
<1> QED
  BY <1>1, <1>2, <1>3, <1>4, <1>5, <1>6, <1>7

LEMMA SweepClearSInv ==
  ASSUME IInv, SInv, NEW w \in Sweepers, SweepClear(w)
  PROVE  SInv'
<1> USE DEF SweepClear, agentVars, rowVars, historyVars, goroutineOnly, Goto, Decide,
    Fail, IInv, SInv
<1>1. Counted'
  BY DEF TypeOK, Counted, Heard, Unstarted, Before, InLoop
<1>2. Known'
  BY DEF TypeOK, Known, Heard, Closed, Leaving, InLoop
<1>3. Told'
  BY DEF TypeOK, Told, Heard, Closed, Triggered
<1>4. Chased'
  BY DEF TypeOK, Chased, Leaving, InLoop
<1>5. Cleaned'
  BY DEF TypeOK, Cleaned, Alive, Triggered
<1>6. Asking'
  BY DEF TypeOK, Asking, Closed
<1>7. RowsSettled'
  BY DEF TypeOK, RowsSettled
<1> QED
  BY <1>1, <1>2, <1>3, <1>4, <1>5, <1>6, <1>7

LEMMA SweepReportSInv ==
  ASSUME IInv, SInv, NEW w \in Sweepers, NEW t \in Tasks, SweepReport(w, t)
  PROVE  SInv'
<1> USE DEF SweepReport, agentVars, rowVars, historyVars, goroutineOnly, Goto, Decide,
    Fail, IInv, SInv
<1>0. /\ \A u \in Tasks : row'[u] # row[u] => u = t
      /\ t \in Heard' /\ run \notin TerminalRun => row'[t] = "cancelled"
      /\ Heard' \subseteq Heard /\ Heard \subseteq Tasks /\ (lost' = {} => lost = {})
      /\ run \in TerminalRun \ {"cancelled"} => row' = row
  BY ReportHeard DEF EndedTask
<1>z. w \in {"watch", "timeout", "exit"} /\ sweep[w] = "report"
  BY DEF Sweepers
<1>y. run \notin TerminalRun => Triggered \/ \A u \in Tasks : at[u] = "none"
  BY <1>z DEF Swept, Cleaned, Rounds, Quiet, TerminalRun
<1>1. Counted'
  BY <1>0 DEF Counted, Unstarted, InLoop
<1>2. Known'
  <2> SUFFICES ASSUME run \notin TerminalRun, NEW u \in Heard' \ Async, starts[u] > bare
               PROVE  at[u] \in Closed \cup {"child", "closing"} \/ row'[u] \in CompletedTask \/ Leaving
    BY DEF Known, Leaving, InLoop
  <2>1. u \in Heard \ Async /\ u \in Tasks /\ starts[u] # 0 /\ ~(starts[u] <= bare)
    BY <1>0 DEF TypeOK, Heard
  <2>2. CASE u # t
    BY <1>0, <2>1, <2>2 DEF Known
  <2>3. CASE u = t
    <3>1. t \notin Approvals
      BY <2>1, <2>3 DEF Asking
    <3>2. at[t] \notin {"none", "queued"} \/ Leaving
      BY <3>1 DEF Chased
    <3>3. at[t] \notin Before
      BY <2>1, <2>3 DEF Counted, Unstarted
    <3> QED BY <2>3, <3>2, <3>3 DEF TypeOK, Before, Closed, Working
  <2> QED BY <2>2, <2>3
<1>3. Told'
  BY <1>0, <1>y DEF TypeOK, Told, Closed, Triggered, EndedTask
<1>4. Chased'
  BY DEF TypeOK, Chased, Leaving, InLoop
<1>5. Cleaned'
  BY DEF TypeOK, Cleaned, Alive, Triggered
<1>6. Asking'
  BY DEF TypeOK, Asking, Closed
<1>7. RowsSettled'
  BY <1>0 DEF TypeOK, RowsSettled, TerminalRun
<1> QED
  BY <1>1, <1>2, <1>3, <1>4, <1>5, <1>6, <1>7

LEMMA SweepSessionsSInv ==
  ASSUME IInv, SInv, NEW w \in Sweepers, SweepSessions(w)
  PROVE  SInv'
<1> USE DEF SweepSessions, agentVars, rowVars, historyVars, goroutineOnly, Goto, Decide,
    Fail, IInv, SInv
<1>1. Counted'
  BY DEF TypeOK, Counted, Heard, Unstarted, Before, InLoop
<1>2. Known'
  BY DEF TypeOK, Known, Heard, Closed, Leaving, InLoop
<1>3. Told'
  BY DEF TypeOK, Told, Heard, Closed, Triggered
<1>4. Chased'
  BY DEF TypeOK, Chased, Leaving, InLoop
<1>5. Cleaned'
  BY DEF TypeOK, Cleaned, Alive, Triggered
<1>6. Asking'
  BY DEF TypeOK, Asking, Closed
<1>7. RowsSettled'
  BY DEF TypeOK, RowsSettled
<1> QED
  BY <1>1, <1>2, <1>3, <1>4, <1>5, <1>6, <1>7

LEMMA SweepRemoveSInv ==
  ASSUME IInv, SInv, NEW w \in Sweepers, NEW k \in taken[w], SweepRemove(w, k)
  PROVE  SInv'
<1> USE DEF SweepRemove, agentVars, rowVars, historyVars, goroutineOnly, Goto, Decide,
    Fail, IInv, SInv
<1>0. /\ taken' = [taken EXCEPT ![w] = taken[w] \ {k}]
      /\ sweep' = [sweep EXCEPT ![w] = "swept"] \/ sweep' = sweep
      /\ taken[w] # {k} => sweep' = sweep
      /\ Alive /\ sweep[w] = "remove"
      /\ UNCHANGED <<pc, at, verdict, completed, failed, warned, produced, active, sessions,
                     monitors, timer, doomed, run, row, approval, lost, starts, outcome, bare>>
  BY DEF TypeOK
<1> HIDE DEF SweepRemove
<1> USE <1>0
<1>1. Counted'
  BY DEF TypeOK, Counted, Heard, Unstarted, Before, InLoop
<1>2. Known'
  BY DEF TypeOK, Known, Heard, Closed, Leaving, InLoop
<1>3. Told'
  BY DEF TypeOK, Told, Heard, Closed, Triggered
<1>4. Chased'
  BY DEF TypeOK, Chased, Leaving, InLoop
<1>5. Cleaned'
  BY <1>0 DEF TypeOK, Cleaned, Alive, Triggered, Sweepers
<1>6. Asking'
  BY DEF TypeOK, Asking, Closed
<1>7. RowsSettled'
  BY DEF TypeOK, RowsSettled
<1> QED
  BY <1>1, <1>2, <1>3, <1>4, <1>5, <1>6, <1>7

LEMMA ApproveSInv ==
  ASSUME IInv, SInv, NEW g \in Approvals, Approve(g)
  PROVE  SInv'
<1> USE DEF Approve, agentVars, rowVars, historyVars, goroutineOnly, Goto, Decide, Fail,
    IInv, SInv
<1>1. Counted'
  BY DEF TypeOK, Counted, Heard, Unstarted, Before, InLoop
<1>2. Known'
  BY DEF TypeOK, Known, Heard, Closed, Leaving, InLoop, TerminalRun, CompletedTask
<1>3. Told'
  BY DEF TypeOK, Told, Heard, Closed, Triggered, TerminalRun, CompletedTask, EndedTask
<1>4. Chased'
  BY DEF TypeOK, Chased, Leaving, InLoop, TerminalRun
<1>5. Cleaned'
  BY DEF TypeOK, Cleaned, Alive, Triggered
<1>6. Asking'
  BY DEF TypeOK, Asking, Closed
<1>7. RowsSettled'
  BY DEF TypeOK, RowsSettled
<1> QED
  BY <1>1, <1>2, <1>3, <1>4, <1>5, <1>6, <1>7

LEMMA RejectSInv ==
  ASSUME IInv, SInv, NEW g \in Approvals, Reject(g)
  PROVE  SInv'
<1> USE DEF Reject, agentVars, rowVars, historyVars, goroutineOnly, Goto, Decide, Fail,
    IInv, SInv
<1>1. Counted'
  BY DEF TypeOK, Counted, Heard, Unstarted, Before, InLoop
<1>2. Known'
  BY DEF Known, TerminalRun
<1>3. Told'
  BY DEF Told, TerminalRun
<1>4. Chased'
  BY DEF Chased, TerminalRun
<1>5. Cleaned'
  BY DEF TypeOK, Cleaned, Alive, Triggered
<1>6. Asking'
  BY DEF TypeOK, Asking, Closed
<1>7. RowsSettled'
  BY DEF TypeOK, RowsSettled
<1> QED
  BY <1>1, <1>2, <1>3, <1>4, <1>5, <1>6, <1>7

LEMMA CancelRunSInv ==
  ASSUME IInv, SInv, CancelRun
  PROVE  SInv'
<1> USE DEF CancelRun, agentVars, rowVars, historyVars, goroutineOnly, Goto, Decide,
    Fail, IInv, SInv
<1>1. Counted'
  BY DEF TypeOK, Counted, Heard, Unstarted, Before, InLoop
<1>2. Known'
  BY DEF Known, TerminalRun
<1>3. Told'
  BY DEF Told, TerminalRun
<1>4. Chased'
  BY DEF Chased, TerminalRun
<1>5. Cleaned'
  BY DEF TypeOK, Cleaned, Alive, Triggered
<1>6. Asking'
  BY DEF TypeOK, Asking, Closed
<1>7. RowsSettled'
  BY DEF TypeOK, RowsSettled
<1> QED
  BY <1>1, <1>2, <1>3, <1>4, <1>5, <1>6, <1>7

LEMMA ResumeSInv ==
  ASSUME IInv, SInv, Resume
  PROVE  SInv'
<1> USE DEF Resume, agentVars, rowVars, historyVars, goroutineOnly, Goto, Decide, Fail,
    IInv, SInv
<1>0. /\ pc = "off" /\ pc' = "round" /\ run = "pending" /\ run' = "running"
      /\ \/ completed' = {t \in Tasks : row[t] \in CompletedTask} /\ bare' = bare
         \/ completed' = {} /\ bare' = bare + 1
      /\ UNCHANGED <<at, verdict, active, monitors, sweep, doomed, row, lost, starts>>
      /\ \A t \in Tasks : at[t] = "none"
  BY DEF ResumedTasks, Rounds, Quiet
<1>z. active = {} /\ \A w \in Sweepers : sweep[w] = "idle" /\ doomed[w] = {}
  BY <1>0 DEF Cleaned, Alive
<1> HIDE DEF Resume
<1>1. Counted'
  <2> SUFFICES ASSUME NEW t \in Heard \ Async
               PROVE  starts[t] <= 1 + bare' /\ (t \notin completed' => starts[t] <= bare')
    BY <1>0 DEF Counted, Heard, Unstarted, Before
  <2>1. t \in Tasks /\ starts[t] \in Nat /\ starts[t] <= 1 + bare /\ bare \in Nat
    BY DEF TypeOK, Heard, Counted
  <2>2. starts[t] > bare => row[t] \in CompletedTask
    BY <1>0, <2>1 DEF Known, Leaving, Closed, TerminalRun
  <2> QED BY <1>0, <2>1, <2>2
<1>2. Known'
  <2> SUFFICES ASSUME NEW t \in Heard \ Async, starts[t] > bare'
               PROVE  row[t] \in CompletedTask
    BY <1>0 DEF Known, Heard
  <2>1. t \in Tasks /\ starts[t] \in Nat /\ starts[t] <= 1 + bare /\ bare \in Nat
    BY DEF TypeOK, Heard, Counted
  <2>2. bare' = bare
    BY <1>0, <2>1
  <2>3. starts[t] > bare /\ t \in Heard \ Async /\ at[t] = "none"
    BY <1>0, <2>1, <2>2 DEF Heard
  <2> QED BY <1>0, <2>3 DEF Known, Leaving, Closed, TerminalRun
<1>3. Told'
  BY <1>0 DEF Told, Heard, Closed, CompletedTask, EndedTask
<1>4. Chased'
  BY <1>0, <1>z DEF Chased
<1>5. Cleaned'
  BY <1>0, <1>z DEF Cleaned, Alive, Sweepers
<1>6. Asking'
  BY <1>0 DEF Asking, Closed
<1>7. RowsSettled'
  BY <1>0 DEF RowsSettled
<1> QED
  BY <1>1, <1>2, <1>3, <1>4, <1>5, <1>6, <1>7

LEMMA NextSInv == IInv /\ SInv /\ [Next]_vars => SInv'
<1> SUFFICES ASSUME IInv, SInv, [Next]_vars PROVE SInv'
  OBVIOUS
<1>1. CASE MainLoop
  BY <1>1, StartRoundSInv, LeaveLoopSInv, StopSpawningSInv, EndRoundSInv,
      ConcludeSInv, ReturnSInv, ExitSInv DEF MainLoop
<1>2. CASE TimeoutFires \/ SeeCancelled \/ ExitCancelled
  BY <1>2, TimeoutFiresSInv, SeeCancelledSInv, ExitCancelledSInv
<1>3. ASSUME NEW t \in Tasks, Goroutine(t) \/ MonitorEnds(t) PROVE SInv'
  BY <1>3, SpawnSInv, CheckSInv, ReportRunningSInv, TrackSInv, OpenSessionSInv,
      ActionUnresolvedSInv, ActionRefusedSInv, ExecuteSInv, AskApprovalSInv,
      TriggerChildSInv, ChildEndsSInv, CloseSInv, UntrackSInv, MonitorEndsSInv DEF
      Goroutine
<1>4. ASSUME NEW w \in Sweepers, Sweep(w) PROVE SInv'
  BY <1>4, SweepClearSInv, SweepReportSInv, SweepSessionsSInv, SweepRemoveSInv DEF Sweep
<1>5. ASSUME NEW g \in Approvals, Approve(g) \/ Reject(g) PROVE SInv'
  BY <1>5, ApproveSInv, RejectSInv
<1>6. CASE CancelRun \/ Resume
  BY <1>6, CancelRunSInv, ResumeSInv
<1>7. CASE UNCHANGED vars
  <2>1. UNCHANGED <<pc, at, verdict, completed, active, timer, sweep, doomed, taken, run, row, lost,
                    starts, bare>>
    BY <1>7 DEF vars, agentVars, rowVars, historyVars
  <2> QED
    BY <2>1 DEF SInv, Counted, Known, Told, Chased, Cleaned, Asking, RowsSettled, Heard,
        InLoop, Leaving, Unstarted, Triggered, Alive
<1> QED
  BY <1>1, <1>2, <1>3, <1>4, <1>5, <1>6, <1>7 DEF Next

LEMMA SInvHolds == Spec => []SInv
BY InitSInv, NextSInv, IInvHolds, PTL DEF Spec

\* The work of a task that is waited for is started once, over timeouts, sweeps,
\* approvals and attempts that are given the checkpoint, and at most once more
\* for each attempt that is not, unless a report of it was lost.
THEOREM WorkStartsOnce == Spec => []StartedOnce
<1>1. IInv /\ SInv => StartedOnce
  <2> SUFFICES ASSUME IInv, SInv, NEW t \in Tasks \ Async, t \notin lost
               PROVE  ~(starts[t] > 1 + bare)
    BY DEF StartedOnce
  <2>1. starts[t] \in Nat /\ bare \in Nat /\ starts[t] <= 1 + bare
    BY DEF IInv, TypeOK, SInv, Counted, Heard
  <2> QED
    BY <2>1
<1> QED
  BY <1>1, IInvHolds, SInvHolds, PTL

\* When no report was lost, a run that finished leaves no row unfinished,
\* whatever a timeout's sweep, a monitor or an approval wrote.
THEOREM RowsEnd == Spec => []RowsSettled
<1>1. SInv => RowsSettled
  BY DEF SInv
<1> QED
  BY <1>1, SInvHolds, PTL
============================================================================
