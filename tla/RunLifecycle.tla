---------------------------- MODULE RunLifecycle ----------------------------
(***************************************************************************)
(* The life of a pipeline run in the control plane, services/nopsai: the   *)
(* rows of pipeline_runs and pipeline_approvals, the HTTP handlers and     *)
(* goroutines that read and write them, the dispatcher's view of the run   *)
(* as a job, and the agents that execute it.                               *)
(*                                                                         *)
(* A database statement or transaction is one step.  A handler that reads  *)
(* a row and writes it later is two steps, and other handlers run in       *)
(* between.  An UPDATE is an operator from the status a row has to the     *)
(* status it gets, so its WHERE clause is the condition of the operator.   *)
(*                                                                         *)
(* Left out: tasks, logs, notifications, git contexts, and time (a timeout *)
(* or a poll may come at any moment).  Every guard below treats "warning"  *)
(* as it does "success", and the two are merged.  A pipeline has at most   *)
(* one approval step.  The dispatcher is reduced to what it answers;       *)
(* module Dispatcher models it in detail.                                  *)
(***************************************************************************)
EXTENDS Integers, FiniteSets

CONSTANTS
  Runs,            \* run ids
  Groups,          \* concurrency groups
  GroupOf,         \* [Runs -> Groups \cup {NoGroup}]
  ParentOf,        \* [Runs -> Runs \cup {NoRun}]
  Gated,           \* the runs whose pipeline has an approval step
  Cancellable,     \* the runs a user may cancel
  Deletable,       \* the runs a user may delete
  Agents,          \* slots for agent containers
  MaxFaults,       \* bound: restarts, lost runners, failed calls
  MaxDecisions,    \* bound: approval decisions under way at once
  BatchSize,       \* pendingRunRecoveryBatchSize, 25 in the code
  GroupReadFails,  \* whether reading a run's concurrency group may fail
  NoGroup, NoRun

Unfinished == {"pending", "running", "waiting_approval"}
Terminal == {"success", "failure", "cancelled", "rejected", "timed_out"}
\* isCompletedRunStatus: what a cancellation cannot touch.
Completed == Terminal \ {"cancelled"}
\* There is no row: not created yet, or deleted.
Gone == {"absent", "deleted"}

\* A launch is the goroutine of the first LaunchAgent call, of the one that
\* follows an approval, or a RecoveryAttempt: the poller's, or a release's.
Kinds == {"first", "resume", "retry", "release"}
RecoveryAttempts == {"retry", "release"}
LaunchPCs == {"none", "prepare", "start", "ready", "assigned", "rejected"}
CancelPCs == {"none", "start", "write", "children", "release"}
AgentPCs == {"idle", "working", "pausing", "refused", "success", "failure",
             "exited", "crashed"}
Verdicts == {"approved", "rejected"}

ASSUME LifecycleAssumption ==
  /\ MaxFaults \in Nat /\ MaxDecisions \in Nat /\ BatchSize \in Nat
  /\ GroupReadFails \in BOOLEAN
  /\ NoRun \notin Runs /\ NoGroup \notin Groups
  /\ GroupOf \in [Runs -> Groups \cup {NoGroup}]
  /\ ParentOf \in [Runs -> Runs \cup {NoRun}]
  /\ \A r \in Runs : ParentOf[r] # NoRun => GroupOf[r] = NoGroup
  /\ Gated \subseteq Runs /\ Cancellable \subseteq Runs
  /\ Deletable \subseteq Runs

VARIABLES
  \* database
  status,     \* pipeline_runs.status
  born,       \* pipeline_runs.created_at, 0 before the row exists
  clock,      \* created_at of the last row
  approval,   \* pipeline_approvals.status, with its checkpoint
  \* goroutines and handlers of nopsai
  launch,     \* where each launch of a run is
  releases,   \* releaseRunConcurrencyGroup calls under way
  deciding,   \* approval decisions between their read and their transaction
  cancel,     \* where the cancelRunHierarchy call for a run is
  \* dispatcher
  job,        \* "none", "queued" or "assigned"
  resume,     \* the tracked job carries the checkpoint id
  \* agents
  agent,
  faults

database == <<status, born, clock, approval>>
handlers == <<launch, releases, deciding, cancel>>
dispatcher == <<job, resume>>
vars == <<database, handlers, dispatcher, agent, faults>>

IdleAgent == [run |-> NoRun, resume |-> FALSE, bound |-> FALSE, pc |-> "idle"]
-----------------------------------------------------------------------------
(* UPDATE statements on a run's status.                                    *)

\* Mutant: no WHERE clause on the status.
MarkRunRunningAlways(s) == IF s \in Gone THEN s ELSE "running"
MarkRunRunning(s) == IF s \in {"pending", "running"} THEN "running" ELSE s
\* failAgentLaunch and failRun: any row there is.
FailLaunch(s) == IF s \in Gone THEN s ELSE "failure"
MarkRunCancelled(s) == IF s \in Gone THEN s ELSE "cancelled"
\* Mutant: a cancelled run is finalized like any other.
FinalizeAlways(s, to) == IF s \in Gone THEN s ELSE to
Finalize(s, to) == IF s \in Gone \cup {"cancelled"} THEN s ELSE to
Pause(s) == IF s \in Unfinished THEN "waiting_approval" ELSE s
Decide(s, verdict) ==
  IF s # "waiting_approval" THEN s
  ELSE IF verdict = "approved" THEN "pending" ELSE "rejected"
-----------------------------------------------------------------------------
(* Concurrency groups.                                                     *)

SameGroup(q, r) == GroupOf[q] = GroupOf[r] /\ GroupOf[r] # NoGroup
Older(q, r) == 0 < born[q] /\ born[q] < born[r]
\* Mutant: a run that waits for an approval does not hold its group.
HoldsGroupUnlessWaiting(r) ==
  \A q \in Runs : SameGroup(q, r) /\ Older(q, r) =>
    status[q] \notin {"pending", "running"}
HoldsGroup(r) ==
  \A q \in Runs : SameGroup(q, r) /\ Older(q, r) => status[q] \notin Unfinished
OldestPending(group) ==
  {r \in Runs : /\ GroupOf[r] = group /\ status[r] = "pending"
                /\ \A q \in Runs : SameGroup(q, r) /\ Older(q, r) =>
                     status[q] # "pending"}
\* The groups releaseRunConcurrencyGroupForRun releases for a run.
GroupsOf(r) ==
  IF status[r] \in Gone \/ GroupOf[r] = NoGroup THEN {} ELSE {GroupOf[r]}
-----------------------------------------------------------------------------
(* Creating a run and launching its agent.                                 *)

At(r, kind, pc) == launch[r][kind] = pc
Goto(r, kind, pc) == launch' = [launch EXCEPT ![r][kind] = pc]
SetStatus(r, s) == status' = [status EXCEPT ![r] = s]

\* Mutant: a run gets the creation time of the last one.
CreateRunSameTime(r) ==
  /\ status[r] = "absent" /\ ParentOf[r] = NoRun
  /\ SetStatus(r, "pending")
  /\ clock' = clock + 1
  /\ born' = [born EXCEPT ![r] = clock]
  /\ Goto(r, "first", "prepare")
  /\ UNCHANGED <<approval, releases, deciding, cancel, dispatcher, agent, faults>>

\* A child run is created by the agent of its parent, whatever status the
\* parent's row has by then.
CreateRun(r) ==
  /\ status[r] = "absent"
  /\ ParentOf[r] # NoRun =>
       /\ status[ParentOf[r]] \notin Gone
       /\ \E a \in Agents : agent[a].run = ParentOf[r] /\ agent[a].pc = "working"
  /\ SetStatus(r, "pending")
  /\ clock' = clock + 1
  /\ born' = [born EXCEPT ![r] = clock']
  /\ Goto(r, "first", "prepare")
  /\ UNCHANGED <<approval, releases, deciding, cancel, dispatcher, agent, faults>>

\* preparePipelineRun and launchPipeline: the launch goes ahead, or the run is
\* failed.
PreparePipelineRun(r) ==
  /\ At(r, "first", "prepare")
  /\ \/ Goto(r, "first", "start") /\ UNCHANGED status
     \/ Goto(r, "first", "none") /\ SetStatus(r, FailLaunch(status[r]))
  /\ UNCHANGED <<born, clock, approval, releases, deciding, cancel, dispatcher,
                 agent, faults>>

\* A task row cannot be inserted: launchPipeline returns, the run stays pending.
AbandonLaunch(r) ==
  /\ At(r, "first", "prepare") /\ faults < MaxFaults
  /\ faults' = faults + 1
  /\ Goto(r, "first", "none")
  /\ UNCHANGED <<database, releases, deciding, cancel, dispatcher, agent>>

\* launchAgent up to its payload.  A failed read of the group is taken for "no
\* group"; a failed read of the queue leaves the run pending.
LaunchAgent(r, k) ==
  LET dispatchable == status[r] \in {"pending", "running"} IN
  /\ At(r, k, "start")
  /\ \/ dispatchable /\ (HoldsGroup(r) \/ GroupReadFails) /\ Goto(r, k, "ready")
     \/ (~dispatchable \/ ~HoldsGroup(r) \/ GroupReadFails) /\ Goto(r, k, "none")
  /\ UNCHANGED <<database, releases, deciding, cancel, dispatcher, agent, faults>>

\* The dispatcher keeps a job it already tracks and drops the new payload.
PlaceJob(r, k) ==
  IF job[r] # "none" THEN UNCHANGED dispatcher
  ELSE /\ \E state \in {"queued", "assigned"} : job' = [job EXCEPT ![r] = state]
       /\ resume' = [resume EXCEPT ![r] = (k = "resume")]

\* Of a run it finds no row for, the dispatcher learns no status and goes on.
StatusAllowsDispatch(r) == status[r] \in {"pending", "running"} \cup Gone

SubmitJob(r, k) ==
  /\ At(r, k, "ready")
  /\ \/ /\ StatusAllowsDispatch(r)
        /\ PlaceJob(r, k)
        /\ Goto(r, k, IF job'[r] = "assigned" THEN "assigned" ELSE "none")
     \/ /\ ~StatusAllowsDispatch(r)
        /\ Goto(r, k, "rejected")
        /\ UNCHANGED dispatcher
  /\ UNCHANGED <<database, releases, deciding, cancel, agent, faults>>

\* No payload, or a SubmitJob call that fails, before or after the dispatcher
\* has taken the job.
LaunchFails(r, k) ==
  /\ At(r, k, "ready") /\ faults < MaxFaults
  /\ faults' = faults + 1
  /\ \/ UNCHANGED dispatcher
     \/ StatusAllowsDispatch(r) /\ PlaceJob(r, k)
  /\ IF k \in RecoveryAttempts THEN UNCHANGED status
     ELSE SetStatus(r, FailLaunch(status[r]))
  /\ Goto(r, k, "none")
  /\ UNCHANGED <<born, clock, approval, releases, deciding, cancel, agent>>

LaunchAssigned(r, k) ==
  /\ At(r, k, "assigned")
  /\ SetStatus(r, MarkRunRunning(status[r]))
  /\ Goto(r, k, "none")
  /\ UNCHANGED <<born, clock, approval, releases, deciding, cancel, dispatcher,
                 agent, faults>>

LaunchRejected(r, k) ==
  /\ At(r, k, "rejected")
  /\ SetStatus(r, IF status[r] \in Terminal \/ k \in RecoveryAttempts
                  THEN status[r] ELSE FailLaunch(status[r]))
  /\ Goto(r, k, "none")
  /\ UNCHANGED <<born, clock, approval, releases, deciding, cancel, dispatcher,
                 agent, faults>>

\* listPendingRunsForRecovery: the oldest pending runs, up to the batch size.
RecoveryBatch ==
  {r \in Runs : /\ status[r] = "pending"
                /\ Cardinality({q \in Runs : /\ status[q] = "pending"
                                             /\ Older(q, r)}) < BatchSize}

\* Mutant: the poller leaves queued runs to the release of their group.
RecoverUngrouped(r) ==
  /\ r \in RecoveryBatch /\ GroupOf[r] = NoGroup
  /\ \A q \in Runs : At(q, "retry", "none")
  /\ Goto(r, "retry", "start")
  /\ UNCHANGED <<database, releases, deciding, cancel, dispatcher, agent, faults>>

\* recoverPendingPipelineRuns launches the runs of its list one at a time.
RecoverPendingRun(r) ==
  /\ r \in RecoveryBatch
  /\ \A q \in Runs : At(q, "retry", "none")
  /\ Goto(r, "retry", "start")
  /\ UNCHANGED <<database, releases, deciding, cancel, dispatcher, agent, faults>>

ReleaseGroup(group) ==
  /\ group \in releases
  /\ releases' = releases \ {group}
  /\ \/ OldestPending(group) = {} /\ UNCHANGED launch
     \/ \E r \in OldestPending(group) :
          At(r, "release", "none") /\ Goto(r, "release", "start")
  /\ UNCHANGED <<database, deciding, cancel, dispatcher, agent, faults>>
-----------------------------------------------------------------------------
(* Approvals.                                                              *)

\* handleApprovalDecision: read, then one transaction.
BeginDecision(r, v) ==
  /\ approval[r] = "pending" /\ status[r] = "waiting_approval"
  /\ <<r, v>> \notin deciding /\ Cardinality(deciding) < MaxDecisions
  /\ deciding' = deciding \cup {<<r, v>>}
  /\ UNCHANGED <<database, launch, releases, cancel, dispatcher, agent, faults>>

CommitDecision(r, v) ==
  /\ <<r, v>> \in deciding
  /\ deciding' = deciding \ {<<r, v>>}
  /\ IF approval[r] = "pending"
     THEN /\ approval' = [approval EXCEPT ![r] = v]
          /\ SetStatus(r, Decide(status[r], v))
          /\ IF v = "approved" THEN Goto(r, "resume", "start")
             ELSE UNCHANGED launch
     ELSE UNCHANGED <<approval, status, launch>>
  /\ UNCHANGED <<born, clock, releases, cancel, dispatcher, agent, faults>>

\* expireApprovalTimeoutsNow, for one run.
ExpireApproval(r) ==
  /\ approval[r] = "pending" /\ status[r] = "waiting_approval"
  /\ approval' = [approval EXCEPT ![r] = "timed_out"]
  /\ SetStatus(r, "timed_out")
  /\ UNCHANGED <<born, clock, handlers, dispatcher, agent, faults>>
-----------------------------------------------------------------------------
(* Cancelling and deleting.                                                *)

\* A deleted parent is no longer named by its children's rows.
Children(r) ==
  {c \in Runs : ParentOf[c] = r /\ {status[c], status[r]} \cap Gone = {}}

\* markRunCancelled reads the status; a completed run ends the call.
AfterCancelRead(s) ==
  CASE s \in Completed \cup Gone -> "none"
    [] s = "cancelled" -> "children"
    [] OTHER -> "write"

\* No row: the call fails, and so does the parent's call that made it.
CancelFails(r) ==
  [c \in Runs |-> IF c \in {r, ParentOf[r]} THEN "none" ELSE cancel[c]]

\* A request that is refused changes nothing and is no step.
CancelRequest(r) ==
  /\ cancel[r] = "none" /\ AfterCancelRead(status[r]) # "none"
  /\ cancel' = [cancel EXCEPT ![r] = AfterCancelRead(status[r])]
  /\ UNCHANGED <<database, launch, releases, deciding, dispatcher, agent, faults>>

\* The recursive call for a child run.
CancelChild(r) ==
  /\ cancel[r] = "start"
  /\ cancel' = IF status[r] \in Gone THEN CancelFails(r)
               ELSE [cancel EXCEPT ![r] = AfterCancelRead(status[r])]
  /\ UNCHANGED <<database, launch, releases, deciding, dispatcher, agent, faults>>

CancelWrite(r) ==
  /\ cancel[r] = "write"
  /\ SetStatus(r, MarkRunCancelled(status[r]))
  /\ cancel' = IF status[r] \in Gone THEN CancelFails(r)
               ELSE [cancel EXCEPT ![r] = "children"]
  /\ UNCHANGED <<born, clock, approval, launch, releases, deciding, dispatcher,
                 agent, faults>>

CancelChildren(r) ==
  /\ cancel[r] = "children"
  /\ cancel' = [c \in Runs |->
       IF c = r THEN "release"
       ELSE IF c \in Children(r) /\ cancel[c] = "none" THEN "start"
       ELSE cancel[c]]
  /\ UNCHANGED <<database, launch, releases, deciding, dispatcher, agent, faults>>

CancelRelease(r) ==
  /\ cancel[r] = "release"
  /\ \A c \in Children(r) \ {r} : cancel[c] = "none"
  /\ releases' = releases \cup GroupsOf(r)
  /\ cancel' = [cancel EXCEPT ![r] = "none"]
  /\ UNCHANGED <<database, launch, deciding, dispatcher, agent, faults>>

\* The approval goes with the row.
DeleteRun(r) ==
  /\ status[r] \notin Gone
  /\ SetStatus(r, "deleted")
  /\ approval' = [approval EXCEPT ![r] = "none"]
  /\ UNCHANGED <<born, clock, handlers, dispatcher, agent, faults>>
-----------------------------------------------------------------------------
(* The dispatcher's queue and the agents.  An agent is bound while the     *)
(* dispatcher counts its runner's answer for the job; an agent that lost   *)
(* its runner's stream may go on unbound.                                  *)

AgentAt(a, pcs) == agent[a].pc \in pcs
AgentGoto(a, pc) == agent' = [agent EXCEPT ![a].pc = pc]
Bound(r) == \E a \in Agents : agent[a].run = r /\ agent[a].bound
\* isTerminalRunStatus, or no row to read.
Closed(r) == status[r] \in Terminal \cup Gone

DispatchQueued(r) ==
  /\ job[r] = "queued"
  /\ job' = [job EXCEPT ![r] =
       IF StatusAllowsDispatch(r) THEN "assigned" ELSE "none"]
  /\ UNCHANGED <<database, handlers, resume, agent, faults>>

StartAgent(a, r) ==
  /\ job[r] = "assigned" /\ ~Bound(r) /\ AgentAt(a, {"idle"})
  /\ agent' = [agent EXCEPT ![a] =
       [run |-> r, resume |-> resume[r], bound |-> TRUE, pc |-> "working"]]
  /\ UNCHANGED <<database, handlers, dispatcher, faults>>

\* handleTaskUpdate for a task that starts.
ReportRunning(a) ==
  /\ AgentAt(a, {"working"}) /\ ~Closed(agent[a].run)
  /\ SetStatus(agent[a].run, MarkRunRunning(status[agent[a].run]))
  /\ UNCHANGED <<born, clock, approval, handlers, dispatcher, agent, faults>>

\* An agent that starts from scratch stops at the approval step.
MaySucceed(a) == agent[a].run \in Gated => agent[a].resume

\* handleFinalizeRun reads.  A failed pipeline makes the agent exit with 1,
\* which its runner reports as a failed job.
BeginFinalize(a, to) ==
  /\ \/ AgentAt(a, {"working"}) /\ (to = "success" => MaySucceed(a))
     \/ AgentAt(a, {"refused"}) /\ to = "failure"
  /\ IF Closed(agent[a].run) \/ status[agent[a].run] = "waiting_approval"
     THEN AgentGoto(a, IF to = "failure" THEN "crashed" ELSE "exited")
     ELSE AgentGoto(a, to)
  /\ UNCHANGED <<database, handlers, dispatcher, faults>>

CommitFinalize(a) ==
  /\ AgentAt(a, {"success", "failure"})
  /\ SetStatus(agent[a].run, Finalize(status[agent[a].run], agent[a].pc))
  /\ releases' = releases \cup GroupsOf(agent[a].run)
  /\ AgentGoto(a, IF AgentAt(a, {"failure"}) THEN "crashed" ELSE "exited")
  /\ UNCHANGED <<born, clock, approval, launch, deciding, cancel, dispatcher,
                 faults>>

\* handlePauseRunForApproval: read, then one transaction.
BeginPause(a) ==
  /\ AgentAt(a, {"working"}) /\ ~MaySucceed(a)
  /\ AgentGoto(a, IF Closed(agent[a].run) THEN "refused" ELSE "pausing")
  /\ UNCHANGED <<database, handlers, dispatcher, faults>>

\* Mutant: a decided approval does not stop the pause.
CommitPauseDecided(a) ==
  LET r == agent[a].run IN
  /\ AgentAt(a, {"pausing"})
  /\ IF status[r] \notin Gone
     THEN /\ approval' = [approval EXCEPT ![r] =
               IF @ = "none" THEN "pending" ELSE @]
          /\ SetStatus(r, Pause(status[r]))
          /\ AgentGoto(a, "exited")
     ELSE AgentGoto(a, "refused") /\ UNCHANGED <<approval, status>>
  /\ UNCHANGED <<born, clock, handlers, dispatcher, faults>>

CommitPause(a) ==
  LET r == agent[a].run IN
  /\ AgentAt(a, {"pausing"})
  /\ IF approval[r] \in {"none", "pending"} /\ status[r] \notin Gone
     THEN /\ approval' = [approval EXCEPT ![r] = "pending"]
          /\ SetStatus(r, Pause(status[r]))
          /\ AgentGoto(a, "exited")
     ELSE AgentGoto(a, "refused") /\ UNCHANGED <<approval, status>>
  /\ UNCHANGED <<born, clock, handlers, dispatcher, faults>>

\* The runner's report reaches the dispatcher.  After a failed job the
\* dispatcher finalizes the run itself: the slot goes on as that call.
ReportResult(a) ==
  /\ AgentAt(a, {"exited", "crashed"})
  /\ IF agent[a].bound
     THEN /\ job' = [job EXCEPT ![agent[a].run] = "none"]
          /\ agent' = [agent EXCEPT ![a] =
               IF AgentAt(a, {"crashed"})
               THEN [@ EXCEPT !.bound = FALSE, !.pc = "refused"]
               ELSE IdleAgent]
     ELSE agent' = [agent EXCEPT ![a] = IdleAgent] /\ UNCHANGED job
  /\ UNCHANGED <<database, handlers, resume, faults>>

\* The runner polls the run's status and stops the container of a cancelled
\* run, which it then reports as a failed job.
StopAgent(a) ==
  /\ AgentAt(a, {"working", "pausing", "refused"})
  /\ status[agent[a].run] = "cancelled"
  /\ AgentGoto(a, "crashed")
  /\ UNCHANGED <<database, handlers, dispatcher, faults>>
-----------------------------------------------------------------------------
(* Faults.                                                                 *)

CrashAgent(a) ==
  /\ AgentAt(a, {"working"}) /\ faults < MaxFaults
  /\ faults' = faults + 1
  /\ AgentGoto(a, "crashed")
  /\ UNCHANGED <<database, handlers, dispatcher>>

Unbind(a, stopped) ==
  IF stopped THEN IdleAgent ELSE [agent[a] EXCEPT !.bound = FALSE]

\* The dispatcher loses the runner and requeues its job with the payload it
\* had; the agent is stopped with the runner or goes on.
LoseRunner(a) ==
  /\ agent[a].bound /\ faults < MaxFaults
  /\ faults' = faults + 1
  /\ job' = [job EXCEPT ![agent[a].run] = "queued"]
  /\ \E stopped \in BOOLEAN : agent' = [agent EXCEPT ![a] = Unbind(a, stopped)]
  /\ UNCHANGED <<database, handlers, resume>>

\* The dispatcher's queue is in memory, and every stream breaks.
RestartDispatcher ==
  /\ faults < MaxFaults
  /\ faults' = faults + 1
  /\ job' = [r \in Runs |-> "none"]
  /\ \E stopped \in SUBSET Agents :
       agent' = [a \in Agents |-> Unbind(a, a \in stopped)]
  /\ UNCHANGED <<database, handlers, resume>>

\* Goroutines are lost, and a handler's caller gets an error: a pause is
\* refused, a final status is not repeated.
RestartNopsai ==
  /\ faults < MaxFaults
  /\ faults' = faults + 1
  /\ launch' = [r \in Runs |-> [k \in Kinds |-> "none"]]
  /\ releases' = {} /\ deciding' = {}
  /\ cancel' = [r \in Runs |-> "none"]
  /\ agent' = [a \in Agents |->
       [agent[a] EXCEPT !.pc = CASE @ = "pausing" -> "refused"
                                 [] @ = "success" -> "exited"
                                 [] @ = "failure" -> "crashed"
                                 [] OTHER -> @]]
  /\ UNCHANGED <<database, dispatcher>>
-----------------------------------------------------------------------------
Init ==
  /\ status = [r \in Runs |-> "absent"]
  /\ born = [r \in Runs |-> 0] /\ clock = 0
  /\ approval = [r \in Runs |-> "none"]
  /\ launch = [r \in Runs |-> [k \in Kinds |-> "none"]]
  /\ releases = {} /\ deciding = {}
  /\ cancel = [r \in Runs |-> "none"]
  /\ job = [r \in Runs |-> "none"]
  /\ resume = [r \in Runs |-> FALSE]
  /\ agent = [a \in Agents |-> IdleAgent]
  /\ faults = 0

LaunchNext(r, k) ==
  \/ LaunchAgent(r, k) \/ SubmitJob(r, k) \/ LaunchFails(r, k)
  \/ LaunchAssigned(r, k) \/ LaunchRejected(r, k)
RunNext(r) ==
  \/ CreateRun(r) \/ PreparePipelineRun(r) \/ AbandonLaunch(r)
  \/ RecoverPendingRun(r) \/ ExpireApproval(r) \/ DispatchQueued(r)
CancelNext(r) ==
  CancelChild(r) \/ CancelWrite(r) \/ CancelChildren(r) \/ CancelRelease(r)
AgentNext(a) ==
  \/ ReportRunning(a) \/ CommitFinalize(a) \/ BeginPause(a) \/ CommitPause(a)
  \/ ReportResult(a) \/ StopAgent(a) \/ CrashAgent(a) \/ LoseRunner(a)

Next ==
  \/ \E r \in Runs : RunNext(r) \/ CancelNext(r)
  \/ \E r \in Runs, k \in Kinds : LaunchNext(r, k)
  \/ \E r \in Runs, v \in Verdicts : BeginDecision(r, v) \/ CommitDecision(r, v)
  \/ \E r \in Cancellable : CancelRequest(r)
  \/ \E r \in Deletable : DeleteRun(r)
  \/ \E group \in Groups : ReleaseGroup(group)
  \/ \E a \in Agents, r \in Runs : StartAgent(a, r)
  \/ \E a \in Agents : AgentNext(a)
  \/ \E a \in Agents, to \in {"success", "failure"} : BeginFinalize(a, to)
  \/ RestartDispatcher \/ RestartNopsai

Spec == Init /\ [][Next]_vars

\* Goroutines and handlers that were started go on, the poller comes round,
\* the dispatcher places a queued job, and a container that was started
\* reports, ends (the pipeline timeout sees to it) and is reported ended.
\* Nothing is assumed of users: no run has to be created, approved, rejected,
\* cancelled or deleted, and no approval has to expire.
Fairness ==
  /\ \A r \in Runs : /\ WF_vars(PreparePipelineRun(r))
                     /\ SF_vars(RecoverPendingRun(r))
                     /\ WF_vars(DispatchQueued(r))
                     /\ WF_vars(CancelNext(r))
                     /\ \A a \in Agents : WF_vars(StartAgent(a, r))
  /\ \A r \in Runs, k \in Kinds : WF_vars(LaunchNext(r, k))
  /\ \A r \in Runs, v \in Verdicts : WF_vars(CommitDecision(r, v))
  /\ \A group \in Groups : WF_vars(ReleaseGroup(group))
  /\ \A a \in Agents : /\ WF_vars(ReportRunning(a))
                       /\ WF_vars(CommitFinalize(a)) /\ WF_vars(CommitPause(a))
                       /\ WF_vars(ReportResult(a)) /\ WF_vars(StopAgent(a))
                       /\ WF_vars(BeginPause(a) \/ BeginFinalize(a, "success")
                                  \/ BeginFinalize(a, "failure"))

FairSpec == Spec /\ Fairness
-----------------------------------------------------------------------------
(* Properties.                                                             *)

Statuses == Unfinished \cup Terminal \cup Gone
DatabaseType ==
  /\ status \in [Runs -> Statuses]
  /\ clock \in Nat /\ born \in [Runs -> 0..clock]
  /\ \A r \in Runs : born[r] = 0 <=> status[r] = "absent"
  /\ \A q, r \in Runs : born[q] = born[r] /\ born[r] # 0 => q = r
  /\ approval \in [Runs -> Verdicts \cup {"none", "pending", "timed_out"}]
HandlerType ==
  /\ launch \in [Runs -> [Kinds -> LaunchPCs]]
  /\ releases \in SUBSET Groups /\ deciding \in SUBSET (Runs \X Verdicts)
  /\ cancel \in [Runs -> CancelPCs]
AgentRecords ==
  [run: Runs \cup {NoRun}, resume: BOOLEAN, bound: BOOLEAN, pc: AgentPCs]
ExecutionType ==
  /\ job \in [Runs -> {"none", "queued", "assigned"}]
  /\ resume \in [Runs -> BOOLEAN]
  /\ agent \in [Agents -> AgentRecords]
  /\ \A a \in Agents : agent[a].run = NoRun <=> agent[a].pc = "idle"
  /\ \A a \in Agents : agent[a].bound => agent[a].pc # "idle"
  /\ faults \in 0..MaxFaults

\* Types of the rows, the handlers, the dispatcher's jobs and the agents; a
\* row has its own creation time, and an agent in use has a run.
TypeOK == DatabaseType /\ HandlerType /\ ExecutionType

\* A run that has ended never comes back to life: no late launch, resumed
\* approval, task report or restarted agent takes it out of its terminal
\* status, whatever it read before.
TerminalAbsorbing ==
  [][\A r \in Runs : status[r] \in Terminal =>
       status'[r] \in Terminal \cup {"deleted"}]_vars

\* A cancelled run is never reported a success, a rejection or a timeout by a
\* handler that read its status before the cancellation.  (A launch that fails
\* meanwhile does turn it into a failure.)
CancelPrevails ==
  [][\A r \in Runs : status[r] = "cancelled" =>
       status'[r] \in {"cancelled", "failure", "deleted"}]_vars

\* The dispatcher or an agent has the run, or its status says so.
Started(r) ==
  \/ status[r] \in {"running", "waiting_approval"}
  \/ job[r] # "none"
  \/ \E a \in Agents : agent[a].run = r

\* Runs of a concurrency group start one at a time, oldest first: while a run
\* is unfinished, no younger run of its group is with the dispatcher or an
\* agent, approval gates, retries, requeues and restarts included.
GroupExclusive ==
  \A q, r \in Runs :
    SameGroup(q, r) /\ Older(q, r) /\ status[q] \in Unfinished => ~Started(r)

\* A run that waits for an approval has one that can still be decided.
WaitingHasApproval ==
  \A r \in Runs : status[r] = "waiting_approval" => approval[r] = "pending"

\* A pending run at the head of its group leaves "pending" sooner or later,
\* though releases, launches, jobs and agents may be lost on the way.
PendingHeadStarts ==
  \A r \in Runs : status[r] = "pending" /\ HoldsGroup(r) ~>
                    status[r] # "pending" \/ ~HoldsGroup(r)

\* What the documentation promises of an approved run: a fresh agent takes it
\* up from the checkpoint, unless the run ends some other way.
ApprovedRunResumes ==
  \A r \in Runs :
    approval[r] = "approved" /\ status[r] = "pending" ~>
      \/ Closed(r)
      \/ \E a \in Agents :
           agent[a].run = r /\ agent[a].pc = "working" /\ agent[a].resume
=============================================================================
