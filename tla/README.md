# NopsAI in TLA+

Specifications, model-checking runs and proofs for the part of NopsAI that
decides whether, when and where a pipeline run executes, and what becomes of it:
the dispatcher (`services/dispatcher`), the runners (`services/docker-runner`,
`services/k8s-runner`), the agent (`services/agent`), and in the control plane
(`services/nopsai`) the life of a run, the schedules, triggers and webhooks that
start runs and the dashboards that are refreshed by them.  Paths below are relative to the
repository.

| file | what it is |
|---|---|
| `Dispatcher.tla` | the dispatcher: queue, runner connections, placement, ejection, settings sync |
| `DispatcherProofs.tla` | its types, placement, registry, streams and policy, and that it forgets no run, proved |
| `JobTracker.tla` | what the dispatcher promises of the jobs it is given: the abstract specification |
| `DispatcherRefinement.tla`, `DispatcherRefinementProofs.tla` | the dispatcher as an implementation of it: the mapping, the proof |
| `MCDispatcher.tla`, `MCDispatch/MCEject/MCLive.cfg` | its instances for TLC |
| `RunLifecycle.tla` | a run's rows, the handlers and workers that write them, jobs and agents |
| `RunLifecycleProofs.tla` | types, terminal statuses, cancellation, approvals, concurrency groups, proved |
| `MCRunLifecycle.tla`, `MCLifecycle/MCFamily/MCProgress/MCResume.cfg` | its instances for TLC |
| `Runner.tla`, `RunnerProofs.tla` | a docker or kubernetes runner: its stream, its jobs, its cancellation monitors; types, slots, agents waited for, proved |
| `MCRunner.tla`, `MCRunner.cfg` | its instance for TLC |
| `AgentPipeline.tla`, `AgentPipelineProofs.tla` | the agent that executes a pipeline; types, dependencies, approvals, single starts, verdict, rows, sessions, proved |
| `MCAgentPipeline.tla`, `MCAgent.cfg` | its instance for TLC |
| `Schedules.tla`, `SchedulesProofs.tla` | schedules, the replicas that claim them and the writers that change them; types, claims, planning, proved |
| `MCSchedules.tla`, `MCSchedules.cfg` | its instance for TLC |
| `DashboardRefresh.tla`, `DashboardRefreshProofs.tla` | a dashboard's refreshes, the runs and outputs behind them; types, one refresh at a time, keys, published successes, cancellations that reach their runs, proved |
| `MCDashboardRefresh.tla`, `MCRefresh.cfg` | its instance for TLC |
| `Triggers.tla`, `TriggersProofs.tla` | external triggers and git webhook sources: requests, their keys, limits and runs; types, the limit, one start for a key, proved |
| `MCTriggers.tla`, `MCTriggers.cfg` | its instance for TLC |
| `PROJECT.json` | components, runs, mutants, the map from definitions to source lines, findings, hazards, theorems |

Run `tlc -config MCDispatch.cfg MCDispatcher.tla` and the like for a check, and
`tlapm` on each of the `*Proofs.tla` for the proofs.

## 1. The system

NopsAI runs pipelines.  A request (user, webhook, schedule, parent run) becomes
a row in `pipeline_runs`; the control plane builds a job and submits it to the
dispatcher; the dispatcher gives it to a runner over a gRPC stream; the runner
starts a container with an agent; the agent executes the pipeline and reports
back.

| component | state | operations | interacts with |
|---|---|---|---|
| dispatcher, `services/dispatcher/internal/service` | in memory, one mutex: queue, connections with their in-flight jobs and send channel, registry, routing, ejected ids, affinity | `SubmitJob`, `Register`, heartbeats, results, `UpdateRunnerDispatch`, `pumpQueue`, reaper, settings poll | asks the control plane for run status and settings; streams to runners; finalizes runs whose job failed |
| control plane: runs, `run_service.go`, `run_launcher.go`, `run_concurrency.go`, `pending_run_recovery.go` | `pipeline_runs`; launch goroutines | create, prepare, launch, release a group, sweep pending runs | database, `SubmitJob` |
| control plane: approvals, `approval_handlers.go` | `pipeline_approvals` with a checkpoint | pause, decide, resume, expire | agents, users, the sweep |
| control plane: cancelling, reports, `run_lifecycle_handlers.go`, `run_internal_handlers.go` | `pipeline_runs`, `task_runs` | cancel a run and its children, delete, task report, finalize | users, agents, dispatcher |
| control plane: runner settings, `runner_revocation.go`, `system_handlers.go` | `dispatcher_routing`, `ejected_runner_ids` | remove, pause, readmit a runner; serve the settings | dispatcher |
| runners, `docker-runner`, `k8s-runner` | containers or pods of their jobs | connect, heartbeat, start, report, stop a cancelled run | dispatcher, control plane |
| agent, `services/agent` | the task graph of one run, its goroutines, open step sessions, the pipeline's timer | run tasks, create child runs, pause, resume, finalize | control plane, containers |
| schedules, `schedules_*.go` | `pipeline_schedules` | write, switch, delete, sync, claim what is due, launch | run creation, configuration sync |
| dashboards, `dashboard_refresh.go`, `dashboard_publication.go`, `pipeline_final_outputs.go` | refreshes with a progress row for each source, output items of runs | start, launch, reconcile, roll up, cancel; generate and publish | run creation, runs, readers |
| external triggers, `external_triggers.go` | `external_trigger_invocations` | find a key, record, limit, start a run, settle | callers, run creation |
| git webhook sources, `git_webhook_*.go` | `git_webhook_deliveries` | verify, record, limit, match, start runs, settle | git providers, run creation |
| dashboard refresh schedules | due rows | claim and start | refreshes |
| git apps, `git-bot` | check runs | report checks | GitHub, runs |
| configuration repositories and sync | repositories, managed rows | fetch, parse, apply, prune | database |
| AAA service, sign-in, credentials | grants, tokens, secrets | authorize, issue, store | everything |
| notifications, data management, monitoring, assistant, hosted MCP, final outputs, UI, CLI, shared packages | own tables or none | request and response | see `PROJECT.json` |

### What is hard

* **Windows between locks.**  `pumpQueue` empties the queue and asks for the
  status of one job at a time without the lock; meanwhile its jobs are tracked
  nowhere and may be submitted, requeued or pumped again.
* **Counts from the past.**  A heartbeat overwrites a connection's active count
  with what its runner knew when it sent it.
* **Loss.**  Streams break with jobs in the queue, in a channel, on their way
  and being worked on; the dispatcher's state is in memory; goroutines of the
  control plane are lost in a restart.
* **Read, then write.**  Finalizing, cancelling, pausing, deciding and launching
  read a run's status and write it later, and six kinds of actors do so.
* **Order.**  Settings answers applied late, approvals that come before the
  report of the job they resume, launches of three kinds for one run.
* **Claims.**  Replicas poll one table of schedules; handlers and syncs write
  times they worked out before a claim; what is due goes by the database's clock
  and the next time by that of the replica at work.
* **Nobody owns it.**  A dashboard refresh is written by the request that starts
  it, the generators of its runs' outputs, every reader and a cancellation, each
  from what it read a moment ago.
* **Requests that go away.**  A trigger or a delivery is a row that is inserted,
  counted, acted on and settled in statements of their own, under the context of
  a request whose sender may hang up at any of them and try again.
* **Goroutines of one round.**  The agent's tasks, timeout, cancellation watch
  and child monitors share a table of active tasks, a registry of sessions and
  the flags the verdict is made from.
* **Progress.**  A job's end starts no pump, a lost release is replaced by a
  sweep with a bounded batch.

`PROJECT.json` lists each hazard at its line with the properties that cover it,
and says why where none does.

### What makes each component correct

* Dispatcher: a run is with one runner or queued once, never over capacity,
  never lost; only runners that may have a job get it; the registry tells the
  truth; a queued job is placed in the end; a lasting revocation prevails.
* Launching and groups: one run of a group at a time, oldest first; a pending
  run starts in the end; a launch never revives a run.
* Approvals: a waiting run can be decided; an approved run resumes from its
  checkpoint.
* Cancellation and finalization: an ended run stays ended, a cancelled one is
  not reported a success.
* Runner: a slot the dispatcher counts as taken is given back; no agent works
  that nobody waits for; a cancelled run is stopped.
* Agent: a task starts once and after what it needs, an approval is asked for
  alone, the verdict and the rows follow from the tasks, the containers are
  removed, and the agent ends.
* Schedules: a time is claimed once, an enabled schedule has a time, a time that
  comes due is launched.
* Dashboards: one refresh at a time, a source is not a success before its output
  went through publication, a cancellation reaches the runs, every refresh ends.
* Triggers and webhooks: requests with one key start a pipeline once, and no
  more than the limit are let through in a minute.
* Configuration sync (planned): what is applied is one commit's content, and
  what a repository no longer holds is pruned, and only that.
* AAA evaluator (planned): its decision equals the definition of grants.

## 2. The models

### Dispatcher

A critical section of the mutex is an action; what happens between an unlock and
the next lock is a step of its own.  A job is its run id.

| state | code |
|---|---|
| `queue`, `runners`, `inflight`, `active`, `allow`, `sendCh`, `record`, `affinity`, `ejected`, `routing`, `connSeq` | the fields of `dispatcherServer` and `runnerConn`; connections are numbers handed out by `nextConnectionID` |
| `submit` | a `SubmitJob` call between its status check and its lock |
| `pumpsDue`, `pumpJobs`, `pumpChecked` | `pumpQueue` goroutines: spawned, the private list of each, whether the head's status has been fetched |
| `sync` | a `syncRoutingFromNopsai` call with the answer it holds |
| `settings`, `ejecting` | the control plane's settings, removals between saving and calling |
| `link`, `delivered`, `open` | environment: the runner's end of a stream, the jobs it works on, the runs whose status allows dispatch |

| actions | code |
|---|---|
| `SubmitCheck`, `SubmitJob` | `SubmitJob` |
| `PumpStart`, `PumpCheck`, `PumpDispatch` | `pumpQueue` |
| `AddRunner`, `RemoveRunner` | `Register`, `addRunnerWithRejection`; `removeRunner`, the reaper |
| `Heartbeat`, `JobResult` | `handleHeartbeat`, `handleJobResult` |
| `UpdateRunnerDispatch`, `RevokeRunner`, `EjectRunner`, `AllowReuse`, `ChangeRouting` | pause and resume; removal in its two halves; readmission; settings edits |
| `SyncFetch`, `SyncRouting`, `SyncEjected` | the endpoint's answer, `updateRouting`, `updateEjectedRunners` |
| `Deliver`, `LoseLink`, `ChangeStatus` | a runner's stream; the run's status in the database |

`PickRunner` is `pickRunnerForJobLocked` as the set of its possible results, for
Go iterates maps in any order; it also returns the affinity table, which the
search changes even when it finds no runner.

Abstractions: `Register` runs its first pump itself before it reads its stream;
here that pump is spawned like the others, which only adds interleavings.  The
note `registered` is put in the channel together with the registration.  The
prepared payload (`prepareJobForRunner`) is left out.  `StatusFetchFails` lets a
failed status request pass as permission; the runs leave it off because a
stale read has the same outcome.

### JobTracker

What a caller may rely on, without queue, goroutines or counters: the runs that
wait, the runs each runner holds, the connected runners, the runs whose status
allows dispatch.  A run is accepted, placed on a connected runner with a free
slot, dropped while its status is closed, ended, or given back with all the jobs
of a runner that goes.

`DispatcherRefinement` maps the dispatcher to it.  `Waiting` is what the queue
or the private list of some `pumpQueue` has and no connection holds: a run stays
visible while `pumpQueue` tracks it nowhere, and a copy in a private list of a
run that was submitted and placed meanwhile does not show.  `Jobs` and `Up` read
the connections of a runner id as one runner.  `PumpStart`, heartbeats, pauses,
messages and settings map to stutters; `SubmitJob` and `PumpDispatch` to
`Place`, `Accept` or a stutter; `PumpCheck` to `Drop` or a stutter; a lost
stream, a removal and an updated ejected list to `Lose`; `JobResult` to `End` (or
a stutter, when the job is not the connection's).

### RunLifecycle

A statement or transaction is one step; a handler that reads and later writes is
two.  An UPDATE is an operator from a status to a status, with its WHERE clause
as the condition (`MarkRunRunning`, `FailLaunch`, `Finalize`, `Pause`, `Decide`).

| state | code |
|---|---|
| `status`, `born`, `approval` | `pipeline_runs.status`, `created_at`; `pipeline_approvals.status` |
| `launch[r][kind]` | where a launch of `r` is: the first, the one after an approval, the sweep's, a group release's |
| `releases`, `deciding`, `cancel` | `releaseRunConcurrencyGroup` calls, decisions between read and transaction, `cancelRunHierarchy` calls |
| `job`, `resume` | the dispatcher's view: untracked, queued or assigned, and whether the payload it holds names the checkpoint |
| `agent` | container slots: run, payload kind, whether the dispatcher still counts on it, and where it is |
| `faults` | restarts, losses, crashes and failed calls so far |

| actions | code |
|---|---|
| `CreateRun`, `PreparePipelineRun`, `AbandonLaunch` | `run_service.go` |
| `LaunchAgent`, `SubmitJob`, `LaunchAssigned`, `LaunchRejected`, `LaunchFails` | `launchAgent` and what `SubmitJob` answers |
| `RecoverPendingRun`, `ReleaseGroup` | the sweep, the release |
| `BeginDecision`, `CommitDecision`, `ExpireApproval`, `BeginPause`, `CommitPause` | `approval_handlers.go` |
| `CancelRequest`, `CancelChild`, `CancelWrite`, `CancelChildren`, `CancelRelease`, `DeleteRun` | `run_lifecycle_handlers.go` |
| `ReportRunning`, `BeginFinalize`, `CommitFinalize` | `run_internal_handlers.go` |
| `DispatchQueued`, `StartAgent`, `ReportResult`, `StopAgent` | dispatcher and runner |
| `CrashAgent`, `LoseRunner`, `RestartDispatcher`, `RestartNopsai` | faults |

The dispatcher is reduced here to what it answers: it keeps a job it tracks and
drops a second payload, refuses a run whose status does not allow dispatch, and
forgets everything in a restart.  The window in which `pumpQueue` tracks a job
nowhere is in `Dispatcher` only.

Abstractions, and what they may hide:

* `created_at` follows commit order.  A row with an older time that commits
  later could jump a queue; that is outside the model.
* `launchAgent` reads the status, the group and the head of the group in three
  queries; they are one step, before the step that submits.  A decision taken
  on the first read alone is not modelled.
* One approval step per pipeline, and a checkpoint that can be parsed.
* The sweep launches one run at a time; each is picked from the batch as it is
  then, not from the list read at the start of the sweep.  One release launch
  per run is under way at a time.
* The children of a cancelled run are cancelled side by side, not one after
  another; this allows more interleavings than the code.
* The minimum age of ten seconds, timeouts and polling intervals are
  nondeterminism.
* A `warning` is a `success`.  An agent that times out reports a failure.
* Errors of single statements other than the ones named in `LaunchFails`,
  `AbandonLaunch` and `GroupReadFails` are not modelled.

### Runner

Both runners in one module: they speak the same protocol and have the same
goroutines, and `runtime`, chosen at the start, says where they differ.  The
dispatcher is what it holds of this runner.

| state | code |
|---|---|
| `stream`, `open`, `sendCh` | the stream `connectAndServe` serves, its send channel |
| `served`, `place`, `wire`, `status` | the dispatcher's connection, where it has each run, what is on its way; `pipeline_runs.status` |
| `run`, `on`, `at`, `result` | one `handleJob` goroutine: its run, the stream it came on, where it is, what it will report |
| `monitor`, `stoppedRuns` | `monitorRunCancellation`, the runs whose stop was requested |
| `container` | the container or pod a goroutine created |
| `dropped`, `faults` | bookkeeping |

| actions | code |
|---|---|
| `Connect`, `EndStream`, `SendNext`, `Heartbeat`, `ReceiveJob` | `connectAndServe`, its sender and receiver, `heartbeatLoop` |
| `Accept`, `Prepare`, `Create`, `Start`, `Wait`, `Stop`, `Report`, `Cleanup` | `handleJob` from `sendJobResult(.., "accepted")` to its deferred calls |
| `MonitorPoll`, `MonitorStop` | `monitorRunCancellation` with `markRunStopRequested`, then `stopContainer` or `deletePod` |
| `Dispatch`, `DropConnection`, `HandleMessage` | the dispatcher: a queued job is sent, a connection is lost, a result is handled |
| `AgentEnds`, `RemoveEnded`, `CancelRun`, `Crash` | the agent, Docker's removal, a user, the runner process |

What differs: a Docker job's context ends with its stream, and then its calls
may fail, its wait returns and its container is stopped; a Kubernetes job goes
on, and only its messages go nowhere.  A Docker result waits for room in the
channel, a Kubernetes result that finds none is dropped.  A container is started
after it was created, stopped, and removed by Docker; a pod starts by itself and
is deleted.

Abstractions: images, volumes, workspace claims, pod specifications and log
forwarding are left out, dialling and registering are one step, and so are a
failed start and the removal that follows it.  A run has one payload, hence one
container name.  The dispatcher reads the run's status as it sends the job, not
before.

### AgentPipeline

A goroutine's step between two calls is an action, and a call with what it does
to the rows is one step.

| state | code |
|---|---|
| `pc` | the main goroutine of `RunPipeline` |
| `at`, `verdict` | where a task's goroutine is, the status it has arrived at |
| `completed`, `failed`, `warned`, `produced` | `completedTasks`, `pipelineFailed`, `pipelineWarned`, the runtime output store |
| `active`, `sessions`, `monitors` | `ActiveTaskTracker`, the session registry, monitors of children not waited for |
| `timer`, `sweep`, `doomed`, `taken` | the pipeline timeout; the threads that cancel active tasks and clean up sessions, the tasks and the sessions each has taken on |
| `run`, `row`, `approval` | `pipeline_runs`, `task_runs`, `pipeline_approvals` |
| `lost`, `starts`, `outcome`, `bare` | history; `bare` counts the attempts launched without the checkpoint |

| actions | code |
|---|---|
| `StartRound`, `Spawn`, `StopSpawning`, `EndRound`, `LeaveLoop`, `Conclude`, `Return`, `Exit` | the loop and the end of `RunPipeline` |
| `Check`, `ReportRunning`, `Track`, `OpenSession`, `ActionUnresolved`, `ActionRefused`, `Execute`, `Close`, `Untrack` | a task's goroutine |
| `AskApproval`, `TriggerChild`, `ChildEnds`, `MonitorEnds` | approvals, includes |
| `TimeoutFires`, `SeeCancelled`, `SweepClear`, `SweepReport`, `SweepSessions`, `SweepRemove`, `ExitCancelled` | timeout, cancellation watch, termination |
| `Approve`, `Reject`, `CancelRun`, `Resume` | the control plane and a later agent |

`Runnable`, `CompletedSteps` and `RoundTasks` are the scheduler, `Tolerated` and
`PipelineStatus` decide what a failure means.  Parsing of dependencies,
qualified names, cycles and what a condition or an action says are left out;
a task's work, a child's end and an answer are choices.

A sweep (`cleanupStepSessions`) takes the registry in one step (`SweepSessions`)
and removes the containers after that, one by one (`SweepRemove`), the deferred
sweep like the others; the process may end in between.  A call that fails to stop
or remove a container is only logged and shows as a removal: `SessionsReleased`
is about containers nobody tries to remove.

A resumed agent starts with what the rows say was completed when its launch
names the checkpoint, as that of an approval does, and with nothing when it does
not, as those of the sweep and of a group release (finding 1): then every task is
executed again.

### Schedules

| state | code |
|---|---|
| `row`, `lock` | `pipeline_schedules`, the rows' locks (`FOR UPDATE SKIP LOCKED`) |
| `stage`, `due` | a replica's worker: its transaction, what it has claimed |
| `draft` | a handler or sync between working out what to write and writing it |
| `now`, `Readings` | the database's clock, what a replica's may say then |
| `fate`, `again`, `behind` | history, of each time since the row was last written: what became of it, whether it was claimed a second time, whether a replica whose clock was behind it has advanced the row since |

| actions | code |
|---|---|
| `Claim`, `Commit`, `Launch`, `Crash` | `dispatchDueSchedules`, a replica that stops or a transaction that fails |
| `RequestCreate`, `RequestUpdate`, `RequestSwitch`, `RequestDelete`, `GiveUp` | the handlers up to their statement |
| `CreateSchedule`, `UpdateSchedule`, `SetScheduleEnabled`, `DeleteSchedule` | the statements |
| `ParseFiles`, `ApplySync` | a configuration sync's view of its files, its transaction |
| `Tick` | time |

A schedule is known by path and name where the code has an id, so that a late
write also finds a row that was deleted and made anew; updates do not rename.
There are many clocks.  What is due is decided by the database
(`next_run_at <= NOW()`, `schedules_worker.go:148`), the next time is worked out
by the replica (`time.Now()`, lines 174 and 190; the handlers and syncs likewise),
and each of these readings may be up to `MaxSkew` behind or ahead.

One repository.  `last_run_id` and `last_status`, grants and run-now are left
out: no time depends on them.  A cron expression always has a next time.

### DashboardRefresh

One dashboard.  Statements are steps; every handler is a process with its own
locals, and a refresh is named by the request that made it.

| state | code |
|---|---|
| `refresh`, `row`, `linked`, `overdue` | `dashboard_refreshes`, `dashboard_refresh_pipeline_runs`, the run a row names, `timeout_at` |
| `run`, `output`, `published` | runs, `pipeline_run_outputs`, the outputs published for the refresh |
| `pc`, `about`, `source`, `todo`, `owed`, `update`, `verdict`, `after` | handlers and goroutines: what each is at, and what it read and will write |
| `passed`, `early`, `upsets` | history: outputs that went by unpublished without an error; runs in reach of the cancellations |

| actions | code |
|---|---|
| `Start`, `CheckFirst`, `InsertRefresh`, `Launch`, `SaveLaunch`, `AllLaunched` | a start request, its insertion under the two partial unique indexes, its launches |
| `Reconcile`, `TimeOutRows`, `ReadRows`, `WriteRow` | `reconcileDashboardRefresh`: what a reader does |
| `Tally`, `TallyRequired`, `Settle` | `updateDashboardRefreshRollup`: two queries of the rows, then the verdict |
| `Prepare`, `Claim`, `Generate`, `Publish`, `Mark...`, `FailOutput`, `FinishOutput` | the generator of a run's outputs |
| `BeginCancel`, `CollectRuns`, `CancelRows`, `CancelRun`, `CancelOutputs`, `CancelRefresh`, `CancelOutput` | cancelling |
| `EndRun`, `RetryOutput`, `TimePasses`, `Restart` | runs, users, the clock, the process |

What a model answers and how it is rendered is a choice; a run ends as it likes.
So is what publication makes of an output, for that depends on other runs and on
bindings that users edit: it is published; or it gives way to the output of a run
that finished later (`skipped_older`, `dashboard_publication.go:496`) and the row
is told that it was published; or no enabled binding of the run's scope is there
(lines 75-81, 322-338), only an event is written and the row is told `failed`; or
it fails.  An output that went by in one of the middle two ways is in `passed`.

A goroutine that retries an output is one of its own, beside that of the run,
which may still be at other items, or at the last statements of this one; the
sources for which a retry may overlap it are `Overlapping`.  Telling a row of an
output may find no row that names the run, or fail and be logged, and so may
cancelling the outputs and each of the runs of a refresh.  Database calls whose
error ends their handler are not modelled otherwise than by a restart.
Presentation and access are left out.

### Triggers

A request is an invocation of the one trigger or a delivery to the one source;
its handler is a process, and a statement is a step.

| state | code |
|---|---|
| `pc`, `todo`, `outcomes`, `current` | a request's handler: where it is, the pipelines it has yet to start, what came of the others |
| `present` | whether `r.Context()` is alive: the sender waits for an answer |
| `row` | `external_trigger_invocations`, `git_webhook_deliveries` |
| `run` | `pipeline_runs`, by the request and the pipeline they are of |
| `now`, `reply` | the clock; what was answered |
| `admitted`, `started`, `disowned` | history: who passed the limit; the runs that were handed to the launcher; those whose request was refused when they had been, or were left to the sweep |

| actions | code |
|---|---|
| `FindInvocation`, `InsertInvocation`, `InsertDelivery` | the lookup of a key, the inserts under a partial unique index and under `ON CONFLICT DO NOTHING` |
| `Refuse`, `CheckLimit`, `Match` | the checks, the limit, the pipelines of an event |
| `CreateRun`, `Prepare`, `FailRun`, `Launch` | `handleRunPipeline`: `createPendingRun`, `preparePipelineRun`, `failRun`, the timeout and `launchPipeline` |
| `RecordInvocation`, `RecordDelivery`, `Fail` | what is written into the row, and the answer |
| `Sweep`, `DeleteRun`, `HangUp`, `Restart`, `Tick` | the recovery sweep, a user, the sender, the process, time |

A statement under the request's context has no effect once the sender hung up;
an insert that it interrupts has happened or not.  A row refers to its run by a
foreign key, so that settling an invocation fails if its run was deleted.  Why a
request is refused is a choice.  A run that was launched is left to
`RunLifecycle`.  The sweep may take any pending run: it looks at the age of the
row only (`pendingRunRecoveryMinAge`, ten seconds), and a request may take longer
to prepare its run.  A timeout that does not parse is found after the run was
made (`run_handlers.go:614`), so `Launch` may end with an error and leave the run
pending; and the update of `failRun` may be lost.

## 3. The runs

| run | asks | result |
|---|---|---|
| `dispatch` | `TypeOK`, `TrackedOnce`, `WithinCapacity`, `InflightAccounted`, `NoSilentLoss`, `AssignmentRespectsPolicy` | pass |
| `eject` | `OneConnection`, `RegistryMirrors`, `RevocationPrevails` | pass |
| `live` | `HeldRunAssigned`, `ImplementsJobTracker` | pass |
| `lifecycle` | `TypeOK`, `GroupExclusive`, `WaitingHasApproval` | pass |
| `family` | `TerminalAbsorbing`, `CancelPrevails` | pass |
| `progress` | `PendingHeadStarts` | pass |
| `resume` | `ApprovedRunResumes` | violated: finding 1 |
| `runner` | `TypeOK`, `SlotBacked`, `NobodyUnwatched`, `CancelledRunStops` | pass |
| `agent` | `TypeOK`, `DependenciesRespected`, `ApprovalBarrier`, `StartedOnce`, `VerdictTruthful`, `RowsSettled`, `SessionsReleased`, `AgentEnds` | pass |
| `schedules` | `TypeOK`, `ClaimedOnce`, `EnabledIsPlanned`, `DueRuns` | pass |
| `refresh` | `TypeOK`, `SuccessPublished`, `CancelStopsRuns`, `RefreshEnds` | pass |
| `triggers` | `TypeOK`, `KeyStartsOnce`, `LimitRespected` | pass |

Every property of a passing run has a mutant: a plausible bug in one definition
(named `Mutant:` in the modules) that makes TLC refute it.

### Bounds

* Dispatcher: `MaxConns` 2 gives a runner that
  reconnects, or two runners; `MaxPumpsDue` 1, because a spawned pump that has
  not started takes whatever the queue holds by then; `SendBuf` 1 or 2 instead
  of 32, so that channels fill; capacities 0, 1 and 2; `HeartbeatSkew` 1, a
  count off by one job either way.  `dispatch` has two jobs so that they compete
  for a slot and for the order of the queue, and only `r1` closes and reopens;
  the two share an affinity key, the first has a scope and the second a preferred
  runner, the table routes the default scope to `a`, and `b` is scoped and can be
  paused, so that every way of choosing or refusing a runner occurs;
  `live` has two jobs for one slot and two pumps that take the queue from each
  other, with reconnections and `r1` closing; `eject` has two settings calls, so that answers cross.
* Lifecycle: `lifecycle` has two runs of one group and one agent, enough for a
  queue of one behind a holder that waits for an approval, without faults;
  `family` has a parent and a child; `progress` one run with one fault of any
  kind.  `MaxDecisions` 1.  What these leave out, several faults and more runs,
  is what the proofs cover.
* Runner: one run that two goroutines may work on (`MaxJobs` 2), two streams, a
  channel of one message in place of 64 so that it fills, one fault; both
  runtimes in one run.  Containers are removed when they end; with
  `AutoRemove = FALSE` the same properties hold.
* Agent: four steps with five tasks, chosen so that each kind of step, a
  dependency on a step and one on a task, outputs, a condition and a tolerated
  failure occur (`MCAgentPipeline` says which is which); `MaxUpsets` 2 lost
  calls, timeout, cancellation and launches without the checkpoint in all
  (720,000 states).
* Schedules: two names, two replicas, two writers, two writes, the database's
  clock up to 2, replicas one tick behind or ahead of it (`MaxSkew`), and one
  stop: enough for a claim between a writer's read and its write, a batch of two,
  a time that a slow clock works out again and one that a fast clock passes over
  (50,000 states).
* Dashboards: one source, one request that is also its reader, one cancellation,
  one upset (840,000 states).  Every handler that writes a refresh is there once;
  several requests, sources, cancellations and losses at once are what
  `DashboardRefreshProofs` is for.  `Overlapping` is empty in the run, so that an
  output is retried after its goroutine has ended; with the source in it all
  four properties hold too (4.1 million states, a quarter of an hour), and the
  theorems are for any `Overlapping`.
* Triggers: three invocations, two with one key, or two deliveries of one event
  that may match two pipelines; a limit of one, a minute of two ticks in a clock
  up to 2, and two upsets (a sender that hangs up, a restart, a lost update;
  1.5 million states).  Requests with one key are alike (`Alike`): no constant or
  property tells them apart, and the run checks no liveness.  The constraint
  `OneTable` leaves out behaviours in which both tables are used: they share
  nothing.  The limit is reached by the invocations, whose check is that of the
  deliveries; the proofs are for any number of both.
* The runs of `MCRunLifecycle`, `MCRunner`, `MCAgentPipeline`, `MCSchedules`,
  `MCDashboardRefresh` and `MCTriggers` allow deadlock: once every run, job,
  refresh or request has ended, or the clock has stopped, nothing is left to do.  The dispatcher never stops.

### Fairness

* Dispatcher: goroutines run (`Pump*`), a live stream carries what is sent and
  its runner keeps sending heartbeats (`heartbeatLoop`), a lost stream ends its
  `Register` handler or is reaped, and the settings are polled for ever
  (`syncRoutingLoop`, 5 s).  Nothing is assumed of operators, runs or results.
* Lifecycle: launches, handlers and cancellations that were started go on, a
  queued job is placed, a container reports, ends (the pipeline's timeout sees
  to it) and is reported ended.  The sweep is strongly fair for each run of its
  batch: it visits every entry of its list, and between two launches the others
  wait, so weak fairness would not express "comes round".  Users need not do
  anything, and an approval need not expire.
* Runner: goroutines go on and the runtime answers (weak fairness, on the steps
  that do not fail), the sender and the receiver carry messages.  A goroutine
  that waits for room in the channel has its turn (strong fairness): Go serves
  blocked senders in order.  Nothing of users, agents or the network.
* Agent: while something in the process can go on, something does (`Process`,
  one weak fairness for all of it: the scheduler may favour whom it likes, for no
  goroutine goes on for ever), the watcher polls, a child run ends.  The timer
  does not have to fire and users need not approve.
* Schedules: every replica's ticker polls for ever and goes on with what it
  claimed.  Writers need do nothing.
* Dashboards: handlers and generators go on, time passes `timeout_at`, and
  somebody keeps reading refreshes that run (`ReconcileSteps` of a reader), for
  nothing else in the code ends a refresh whose process was lost.

## 4. Findings

One difference between a sentence of the repository and the code is shown by a
run (`resume`, which TLC refutes); `PROJECT.json` quotes the sentence.

1. An approval "launches a fresh agent with the checkpoint ID"
   (`doc/runtime-flows.md:254`).  If it comes before the paused agent's job is
   reported ended, the dispatcher answers "already dispatched", the run becomes
   `running`, the report then clears the job, and no agent is ever launched: the
   sweep looks at pending runs only.  And where the sweep or a group release is
   the first to launch an approved run, it does so without the checkpoint id.

What else was met while modelling, and is in the models, without a run of its
own:

* A removed runner can rejoin for a while: a poll replaces the whole ejected
  list by an answer that may be older than the removal.  `RevocationPrevails`
  shows that the next polls repair it.
* A failed read of a run's group is taken for "no group": with `GroupReadFails`
  TRUE, TLC refutes `GroupExclusive`.
* The sweep's batch counts runs that may not start, and can be full of them.
* A pipeline whose task failed and was tolerated ends as `warning`, unless it
  was resumed after an approval: then it ends as `success`, because the failure
  is not restored.
* A reader of a refresh writes a row (`services/nopsai/dashboard_refresh.go:592`)
  from the output item it read earlier, whatever the row has become: a source
  just marked successful or cancelled may show `running` until the next read
  (`doc/dashboards.md:383-388` says that the row follows the item).
* A source's row may say success although nothing was published
  (`doc/dashboards.md:384-388`: not "unless its dashboard output was generated
  and published").  An output that gives way to that of a later run writes an
  event `skipped_older` (`services/nopsai/dashboard_publication.go:496-498`), and
  line 106 then marks the row a success.  An output that meets no enabled binding
  of its scope (lines 75-81, 319-342) marks its row failed, but becomes a success
  as an output item: if the row does not name the run yet, if that mark fails, or
  if a reader writes what it read before, the row follows the item.
  `SuccessPublished` is stated with these exceptions: what it shows is that
  nothing else, no reader, retry or cancellation, makes a row successful whose
  output was not handed to publication.
* A cancellation of a run that fails is logged, and the refresh is marked
  cancelled without it (`services/nopsai/dashboard_refresh.go:757-769`); the run
  goes on, and no later cancellation finds it, for its row has ended.
  `CancelStopsRuns` excepts such runs.
* A cancellation of a refresh collects the runs to cancel from its live rows and
  ends the rows next (`services/nopsai/dashboard_refresh.go:735-774`).  A run that
  a launch links in between is missed, and a second cancellation that begins
  before the rows end and collects after that misses it too.  If the control
  plane stops between ending the rows and cancelling the runs, the refresh stays
  `running` and the next cancellation finds no live row.  Each way the refresh is
  marked cancelled while a run of it goes on.  `CancelStopsRuns` is stated for
  the runs within reach of every cancellation under way when one began.
* A Kubernetes job outlives its stream, but its cancellation monitor polls
  through the connection that was lost.  A run cancelled after a reconnection
  keeps its pod (`doc/service-reference.md:468`, `doc/runtime-flows.md:418-419`).
  `CancelledRunStops` is stated for jobs whose stream is open.
* A Docker job whose stream ends between start and wait may find the wait's
  context error first, and then leaves the container running.
* A job that was requeued while its first container or pod still works has the
  same name as it; its creation fails and the run is reported failed.
* A pipeline whose timeout does not parse (`services/nopsai/run_handlers.go:614-617`;
  no validation parses it before) is answered with an error when its run already
  exists.  The run stays pending, the sweep starts it later, and a retry with the
  same key, which the error gave back, starts another.  The same comes of a
  `failRun` whose update is lost, and of a run that is prepared for longer than
  `pendingRunRecoveryMinAge` (10 s), launched by the sweep and then failed by its
  request.  The models always allow all three, and `KeyStartsOnce` excepts the
  invocation that was refused with such a run (`disowned`) by name; without the
  exception TLC refutes it in a few steps.
* The timeout's sweep may be at its containers when `RunPipeline` returns:
  `Stop` does not wait for the callback
  (`services/agent/internal/app/lifecycle.go:37-51`, 80-84), the deferred sweep finds the
  registry empty (`session_registry.go:82-99`), and the process ends with the
  containers left.  So it does after the sweep of a cancelled run.
  `SessionsReleased` says that nothing else is left.
* A replica whose clock is behind the database's claims a recurring schedule when
  the database says it is due, works out the same time again and so claims it a
  second time, or as often as the lag has room for; one whose clock is ahead
  passes times over (`services/nopsai/schedules_worker.go:148`, 174, 190).
  `ClaimedOnce` excepts the times of which a replica that had not reached them by
  its own clock has claimed the row.
* A verdict on a request is written under the request's own context.  If the
  sender has hung up, the control plane restarted or the run was deleted, the row
  stays as it is and its key reserved: a retry is told that the key "is already
  being processed" for good (`doc/runtime-flows.md:109` says that failed attempts
  do not reserve the key for ever).  Likewise a delivery that failed or was cut
  short is answered as a duplicate when its provider sends it again.
* `doc/kubernetes-runner.md:62-65` says that removing a runner does not revoke
  its id, while `handleEjectRunner` saves the revocation.


## 5. The proofs

TLC checks small instances; the theorems hold for every value of the constants
that satisfies the named assumptions (finite sets, distinct sentinels, typed
tables), with any number of runs, runners, goroutines, agents, replicas, readers
and faults.

### Dispatcher

* `DispatcherProofs!TypeCorrect` : `Spec => []TypeOK`.
* `DispatcherProofs!DispatchSafe` : `Spec => [](TrackedOnce /\ WithinCapacity /\
  OneConnection)`, with the corollaries `CapacityRespected` and `ConnectedOnce`.
  None of the three is inductive alone.  `SafetyInv` adds
  `Vacant`: an id not handed out yet is not in the table and a connection
  outside it holds nothing, without which a new connection could come with
  jobs.  A job is placed only when it is not tracked (`PlaceJobSafe`), on a
  connection `PickRunner` found eligible (`PickRunnerFacts`), which has a free
  slot by the larger of both counts (`LoadFacts`), so a stale heartbeat cannot
  overbook; jobs leave a connection for the queue all at once and are added in
  an order without repetition (`EnqueueAllFacts`, `DisconnectSafe`).
* `DispatcherRefinementProofs!Implements` : `Spec => ImplementsJobTracker`.
  Where types and `SafetyInv` hold, the mapped state can be read run by run
  (`MappingHolds`: a connected runner's jobs are those of its one connection, a
  run is placed iff some connection holds it); with it each action is shown to
  be a step or a stutter (`PlaceStep`, `LoseStep`, `EndStep`, `ConnectStep`,
  `PumpStep`, and `Unseen` for what shows nothing, put together in
  `Simulation`).  `SafetyInv` is needed: two connections of one id would be one
  runner losing half its jobs, and a run in two places would end in one only.

* `RegistryTruthful` : `Spec => []RegistryMirrors`, in its three parts
  (`RecordsAgree`, `OfflineEmpty`, `AffinityLive`).  It rests on
  `OneConnection`: a step that writes the record of one connection's runner
  leaves those of the others true because no two share a runner.
* `InflightTrue` : `Spec => []InflightAccounted`.  Its invariant `StreamInv` adds
  that a job is in a channel at most once, that a channel's jobs are not with
  the runner yet, and that a stream that ended has nothing delivered: a job
  placed twice, or an id that comes into use with jobs of its own, would break
  the count later.
* `WorkGivenByPolicy` : `Spec => AssignmentRespectsPolicy` and `NothingForgotten` :
  `Spec => NoSilentLoss`, two action properties.  Only placing adds a job to a
  connection (`OnlyPlacingAssigns`), and it takes a result of `PickRunner`; and
  each action that takes a run from the queue, a connection or a pump's list
  either has it in another of them afterwards, found its status closed or took
  its runner's result.

### Runs

* `RunLifecycleProofs!LifecycleTypes` : `Spec => []TypeOK`.
* `EndedStaysEnded`, `CancelledStaysCancelled` : every UPDATE is an evolution of
  the status in which what ended stays ended (`UpdateFacts`), and every step
  changes a status by such an update (`StatusStep`).
* `WaitingDecidable` : `WaitingHasApproval` is inductive given the types, since
  a pause sets the approval pending in the same transaction and a decision
  leaves `waiting_approval` in the one that decides.
* `GroupSerial` : `~GroupReadFails => (Spec => []GroupExclusive)`.
  `GroupExclusive` is not inductive: a launch that has passed its check submits
  later.  `GroupInv` says that whatever holds a run, a status, a job, an agent
  or a launch past its check, the run is entitled: its row exists and it heads
  its group.  Entitlement lasts (`EntitledStays`) because older runs that ended
  stay ended and new runs are younger; and each way to come to hold a run
  starts from holding it or from the check (`HoldingSource` and its parts).
  The hypothesis is needed: TLC refutes `GroupExclusive` where `GroupReadFails`
  is TRUE.

### Runner

* `RunnerProofs!Typed`, `SlotGivenBack` (`SlotBacked`) and `AgentsWaitedFor`
  (`NobodyUnwatched`).  `SlotBacked` needs `Owned`, that a dispatcher without
  the connection has no job in flight on it: otherwise a new stream would be
  served with slots nobody works for.  `NobodyUnwatched` needs `Fresh`:
  goroutines come to life with a run, work for a stream that was opened, and
  have no container before they create one.  A goroutine's message counts until
  it is taken from the channel (`Appended`, `Sent`), so a slot is backed by a
  goroutine first and by a message after.

### Agent

* `AgentPipelineProofs!Typed`, `DependenciesFirst`, `ApprovalAlone`,
  `SuccessMeansAll` and `NoContainerLeft`.  The invariant has four parts.
  `Rounds`: goroutines run only while the main one waits for them, an approval
  is its round's only task, what was started needs what is completed.
  `Verdicts`: a task is completed with the outcome it ended with, and a loop
  that leaves without a failure has completed every task; this is what makes
  the final status true whatever order the goroutines end in.  `Stored`: what
  `task_runs` and the approval say of the tasks, without which a resumed agent
  could start from a row of a task that did not end.  `Swept`: who sweeps the
  sessions, that the deferred sweep comes after every opening and does not end
  before it has removed what it took, and that containers a sweep took and has
  not removed are of a sweep under way or of a process that ended under it.
* `WorkStartsOnce` (`StartedOnce`) and `RowsEnd` (`RowsSettled`).  A resumed
  agent starts what no row shows as completed, so the invariant `SInv` says,
  for a task whose reports were all heard: work that was started is under way,
  or a completed row tells of it, or the attempt is the run's last (`Known`); a
  status reported by a goroutine that is closing is in the row, whatever a
  monitor or a sweep wrote (`Told`); and a sweep only ever has tasks of the
  round that runs, so it cannot turn a completed row of an earlier round into a
  cancelled one that the next attempt would start again (`Chased`, which needs
  that the timeout's sweep means a failed attempt and that an approval is asked
  for alone).  All of it counts from the last attempt that began without the
  checkpoint (`bare`).  `RowsSettled` is then inductive: a failure closes the open rows,
  and an attempt that did not fail has completed every task, each with an ended
  row.

### Schedules

* `SchedulesProofs!Typed`, `NoTimeTwice` (`ClaimedOnce`) and `AlwaysPlanned`
  (`EnabledIsPlanned`).  A claim is a transaction of several statements, so the
  invariant says what `FOR UPDATE SKIP LOCKED` gives: a lock belongs to a worker
  that is claiming (`LockHeld`), and what that worker has read is still so
  (`Holding`).  With it, the time a row is armed with was not claimed since it was written,
  or a replica whose clock was behind it has armed it again (`Owed`); this
  takes no relation between the clocks.  `DraftsPlanned` says that a write
  under way, worked out from an older read, has a time if it enables the row.

### Dashboards

* `DashboardRefreshProofs!Typed`, `OneRefreshRuns` and `KeyNamesOne`: one
  refresh of a dashboard runs, and a key names one refresh, however many
  requests passed their checks at once.  Both rest on the two partial unique
  indexes, which stop a second insertion and also a rollup whose counts are old
  from writing `running` beside another refresh.  `Work` says that who is at
  work works on a refresh that exists, so that no step creates one by the way.
  A generator that publishes does so for a source (`Publishing`), which comes
  from the second invariant; the two are proved together (`RInvHolds`).  They are proved and not run: the instance for TLC has one
  request, with which they could not fail.
* `SuccessIsPublished` (`SuccessPublished`) and `CancellationReaches`
  (`CancelStopsRuns`).  A row is written from what somebody read before, so
  `RInv` says of everything that may still be written that it is true: an output
  item, what a reconciliation has planned for a row and a generator past its
  publication say success only of what was published or went by (`Outputs`,
  `Plans`, `Handled`), and neither is undone; and they say anything only of a run
  that has ended.  Hence a row that comes back to life after a cancellation does
  so for an ended run (`Closed`), and a run that was live when a cancellation
  began is named by a live row and in the list of every cancellation that has
  made one, until one of them is about to cancel it or has failed to
  (`Reached`).

### Triggers

* `TriggersProofs!Typed`, `LimitKept` (`LimitRespected`) and `StartedByOne`
  (`KeyStartsOnce`).  A request counts the rows after it inserted its own, so whoever passes has seen
  every row of the minute that was let through before, and afterwards that set
  only shrinks (`FewLetThrough`); this needs that a row keeps its stamp and that
  a new row's request has not passed (`StampKept`, `Entered`).  For a key,
  `Unique` says that one request stands for it, which the unique indexes see to,
  and `Owned` that an invocation gives its key back only with no run that is
  pending or was handed over, or with one that is `disowned`: its run is failed
  before its row, and a sender that hangs up between the two keeps the key.

### Only model-checked

The liveness properties `HeldRunAssigned`, `RevocationPrevails`,
`PendingHeadStarts`, `AgentEnds`, `RefreshEnds`, `DueRuns` and
`CancelledRunStops`: fairness and ENABLED are out of the prover's reach.  Every
invariant and every other action property that a run checks is proved.  No module uses a
recursive operator.


## 6. Not modelled

`PROJECT.json` lists every component with its status.  Left out of the files
that are modelled:

* Dispatcher: authentication interceptors, log ingestion, pass-through calls.
* Runs: who may decide or cancel, notifications, git checks, the contents of
  task rows and outputs, and the payload beyond whether it can be built.
* Runners: images, volumes, workspace claims, pod specifications, node pools,
  the forwarding of logs.
* Agent: what a task does (containers, LLM and MCP calls, plugins, the
  workspace), values passed between tasks, qualified names, cycles and the
  parsing of dependencies.
* Schedules: run-now, execution grants, renaming.
* Dashboards: presentation, access, the schedules of dashboards (the claim of
  `Schedules` followed by a start of `DashboardRefresh`), the text of outputs.

* Triggers and webhook sources: their management and sync, callers, payload
  schemas, mappings, verification and matching of events.

Left out as a whole, for having no protocol of their own or none yet: git apps
and `git-bot`, configuration sync beyond the schedules it writes, credentials,
sign-in and tokens, the AAA evaluator, notifications, housekeeping and
monitoring, the assistant and hosted MCP, the socket proxy, the command line and
the user interface.  These are most of the repository's lines;
most of them read one request, check it and write one row.


## 7. Plan

Done, in this order: `Dispatcher` and `RunLifecycle` with their proofs,
`JobTracker` and its refinement, `Runner`, `AgentPipeline`, `Schedules`,
`DashboardRefresh` and `Triggers` with theirs.  What is left:

1. Use `JobTracker` as the dispatcher of `RunLifecycle` and of `Runner` (both
   restate it now), so that the three compose: a checkpointed payload as part of
   a job, the restart of the dispatcher as a step of the tracker, and an agent
   of `RunLifecycle` as a container of `Runner`.
2. Liveness of requests and runs together: a delivery that was recorded starts
   its runs, or says why not, with `RunLifecycle` behind `Triggers`.
3. `ConfigSync`: one sync at a time, apply and prune, for all the resources.
4. `AuthzEvaluator` and the trigger matcher against reference definitions.
5. Refresh tokens and bootstrap tokens: rotation and single use under
   concurrent requests.
6. Proofs: that a `Runner` connection implements the slots of `JobTracker`, and
   that an agent's rows implement the run of `RunLifecycle`, once they compose;
   the safety halves of the liveness properties, such as that a pending head of
   a group stays startable until it starts.
