------------------------------- MODULE Runner -------------------------------
(***************************************************************************)
(* A runner: services/docker-runner and services/k8s-runner.  It keeps one *)
(* stream to the dispatcher open, starts a goroutine for every job it      *)
(* receives (handleJob) and, for every agent it starts, a monitor that     *)
(* polls for a cancellation.  The two runners share this protocol and      *)
(* differ where a job's context ends: a Docker job dies with the stream it *)
(* came on, a Kubernetes job outlives it.                                  *)
(*                                                                         *)
(* The dispatcher is reduced to what it holds of this runner.  Agents are  *)
(* containers or pods that end when they like.                             *)
(***************************************************************************)
EXTENDS Naturals, Sequences, FiniteSets

CONSTANTS Runs,        \* one launch of each: a requeued job has the same payload
          Runtimes,    \* which runners: "docker", "kubernetes"
          AutoRemove,  \* ended containers and pods are removed
          SendBuf,     \* messages the send channel holds (64 in the code)
          MaxJobs,     \* bound on the jobs received
          MaxStreams,  \* bound on the streams opened
          MaxFaults,   \* bound on crashes and failed calls to the runtime
          NoRun

ASSUME RunnerAssumption ==
  /\ Runtimes \subseteq {"docker", "kubernetes"} /\ Runtimes # {}
  /\ AutoRemove \in BOOLEAN
  /\ SendBuf \in Nat \ {0}
  /\ MaxJobs \in Nat /\ MaxStreams \in Nat /\ MaxFaults \in Nat
  /\ NoRun \notin Runs

Jobs == 1..MaxJobs  \* goroutines, in the order they are started

VARIABLES
  runtime,      \* the runner's kind
  stream,       \* streams opened so far; the last one is the current one
  open,         \* connectAndServe serves it
  served,       \* the dispatcher has its connection
  place,        \* dispatcher: a run is queued, in flight on this runner, or over
  wire,         \* jobs sent on the stream and not received yet
  sendCh,       \* the runner's messages not sent yet
  status,       \* pipeline_runs.status
  run, on,      \* what a goroutine works on and the stream it came on
  at,           \* where handleJob is
  result,       \* what it is about to report
  monitor,      \* where monitorRunCancellation is
  container,    \* the agent container or pod the goroutine created
  stoppedRuns,  \* runs whose stop was requested
  dropped,      \* runs whose result found the channel full (bookkeeping)
  faults        \* bookkeeping

link == <<stream, open, served, place, wire>>
jobVars == <<run, on, at, result>>
vars == <<runtime, link, sendCh, status, jobVars, monitor, container, stoppedRuns,
          dropped, faults>>

Outcome == {"completed", "failed"}
Message == (Runs \X (Outcome \cup {"accepted"})) \cup {<<NoRun, "heartbeat">>}
Place == {"queue", "runner", "over"}
Stage == {"none", "accept", "prepare", "create", "start", "wait", "stop", "report",
          "cleanup", "over"}

TypeOK ==
  /\ runtime \in Runtimes
  /\ stream \in 0..MaxStreams /\ open \in BOOLEAN /\ served \in BOOLEAN
  /\ place \in [Runs -> Place] /\ wire \subseteq Runs
  /\ sendCh \in Seq(Message) /\ Len(sendCh) <= SendBuf
  /\ status \in [Runs -> {"open", "cancelled", "ended"}]
  /\ run \in [Jobs -> Runs \cup {NoRun}] /\ on \in [Jobs -> 0..MaxStreams]
  /\ at \in [Jobs -> Stage] /\ result \in [Jobs -> Outcome]
  /\ monitor \in [Jobs -> {"off", "polling", "stopping", "over"}]
  /\ container \in [Jobs -> {"none", "created", "running", "stopped", "gone"}]
  /\ stoppedRuns \subseteq Runs /\ dropped \subseteq Runs /\ faults \in 0..MaxFaults

Init ==
  /\ runtime \in Runtimes
  /\ stream = 0 /\ open = FALSE /\ served = FALSE
  /\ place = [r \in Runs |-> "queue"] /\ wire = {} /\ sendCh = <<>>
  /\ status = [r \in Runs |-> "open"]
  /\ run = [j \in Jobs |-> NoRun] /\ on = [j \in Jobs |-> 0]
  /\ at = [j \in Jobs |-> "none"] /\ result = [j \in Jobs |-> "failed"]
  /\ monitor = [j \in Jobs |-> "off"] /\ container = [j \in Jobs |-> "none"]
  /\ stoppedRuns = {} /\ dropped = {} /\ faults = 0

\* Mutant: the channel takes one message too many.
HasRoomForOneMore == Len(sendCh) <= SendBuf

HasRoom == Len(sendCh) < SendBuf

\* The stream of the job is still served: for a Docker job its context lives,
\* for a Kubernetes job the connection its calls go through is open.
Live(j) == open /\ on[j] = stream

Goto(j, stage) == at' = [at EXCEPT ![j] = stage]

Fault == faults < MaxFaults /\ faults' = faults + 1

-----------------------------------------------------------------------------
(* The stream.                                                             *)

\* connectAndServe dials, opens the stream and registers.  The dispatcher takes
\* a runner id only once it has forgotten the connection before.
Connect ==
  /\ ~open /\ ~served /\ stream < MaxStreams
  /\ stream' = stream + 1 /\ open' = TRUE /\ served' = TRUE /\ wire' = {}
  /\ UNCHANGED <<runtime, place, sendCh, status, jobVars, monitor, container,
                 stoppedRuns, dropped, faults>>

\* The dispatcher loses or reaps the connection and takes its jobs back.
DropConnection ==
  /\ served /\ served' = FALSE
  /\ place' = [r \in Runs |-> IF place[r] = "runner" THEN "queue" ELSE place[r]]
  /\ UNCHANGED <<runtime, stream, open, wire, sendCh, status, jobVars, monitor, container,
                 stoppedRuns, dropped, faults>>

\* connectAndServe returns: its context ends, its channel and connection go.
EndStream ==
  /\ open /\ open' = FALSE /\ wire' = {} /\ sendCh' = <<>>
  /\ UNCHANGED <<runtime, stream, served, place, status, jobVars, monitor, container,
                 stoppedRuns, dropped, faults>>

\* The dispatcher sends a queued job whose run may still be dispatched.
Dispatch(r) ==
  /\ served /\ place[r] = "queue" /\ status[r] = "open"
  /\ Cardinality(wire) < Cardinality({j \in Jobs : at[j] = "none"})
  /\ place' = [place EXCEPT ![r] = "runner"] /\ wire' = wire \cup {r}
  /\ UNCHANGED <<runtime, stream, open, served, sendCh, status, jobVars, monitor, container,
                 stoppedRuns, dropped, faults>>

ReceiveJob(r, j) ==
  /\ open /\ r \in wire
  /\ at[j] = "none" /\ \A i \in 1..(j - 1) : at[i] # "none"
  /\ wire' = wire \ {r}
  /\ run' = [run EXCEPT ![j] = r] /\ on' = [on EXCEPT ![j] = stream] /\ Goto(j, "accept")
  /\ UNCHANGED <<runtime, stream, open, served, place, sendCh, status, result, monitor,
                 container, stoppedRuns, dropped, faults>>

\* What the dispatcher makes of a message: a result frees the slot, a failure
\* ends a run that has not ended.
HandleMessage(m) ==
  IF served /\ m[2] \in Outcome
  THEN /\ place' = [place EXCEPT ![m[1]] = IF @ = "runner" THEN "over" ELSE @]
       /\ status' = [status EXCEPT ![m[1]] =
                       IF m[2] = "failed" /\ @ = "open" THEN "ended" ELSE @]
  ELSE UNCHANGED <<place, status>>

\* The sender goroutine sends the next message and the dispatcher reads it.
SendNext ==
  /\ open /\ sendCh # <<>>
  /\ sendCh' = Tail(sendCh) /\ HandleMessage(Head(sendCh))
  /\ UNCHANGED <<runtime, stream, open, served, wire, jobVars, monitor, container,
                 stoppedRuns, dropped, faults>>

\* The Docker runner drops a heartbeat that finds the channel full, the
\* Kubernetes runner waits for room.
Heartbeat ==
  /\ open /\ HasRoom
  /\ sendCh' = Append(sendCh, <<NoRun, "heartbeat">>)
  /\ UNCHANGED <<runtime, link, status, jobVars, monitor, container, stoppedRuns, dropped,
                 faults>>

-----------------------------------------------------------------------------
(* handleJob.                                                              *)

\* Mutant: the Docker runner does not wait for room either.
SendOrDrop(j, message) ==
  \/ /\ Live(j) /\ HasRoom
     /\ sendCh' = Append(sendCh, <<run[j], message>>)
     /\ UNCHANGED dropped
  \/ ~(Live(j) /\ HasRoom) /\ UNCHANGED <<sendCh, dropped>>

\* sendJobResult: the Docker runner waits for room in the channel or the end of
\* its context, the Kubernetes runner drops what finds no room.  A message in
\* the channel of an ended stream goes nowhere.
SendJobResult(j, message) ==
  \/ /\ Live(j) /\ HasRoom
     /\ sendCh' = Append(sendCh, <<run[j], message>>)
     /\ UNCHANGED dropped
  \/ ~Live(j) /\ UNCHANGED <<sendCh, dropped>>
  \/ /\ runtime = "kubernetes" /\ Live(j) /\ ~HasRoom
     /\ dropped' = (IF message \in Outcome THEN dropped \cup {run[j]} ELSE dropped)
     /\ UNCHANGED sendCh

Accept(j) ==
  /\ at[j] = "accept" /\ SendJobResult(j, "accepted")
  /\ Goto(j, "prepare")
  /\ UNCHANGED <<runtime, link, status, run, on, result, monitor, container, stoppedRuns,
                 faults>>

Conclude(j, outcome) == result' = [result EXCEPT ![j] = outcome] /\ Goto(j, "report")

\* A call to Docker fails once the context of the job has ended, a call to
\* Kubernetes has no such context.
MayCall(j) == runtime = "docker" => Live(j)

\* The image and the volume, or the name of the workspace claim.
Prepare(j) ==
  /\ at[j] = "prepare"
  /\ \/ MayCall(j) /\ Goto(j, "create") /\ UNCHANGED result
     \/ Conclude(j, "failed")
  /\ UNCHANGED <<runtime, link, sendCh, status, run, on, monitor, container, stoppedRuns,
                 dropped, faults>>

\* A container's name is that of its launch, and the one before may still have it.
NameTaken(j) ==
  \E i \in Jobs \ {j} :
    run[i] = run[j] /\ container[i] \in {"created", "running", "stopped"}

\* A pod starts by itself, a container is started next.  A call whose context
\* ended under it may have created the container all the same.
Create(j) ==
  /\ at[j] = "create"
  /\ \/ /\ runtime = "docker" /\ ~NameTaken(j)
        /\ container' = [container EXCEPT ![j] = "created"]
        /\ \/ MayCall(j) /\ Goto(j, "start") /\ UNCHANGED result
           \/ ~MayCall(j) /\ Conclude(j, "failed")
        /\ UNCHANGED monitor
     \/ /\ runtime = "kubernetes" /\ ~NameTaken(j)
        /\ container' = [container EXCEPT ![j] = "running"]
        /\ monitor' = [monitor EXCEPT ![j] = "polling"]
        /\ Goto(j, "wait") /\ UNCHANGED result
     \/ Conclude(j, "failed") /\ UNCHANGED <<monitor, container>>
  /\ UNCHANGED <<runtime, link, sendCh, status, run, on, stoppedRuns, dropped, faults>>

\* Mutant: a start that fails leaves the container as it is.
StartLeft(j) ==
  /\ at[j] = "start"
  /\ \/ /\ MayCall(j)
        /\ monitor' = [monitor EXCEPT ![j] = "polling"]
        /\ Goto(j, "wait") /\ UNCHANGED result
     \/ Conclude(j, "failed") /\ UNCHANGED monitor
  /\ container' = [container EXCEPT ![j] = "running"]
  /\ UNCHANGED <<runtime, link, sendCh, status, run, on, stoppedRuns, dropped, faults>>

\* A start that fails removes the container, for it may have started.
\* removeCreatedContainer only logs an error.
Start(j) ==
  /\ at[j] = "start"
  /\ \/ /\ MayCall(j)
        /\ container' = [container EXCEPT ![j] = "running"]
        /\ monitor' = [monitor EXCEPT ![j] = "polling"]
        /\ Goto(j, "wait") /\ UNCHANGED <<result, faults>>
     \/ /\ \/ container' = [container EXCEPT ![j] = "gone"] /\ UNCHANGED faults
           \/ container' = [container EXCEPT ![j] = "running"] /\ Fault
        /\ Conclude(j, "failed") /\ UNCHANGED monitor
  /\ UNCHANGED <<runtime, link, sendCh, status, run, on, stoppedRuns, dropped>>

\* The wait returns: the agent ended (a pod that is gone is an error), the call
\* failed, or a Docker job's context ended, which the call may notice first.
Wait(j) ==
  /\ at[j] = "wait"
  /\ \/ /\ container[j] \in {"stopped", "gone"}
        /\ \E outcome \in Outcome : Conclude(j, outcome)
        /\ UNCHANGED faults
     \/ container[j] = "running" /\ Fault /\ Conclude(j, "failed")
     \/ /\ runtime = "docker" /\ ~Live(j)
        /\ \/ Goto(j, "stop") /\ UNCHANGED result
           \/ Conclude(j, "failed")
        /\ UNCHANGED faults
  /\ UNCHANGED <<runtime, link, sendCh, status, run, on, monitor, container, stoppedRuns,
                 dropped>>

\* Stopping a container ends it, deleting a pod removes it.  stopContainer and
\* deletePod only log an error.
TryToStop(j) ==
  \/ /\ container' = [container EXCEPT ![j] =
                         IF @ = "gone" THEN @
                         ELSE IF runtime = "docker" THEN "stopped" ELSE "gone"]
     /\ UNCHANGED faults
  \/ Fault /\ UNCHANGED container

Stop(j) ==
  /\ at[j] = "stop"
  /\ TryToStop(j)
  /\ Conclude(j, "failed")
  /\ UNCHANGED <<runtime, link, sendCh, status, run, on, monitor, stoppedRuns, dropped>>

Report(j) ==
  /\ at[j] = "report" /\ SendJobResult(j, result[j])
  /\ Goto(j, "cleanup")
  /\ UNCHANGED <<runtime, link, status, run, on, result, monitor, container, stoppedRuns,
                 faults>>

\* The deferred calls: a pod is deleted, the stop request is forgotten.
Cleanup(j) ==
  /\ at[j] = "cleanup" /\ Goto(j, "over")
  /\ stoppedRuns' = stoppedRuns \ {run[j]}
  /\ IF runtime = "kubernetes" /\ AutoRemove /\ container[j] \in {"running", "stopped"}
     THEN TryToStop(j)
     ELSE UNCHANGED <<container, faults>>
  /\ UNCHANGED <<runtime, link, sendCh, status, run, on, result, monitor, dropped>>

-----------------------------------------------------------------------------
(* monitorRunCancellation.                                                 *)

\* A Docker job's monitor lives until handleJob returns, a Kubernetes job's
\* until the pod has ended.
Watching(j) ==
  /\ monitor[j] = "polling" /\ Live(j)
  /\ at[j] \in (IF runtime = "docker" THEN {"wait", "report", "cleanup"} ELSE {"wait"})

\* Mutant: the monitor polls only once.
MonitorPollOnce(j) ==
  /\ Watching(j)
  /\ IF status[run[j]] = "cancelled"
     THEN /\ monitor' = [monitor EXCEPT ![j] = "stopping"]
          /\ stoppedRuns' = stoppedRuns \cup {run[j]}
     ELSE monitor' = [monitor EXCEPT ![j] = "over"] /\ UNCHANGED stoppedRuns
  /\ UNCHANGED <<runtime, link, sendCh, status, jobVars, container, dropped, faults>>

\* A poll that finds the run cancelled ends the polling.  The first monitor of
\* the run to do so stops the agent.
MonitorPoll(j) ==
  /\ Watching(j) /\ status[run[j]] = "cancelled"
  /\ IF run[j] \in stoppedRuns
     THEN monitor' = [monitor EXCEPT ![j] = "over"] /\ UNCHANGED stoppedRuns
     ELSE /\ monitor' = [monitor EXCEPT ![j] = "stopping"]
          /\ stoppedRuns' = stoppedRuns \cup {run[j]}
  /\ UNCHANGED <<runtime, link, sendCh, status, jobVars, container, dropped, faults>>

\* The monitor is through even if the agent could not be stopped.
MonitorStop(j) ==
  /\ monitor[j] = "stopping" /\ monitor' = [monitor EXCEPT ![j] = "over"]
  /\ TryToStop(j)
  /\ UNCHANGED <<runtime, link, sendCh, status, jobVars, stoppedRuns, dropped>>

-----------------------------------------------------------------------------
(* Agents, users and crashes.                                              *)

\* An agent reports the end of its run, unless it pauses, and ends.
AgentEnds(j) ==
  /\ container[j] = "running" /\ container' = [container EXCEPT ![j] = "stopped"]
  /\ \/ UNCHANGED status
     \/ status[run[j]] = "open" /\ status' = [status EXCEPT ![run[j]] = "ended"]
  /\ UNCHANGED <<runtime, link, sendCh, jobVars, monitor, stoppedRuns, dropped, faults>>

\* Docker removes a container that ended and was created to be removed.
RemoveEnded(j) ==
  /\ runtime = "docker" /\ AutoRemove /\ container[j] = "stopped"
  /\ container' = [container EXCEPT ![j] = "gone"]
  /\ UNCHANGED <<runtime, link, sendCh, status, jobVars, monitor, stoppedRuns, dropped,
                 faults>>

CancelRun(r) ==
  /\ status[r] = "open" /\ status' = [status EXCEPT ![r] = "cancelled"]
  /\ UNCHANGED <<runtime, link, sendCh, jobVars, monitor, container, stoppedRuns, dropped,
                 faults>>

\* The runner process dies and starts again; containers and pods stay.
Crash ==
  /\ Fault
  /\ open' = FALSE /\ wire' = {} /\ sendCh' = <<>> /\ stoppedRuns' = {}
  /\ at' = [j \in Jobs |-> IF at[j] = "none" THEN "none" ELSE "over"]
  /\ monitor' = [j \in Jobs |-> "over"]
  /\ UNCHANGED <<runtime, stream, served, place, status, run, on, result, container,
                 dropped>>

-----------------------------------------------------------------------------
HandleJob(j) ==
  \/ Accept(j) \/ Prepare(j) \/ Create(j) \/ Start(j)
  \/ Wait(j) \/ Stop(j) \/ Report(j) \/ Cleanup(j)

Next ==
  \/ Connect \/ DropConnection \/ EndStream \/ SendNext \/ Heartbeat \/ Crash
  \/ \E r \in Runs : Dispatch(r) \/ CancelRun(r)
  \/ \E r \in Runs, j \in Jobs : ReceiveJob(r, j)
  \/ \E j \in Jobs :
       HandleJob(j) \/ MonitorPoll(j) \/ MonitorStop(j) \/ AgentEnds(j) \/ RemoveEnded(j)

Spec == Init /\ [][Next]_vars

\* Goroutines go on and the runtime answers them, the sender sends what is in
\* its channel, the receiver reads what was sent.  A goroutine that waits for
\* room in the channel has its turn, for Go serves senders in order.  Nothing is
\* assumed of users, agents or the network, nor of calls that fail.
Fairness ==
  /\ WF_vars(SendNext)
  /\ WF_vars(\E r \in Runs, j \in Jobs : ReceiveJob(r, j))
  /\ \A j \in Jobs :
       /\ WF_vars(HandleJob(j) /\ faults' = faults)
       /\ SF_vars(Accept(j)) /\ SF_vars(Report(j))
       /\ WF_vars(MonitorPoll(j)) /\ WF_vars(MonitorStop(j))

FairSpec == Spec /\ Fairness

-----------------------------------------------------------------------------
(* Properties.                                                             *)

\* A goroutine that will say something of the run works on it, or has said it.
WorkedOn(r) ==
  \E j \in Jobs : Live(j) /\ run[j] = r /\ at[j] \notin {"none", "cleanup", "over"}

Announced(r) == \E i \in DOMAIN sendCh : sendCh[i] \in {r} \X Outcome

WillReport(r) == r \in wire \/ WorkedOn(r) \/ Announced(r)

\* A slot the dispatcher counts as taken is one that will be given back: while
\* both ends hold the stream, each run in flight is on its way, is worked on, or
\* its result is in the channel.  Only a Kubernetes runner whose channel is full
\* loses a result.
SlotBacked ==
  served /\ open =>
    \A r \in Runs : place[r] = "runner" =>
      WillReport(r) \/ (runtime = "kubernetes" /\ r \in dropped)

\* An agent at work is waited for by its goroutine, whatever happened to
\* streams, starts and stops.  The exceptions are a failed call or a crash,
\* and a Docker job whose context ended.
NobodyUnwatched ==
  \A j \in Jobs : container[j] = "running" =>
    \/ at[j] \in {"wait", "stop"}
    \/ faults > 0
    \/ runtime = "docker" /\ ~Live(j)

\* The runner stops a cancelled run: its agent ends and its slot is given back,
\* unless the stream ends, a call fails or the result is dropped.
CancelledRunStops ==
  \A r \in Runs :
    (status[r] = "cancelled" /\ place[r] = "runner" /\ open)
      ~> \/ /\ place[r] # "runner"
            /\ \A j \in Jobs : run[j] = r /\ Live(j) => container[j] # "running"
         \/ ~served \/ ~open \/ faults > 0 \/ r \in dropped
=============================================================================
