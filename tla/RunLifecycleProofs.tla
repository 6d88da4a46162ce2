------------------------- MODULE RunLifecycleProofs -------------------------
(***************************************************************************)
(* Proofs about RunLifecycle: its types, that an ended run stays ended and *)
(* a cancelled run cancelled, that a waiting run can be decided, and that  *)
(* the runs of a concurrency group start one at a time.                    *)
(***************************************************************************)
EXTENDS RunLifecycle, TLAPS

\* How any statement may change a run's status: a row is not lost or made by
\* an UPDATE, what has ended stays ended, and a cancellation can only become a
\* failure.
Ended == Terminal \cup {"deleted"}
Evolves(s, t) ==
  /\ t \in Statuses
  /\ s = "absent" <=> t = "absent"
  /\ s \in Ended => t \in Ended
  /\ s = "cancelled" => t \in {"cancelled", "failure", "deleted"}

\* Every UPDATE statement of the model is such a change.
LEMMA UpdateFacts ==
  ASSUME NEW s \in Statuses
  PROVE  /\ Evolves(s, s) /\ Evolves(s, MarkRunRunning(s))
         /\ Evolves(s, FailLaunch(s)) /\ Evolves(s, MarkRunCancelled(s))
         /\ \A to \in {"success", "failure"} : Evolves(s, Finalize(s, to))
         /\ Evolves(s, Pause(s))
         /\ \A v \in Verdicts : Evolves(s, Decide(s, v))
BY DEF Evolves, Ended, Statuses, Unfinished, Terminal, Gone, MarkRunRunning,
       FailLaunch, MarkRunCancelled, Finalize, Pause, Decide, Verdicts

\* An agent slot in use has a run.
LEMMA AgentFacts ==
  ASSUME TypeOK, NEW a \in Agents, agent[a].pc # "idle"
  PROVE  agent[a].run \in Runs
<1>1. agent[a] \in AgentRecords
  BY DEF TypeOK, ExecutionType
<1>2. agent[a].run \in Runs \cup {NoRun}
  BY <1>1 DEF AgentRecords
<1>3. \A b \in Agents : agent[b].run = NoRun <=> agent[b].pc = "idle"
  BY DEF TypeOK, ExecutionType
<1> QED  BY <1>2, <1>3

\* The steps that create no row.
Quiet ==
  \/ \E r \in Runs : \/ PreparePipelineRun(r) \/ AbandonLaunch(r)
                     \/ RecoverPendingRun(r) \/ ExpireApproval(r)
                     \/ DispatchQueued(r) \/ CancelNext(r)
  \/ \E r \in Runs, k \in Kinds : LaunchNext(r, k)
  \/ \E r \in Runs, v \in Verdicts : BeginDecision(r, v) \/ CommitDecision(r, v)
  \/ \E r \in Runs : CancelRequest(r) \/ DeleteRun(r)
  \/ \E group \in Groups : ReleaseGroup(group)
  \/ \E a \in Agents, r \in Runs : StartAgent(a, r)
  \/ \E a \in Agents : AgentNext(a)
  \/ \E a \in Agents, to \in {"success", "failure"} : BeginFinalize(a, to)
  \/ RestartDispatcher \/ RestartNopsai
  \/ UNCHANGED vars

LEMMA NextCases ==
  ASSUME [Next]_vars
  PROVE  Quiet \/ \E r \in Runs : CreateRun(r)
BY LifecycleAssumption DEF Next, Quiet, RunNext, LifecycleAssumption
-----------------------------------------------------------------------------
(* The database.                                                           *)

\* A step that creates no row changes statuses only as Evolves allows.
LEMMA StatusStep ==
  ASSUME TypeOK, Quiet
  PROVE  /\ status' \in [Runs -> Statuses]
         /\ \A r \in Runs : Evolves(status[r], status'[r])
<1> DEFINE Goal == /\ status' \in [Runs -> Statuses]
                   /\ \A r \in Runs : Evolves(status[r], status'[r])
<1>1. status \in [Runs -> Statuses]
  BY DEF TypeOK, DatabaseType
<1>2. ASSUME NEW r \in Runs, NEW t, SetStatus(r, t), Evolves(status[r], t)
      PROVE  Goal
  BY <1>1, <1>2, UpdateFacts DEF SetStatus, Evolves
<1>3. ASSUME UNCHANGED status
      PROVE  Goal
  BY <1>1, <1>3, UpdateFacts
<1> HIDE DEF Goal
<1>4. ASSUME NEW r \in Runs, \/ PreparePipelineRun(r) \/ AbandonLaunch(r)
                             \/ RecoverPendingRun(r) \/ DispatchQueued(r)
      PROVE  Goal
  BY <1>1, <1>2, <1>3, <1>4, UpdateFacts
     DEF PreparePipelineRun, AbandonLaunch, RecoverPendingRun, DispatchQueued,
         database
<1>5. ASSUME NEW r \in Runs, ExpireApproval(r) \/ DeleteRun(r)
      PROVE  Goal
  BY <1>1, <1>2, <1>5 DEF ExpireApproval, DeleteRun, Evolves, Ended, Statuses,
     Unfinished, Terminal, Gone
<1>6. ASSUME NEW r \in Runs, CancelNext(r) \/ CancelRequest(r)
      PROVE  Goal
  BY <1>1, <1>2, <1>3, <1>6, UpdateFacts
     DEF CancelNext, CancelChild, CancelWrite, CancelChildren, CancelRelease,
         CancelRequest, database
<1>7. ASSUME NEW r \in Runs, NEW k \in Kinds, LaunchNext(r, k)
      PROVE  Goal
  BY <1>1, <1>2, <1>3, <1>7, UpdateFacts
     DEF LaunchNext, LaunchAgent, SubmitJob, LaunchFails, LaunchAssigned,
         LaunchRejected, database
<1>8. ASSUME NEW r \in Runs, NEW v \in Verdicts,
             BeginDecision(r, v) \/ CommitDecision(r, v)
      PROVE  Goal
  BY <1>1, <1>2, <1>3, <1>8, UpdateFacts DEF BeginDecision, CommitDecision, database
<1>9. ASSUME NEW group \in Groups, ReleaseGroup(group)
      PROVE  Goal
  BY <1>3, <1>9 DEF ReleaseGroup, database
<1>10. ASSUME NEW a \in Agents, AgentNext(a)
       PROVE  Goal
  <2>1. CASE ReportRunning(a)
    BY <1>1, <1>2, <2>1, UpdateFacts, AgentFacts DEF ReportRunning, AgentAt
  <2>2. CASE CommitFinalize(a)
    BY <1>1, <1>2, <2>2, UpdateFacts, AgentFacts DEF CommitFinalize, AgentAt
  <2>3. CASE CommitPause(a)
    BY <1>1, <1>2, <1>3, <2>3, UpdateFacts, AgentFacts DEF CommitPause, AgentAt
  <2>4. CASE BeginPause(a) \/ ReportResult(a) \/ StopAgent(a) \/ CrashAgent(a)
             \/ LoseRunner(a)
    BY <1>3, <2>4 DEF BeginPause, ReportResult, StopAgent, CrashAgent, LoseRunner,
       database
  <2> QED  BY <1>10, <2>1, <2>2, <2>3, <2>4 DEF AgentNext
<1>11. ASSUME \/ \E a \in Agents, r \in Runs : StartAgent(a, r)
              \/ \E a \in Agents, to \in {"success", "failure"} :
                   BeginFinalize(a, to)
              \/ RestartDispatcher \/ RestartNopsai \/ UNCHANGED vars
       PROVE  Goal
  BY <1>3, <1>11 DEF StartAgent, BeginFinalize, RestartDispatcher, RestartNopsai,
     vars, database
<1>12. Goal
  BY <1>4, <1>5, <1>6, <1>7, <1>8, <1>9, <1>10, <1>11 DEF Quiet
<1> QED  BY <1>12 DEF Goal

\* Only CreateRun writes created_at.
LEMMA BornStep ==
  ASSUME Quiet
  PROVE  UNCHANGED <<born, clock>>
<1>1. ASSUME NEW r \in Runs, NEW k \in Kinds, LaunchNext(r, k)
      PROVE  UNCHANGED <<born, clock>>
  BY <1>1 DEF LaunchNext, LaunchAgent, SubmitJob, LaunchFails, LaunchAssigned,
     LaunchRejected, database
<1>2. ASSUME NEW r \in Runs,
             \/ PreparePipelineRun(r) \/ AbandonLaunch(r) \/ RecoverPendingRun(r)
             \/ ExpireApproval(r) \/ DispatchQueued(r) \/ CancelNext(r)
             \/ CancelRequest(r) \/ DeleteRun(r)
      PROVE  UNCHANGED <<born, clock>>
  BY <1>2 DEF PreparePipelineRun, AbandonLaunch, RecoverPendingRun, ExpireApproval,
     DispatchQueued, CancelNext, CancelChild, CancelWrite, CancelChildren,
     CancelRelease, CancelRequest, DeleteRun, database
<1>3. ASSUME NEW a \in Agents,
             \/ AgentNext(a)
             \/ \E to \in {"success", "failure"} : BeginFinalize(a, to)
             \/ \E r \in Runs : StartAgent(a, r)
      PROVE  UNCHANGED <<born, clock>>
  BY <1>3 DEF AgentNext, ReportRunning, CommitFinalize, BeginPause, CommitPause,
     ReportResult, StopAgent, CrashAgent, LoseRunner, BeginFinalize, StartAgent,
     database
<1>4. ASSUME \/ \E r \in Runs, v \in Verdicts :
                  BeginDecision(r, v) \/ CommitDecision(r, v)
             \/ \E group \in Groups : ReleaseGroup(group)
             \/ RestartDispatcher \/ RestartNopsai \/ UNCHANGED vars
      PROVE  UNCHANGED <<born, clock>>
  BY <1>4 DEF BeginDecision, CommitDecision, ReleaseGroup, RestartDispatcher,
     RestartNopsai, vars, database
<1> QED  BY <1>1, <1>2, <1>3, <1>4 DEF Quiet

\* Approvals keep their type; the steps that write them are few.
LEMMA ApprovalStep ==
  ASSUME TypeOK, Quiet
  PROVE  approval' \in [Runs -> Verdicts \cup {"none", "pending", "timed_out"}]
<1> DEFINE T == [Runs -> Verdicts \cup {"none", "pending", "timed_out"}]
<1>0. approval \in T
  BY DEF TypeOK, DatabaseType
<1>1. ASSUME NEW r \in Runs, NEW k \in Kinds, LaunchNext(r, k)
      PROVE  approval' \in T
  BY <1>0, <1>1 DEF LaunchNext, LaunchAgent, SubmitJob, LaunchFails,
     LaunchAssigned, LaunchRejected, database
<1>2. ASSUME NEW r \in Runs,
             \/ PreparePipelineRun(r) \/ AbandonLaunch(r) \/ RecoverPendingRun(r)
             \/ ExpireApproval(r) \/ DispatchQueued(r) \/ CancelNext(r)
             \/ CancelRequest(r) \/ DeleteRun(r)
      PROVE  approval' \in T
  BY <1>0, <1>2 DEF PreparePipelineRun, AbandonLaunch, RecoverPendingRun,
     ExpireApproval, DispatchQueued, CancelNext, CancelChild, CancelWrite,
     CancelChildren, CancelRelease, CancelRequest, DeleteRun, database
<1>3. ASSUME NEW a \in Agents,
             \/ AgentNext(a)
             \/ \E to \in {"success", "failure"} : BeginFinalize(a, to)
             \/ \E r \in Runs : StartAgent(a, r)
      PROVE  approval' \in T
  BY <1>0, <1>3 DEF AgentNext, ReportRunning, CommitFinalize, BeginPause,
     CommitPause, ReportResult, StopAgent, CrashAgent, LoseRunner, BeginFinalize,
     StartAgent, database
<1>4. ASSUME \/ \E r \in Runs, v \in Verdicts :
                  BeginDecision(r, v) \/ CommitDecision(r, v)
             \/ \E group \in Groups : ReleaseGroup(group)
             \/ RestartDispatcher \/ RestartNopsai \/ UNCHANGED vars
      PROVE  approval' \in T
  BY <1>0, <1>4 DEF BeginDecision, CommitDecision, ReleaseGroup,
     RestartDispatcher, RestartNopsai, vars, database
<1> QED  BY <1>1, <1>2, <1>3, <1>4 DEF Quiet

LEMMA DatabaseStep ==
  ASSUME TypeOK, [Next]_vars
  PROVE  DatabaseType'
<1>1. CASE Quiet
  <2>1. born' = born /\ clock' = clock
    BY <1>1, BornStep
  <2>2. \A r \in Runs : status'[r] = "absent" <=> status[r] = "absent"
    BY <1>1, StatusStep DEF Evolves
  <2> QED
    BY <1>1, <2>1, <2>2, StatusStep, ApprovalStep DEF TypeOK, DatabaseType
<1>2. ASSUME NEW r \in Runs, CreateRun(r)
      PROVE  DatabaseType'
  <2> USE DEF TypeOK, DatabaseType
  <2>1. /\ clock' = clock + 1 /\ born' = [born EXCEPT ![r] = clock + 1]
        /\ status' = [status EXCEPT ![r] = "pending"]
        /\ approval' = approval
    BY <1>2 DEF CreateRun, SetStatus
  <2>2. clock' \in Nat /\ born' \in [Runs -> 0..clock']
    BY <2>1
  <2>3. status' \in [Runs -> Statuses]
    BY <2>1 DEF Statuses, Unfinished
  <2>4. \A q \in Runs : born'[q] = 0 <=> status'[q] = "absent"
    BY <2>1
  <2>5. \A p, q \in Runs : born'[p] = born'[q] /\ born'[q] # 0 => p = q
    BY <2>1
  <2> QED  BY <2>1, <2>2, <2>3, <2>4, <2>5
<1> QED  BY <1>1, <1>2, NextCases
-----------------------------------------------------------------------------
(* Handlers.                                                               *)

LEMMA HandlerStep ==
  ASSUME TypeOK, [Next]_vars
  PROVE  HandlerType'
<1>0. /\ launch \in [Runs -> [Kinds -> LaunchPCs]]
      /\ releases \in SUBSET Groups /\ deciding \in SUBSET (Runs \X Verdicts)
      /\ cancel \in [Runs -> CancelPCs]
  BY DEF TypeOK, HandlerType
<1>1. ASSUME NEW r \in Runs, NEW k \in Kinds, NEW pc \in LaunchPCs, Goto(r, k, pc)
      PROVE  launch' \in [Runs -> [Kinds -> LaunchPCs]]
  BY <1>0, <1>1 DEF Goto
<1>2. "first" \in Kinds /\ "resume" \in Kinds /\ "retry" \in Kinds
      /\ "release" \in Kinds
  BY DEF Kinds
<1>3. /\ "none" \in LaunchPCs /\ "prepare" \in LaunchPCs /\ "start" \in LaunchPCs
      /\ "ready" \in LaunchPCs /\ "assigned" \in LaunchPCs
      /\ "rejected" \in LaunchPCs
  BY DEF LaunchPCs
<1>4. \A r \in Runs : GroupsOf(r) \in SUBSET Groups
  BY LifecycleAssumption DEF GroupsOf, LifecycleAssumption
<1>5. ASSUME NEW r \in Runs, NEW k \in Kinds, LaunchNext(r, k)
      PROVE  HandlerType'
  <2>1. UNCHANGED <<releases, deciding, cancel>>
    BY <1>5 DEF LaunchNext, LaunchAgent, SubmitJob, LaunchFails, LaunchAssigned,
       LaunchRejected
  <2>2. \E pc \in LaunchPCs : Goto(r, k, pc)
    BY <1>3, <1>5 DEF LaunchNext, LaunchAgent, SubmitJob, LaunchFails,
       LaunchAssigned, LaunchRejected
  <2> QED  BY <1>0, <1>1, <2>1, <2>2 DEF HandlerType
<1>6. ASSUME NEW r \in Runs, \/ CreateRun(r) \/ PreparePipelineRun(r)
                             \/ AbandonLaunch(r) \/ RecoverPendingRun(r)
      PROVE  HandlerType'
  <2>1. UNCHANGED <<releases, deciding, cancel>>
    BY <1>6 DEF CreateRun, PreparePipelineRun, AbandonLaunch, RecoverPendingRun
  <2>2. \E k \in Kinds, pc \in LaunchPCs : Goto(r, k, pc)
    BY <1>2, <1>3, <1>6 DEF CreateRun, PreparePipelineRun, AbandonLaunch,
       RecoverPendingRun
  <2> QED  BY <1>0, <1>1, <2>1, <2>2 DEF HandlerType
<1>7. ASSUME NEW r \in Runs, NEW v \in Verdicts,
             BeginDecision(r, v) \/ CommitDecision(r, v)
      PROVE  HandlerType'
  <2>1. UNCHANGED <<releases, cancel>> /\ deciding' \in SUBSET (Runs \X Verdicts)
    BY <1>0, <1>7 DEF BeginDecision, CommitDecision
  <2>2. UNCHANGED launch \/ Goto(r, "resume", "start")
    BY <1>7 DEF BeginDecision, CommitDecision
  <2> QED  BY <1>0, <1>1, <1>2, <1>3, <2>1, <2>2 DEF HandlerType
<1>8. ASSUME NEW group \in Groups, ReleaseGroup(group)
      PROVE  HandlerType'
  <2>1. UNCHANGED <<deciding, cancel>> /\ releases' \in SUBSET Groups
    BY <1>0, <1>8 DEF ReleaseGroup
  <2>2. UNCHANGED launch \/ \E r \in Runs : Goto(r, "release", "start")
    BY <1>8 DEF ReleaseGroup, OldestPending
  <2> QED  BY <1>0, <1>1, <1>2, <1>3, <2>1, <2>2 DEF HandlerType
<1>9. ASSUME NEW r \in Runs, CancelNext(r) \/ CancelRequest(r)
      PROVE  HandlerType'
  <2>1. /\ \A s : AfterCancelRead(s) \in CancelPCs
        /\ CancelFails(r) \in [Runs -> CancelPCs]
    BY <1>0 DEF AfterCancelRead, CancelPCs, CancelFails
  <2>2. cancel' \in [Runs -> CancelPCs]
    BY <1>0, <1>9, <2>1 DEF CancelNext, CancelChild, CancelWrite, CancelChildren,
       CancelRelease, CancelRequest, CancelPCs
  <2>3. UNCHANGED <<launch, deciding>> /\ releases' \in SUBSET Groups
    BY <1>0, <1>4, <1>9 DEF CancelNext, CancelChild, CancelWrite, CancelChildren,
       CancelRelease, CancelRequest
  <2> QED  BY <1>0, <2>2, <2>3 DEF HandlerType
<1>10. ASSUME NEW a \in Agents, CommitFinalize(a)
       PROVE  HandlerType'
  <2>1. releases' \in SUBSET Groups
    BY <1>0, <1>4, <1>10, AgentFacts DEF CommitFinalize, AgentAt
  <2> QED  BY <1>0, <1>10, <2>1 DEF CommitFinalize, HandlerType
<1>11. ASSUME RestartNopsai
       PROVE  HandlerType'
  BY <1>11 DEF RestartNopsai, HandlerType, LaunchPCs, CancelPCs
<1>12. ASSUME UNCHANGED handlers
       PROVE  HandlerType'
  BY <1>0, <1>12 DEF handlers, HandlerType
<1>13. ASSUME NEW r \in Runs, ExpireApproval(r) \/ DispatchQueued(r) \/ DeleteRun(r)
       PROVE  HandlerType'
  BY <1>12, <1>13 DEF ExpireApproval, DispatchQueued, DeleteRun
<1>14. ASSUME NEW a \in Agents,
              \/ AgentNext(a)
              \/ \E to \in {"success", "failure"} : BeginFinalize(a, to)
              \/ \E r \in Runs : StartAgent(a, r)
       PROVE  HandlerType'
  BY <1>10, <1>12, <1>14 DEF AgentNext, ReportRunning, BeginPause, CommitPause,
     ReportResult, StopAgent, CrashAgent, LoseRunner, BeginFinalize, StartAgent
<1>15. ASSUME RestartDispatcher \/ UNCHANGED vars
       PROVE  HandlerType'
  BY <1>12, <1>15 DEF RestartDispatcher, vars
<1> QED
  BY <1>5, <1>6, <1>7, <1>8, <1>9, <1>11, <1>13, <1>14, <1>15, NextCases DEF Quiet
-----------------------------------------------------------------------------
(* The dispatcher's jobs and the agents.                                   *)

JobType == job \in [Runs -> {"none", "queued", "assigned"}]
ResumeType == resume \in [Runs -> BOOLEAN]
AgentType ==
  /\ agent \in [Agents -> AgentRecords]
  /\ \A a \in Agents : agent[a].run = NoRun <=> agent[a].pc = "idle"
  /\ \A a \in Agents : agent[a].bound => agent[a].pc # "idle"

\* An idle slot, and a slot that moves on within its run, are typed.
LEMMA SlotFacts ==
  /\ IdleAgent \in AgentRecords /\ IdleAgent.run = NoRun
  /\ IdleAgent.pc = "idle" /\ IdleAgent.bound = FALSE
BY DEF IdleAgent, AgentRecords, AgentPCs

LEMMA AgentMoves ==
  ASSUME AgentType, NEW a \in Agents, agent[a].pc # "idle",
         NEW slot \in AgentRecords,
         \/ slot = IdleAgent
         \/ slot.run = agent[a].run /\ slot.pc # "idle",
         agent' = [agent EXCEPT ![a] = slot]
  PROVE  AgentType'
<1>1. agent' \in [Agents -> AgentRecords]
  BY DEF AgentType
<1>2. ASSUME NEW b \in Agents
      PROVE  /\ agent'[b].run = NoRun <=> agent'[b].pc = "idle"
             /\ agent'[b].bound => agent'[b].pc # "idle"
  <2>1. CASE b = a
    <3>1. agent'[b] = slot
      BY <2>1 DEF AgentType
    <3>2. slot = IdleAgent \/ (slot.run # NoRun /\ slot.pc # "idle")
      BY DEF AgentType
    <3> QED  BY <3>1, <3>2, SlotFacts
  <2>2. CASE b # a
    BY <2>2 DEF AgentType
  <2> QED  BY <2>1, <2>2
<1> QED  BY <1>1, <1>2 DEF AgentType

LEMMA AgentGotoType ==
  ASSUME AgentType, NEW a \in Agents, agent[a].pc # "idle",
         NEW pc \in AgentPCs \ {"idle"}, AgentGoto(a, pc)
  PROVE  AgentType'
<1> DEFINE slot == [agent[a] EXCEPT !.pc = pc]
<1>1. agent[a] \in AgentRecords
  BY DEF AgentType
<1>2. /\ slot \in AgentRecords /\ slot.run = agent[a].run /\ slot.pc # "idle"
  BY <1>1 DEF AgentRecords
<1>3. agent' = [agent EXCEPT ![a] = slot]
  BY DEF AgentGoto
<1> HIDE DEF slot
<1> QED  BY <1>2, <1>3, AgentMoves

LEMMA UnbindType ==
  ASSUME AgentType, NEW a \in Agents, NEW stopped \in BOOLEAN
  PROVE  /\ Unbind(a, stopped) \in AgentRecords
         /\ Unbind(a, stopped).bound = FALSE
         /\ Unbind(a, stopped).run = NoRun <=> Unbind(a, stopped).pc = "idle"
         /\ \/ Unbind(a, stopped) = IdleAgent
            \/ /\ Unbind(a, stopped).run = agent[a].run
               /\ Unbind(a, stopped).pc = agent[a].pc
<1>1. agent[a] \in AgentRecords
  BY DEF AgentType
<1>2. CASE stopped
  BY <1>2, SlotFacts DEF Unbind
<1>3. CASE ~stopped
  <2>1. Unbind(a, stopped) = [agent[a] EXCEPT !.bound = FALSE]
    BY <1>3 DEF Unbind
  <2>2. /\ Unbind(a, stopped) \in AgentRecords
        /\ Unbind(a, stopped).bound = FALSE
        /\ Unbind(a, stopped).run = agent[a].run
        /\ Unbind(a, stopped).pc = agent[a].pc
    BY <1>1, <2>1 DEF AgentRecords
  <2> QED  BY <2>2 DEF AgentType
<1> QED  BY <1>2, <1>3

\* The steps that write the dispatcher's jobs.
LEMMA JobStep ==
  ASSUME TypeOK, [Next]_vars
  PROVE  JobType' /\ ResumeType'
<1>0. JobType /\ ResumeType
  BY DEF TypeOK, ExecutionType, JobType, ResumeType
<1>1. ASSUME NEW r \in Runs, NEW k \in Kinds, PlaceJob(r, k)
      PROVE  JobType' /\ ResumeType'
  BY <1>0, <1>1 DEF PlaceJob, dispatcher, JobType, ResumeType
<1>2. ASSUME UNCHANGED dispatcher
      PROVE  JobType' /\ ResumeType'
  BY <1>0, <1>2 DEF dispatcher, JobType, ResumeType
<1>3. ASSUME NEW r \in Runs, NEW k \in Kinds, LaunchNext(r, k)
      PROVE  JobType' /\ ResumeType'
  BY <1>1, <1>2, <1>3 DEF LaunchNext, LaunchAgent, SubmitJob, LaunchFails,
     LaunchAssigned, LaunchRejected
<1>4. ASSUME NEW r \in Runs,
             \/ CreateRun(r) \/ PreparePipelineRun(r) \/ AbandonLaunch(r)
             \/ RecoverPendingRun(r) \/ ExpireApproval(r) \/ CancelNext(r)
             \/ CancelRequest(r) \/ DeleteRun(r)
      PROVE  JobType' /\ ResumeType'
  BY <1>2, <1>4 DEF CreateRun, PreparePipelineRun, AbandonLaunch,
     RecoverPendingRun, ExpireApproval, CancelNext, CancelChild, CancelWrite,
     CancelChildren, CancelRelease, CancelRequest, DeleteRun
<1>5. ASSUME NEW r \in Runs, DispatchQueued(r)
      PROVE  JobType' /\ ResumeType'
  BY <1>0, <1>5 DEF DispatchQueued, JobType, ResumeType
<1>6. ASSUME NEW a \in Agents, ReportResult(a) \/ LoseRunner(a)
      PROVE  JobType' /\ ResumeType'
  BY <1>0, <1>6 DEF ReportResult, LoseRunner, JobType, ResumeType
<1>7. ASSUME NEW a \in Agents,
             \/ AgentNext(a)
             \/ \E to \in {"success", "failure"} : BeginFinalize(a, to)
             \/ \E r \in Runs : StartAgent(a, r)
      PROVE  JobType' /\ ResumeType'
  BY <1>2, <1>6, <1>7 DEF AgentNext, ReportRunning, CommitFinalize, BeginPause,
     CommitPause, StopAgent, CrashAgent, BeginFinalize, StartAgent
<1>8. ASSUME RestartDispatcher
      PROVE  JobType' /\ ResumeType'
  BY <1>0, <1>8 DEF RestartDispatcher, JobType, ResumeType
<1>9. ASSUME \/ \E r \in Runs, v \in Verdicts :
                  BeginDecision(r, v) \/ CommitDecision(r, v)
             \/ \E group \in Groups : ReleaseGroup(group)
             \/ RestartNopsai \/ UNCHANGED vars
      PROVE  JobType' /\ ResumeType'
  BY <1>2, <1>9 DEF BeginDecision, CommitDecision, ReleaseGroup, RestartNopsai, vars
<1> QED  BY <1>3, <1>4, <1>5, <1>7, <1>8, <1>9, NextCases DEF Quiet

\* What RestartNopsai makes of the place an agent is at.
AfterRestart(pc) ==
  CASE pc = "pausing" -> "refused"
    [] pc = "success" -> "exited"
    [] pc = "failure" -> "crashed"
    [] OTHER -> pc

LEMMA RestartType ==
  ASSUME AgentType, RestartNopsai
  PROVE  /\ AgentType'
         /\ \A a \in Agents : agent'[a].run = agent[a].run
<1> DEFINE slot(a) == [agent[a] EXCEPT !.pc = AfterRestart(@)]
<1>1. agent' = [a \in Agents |-> slot(a)]
  BY DEF RestartNopsai, AfterRestart
<1>2. ASSUME NEW a \in Agents
      PROVE  /\ slot(a) \in AgentRecords /\ slot(a).run = agent[a].run
             /\ slot(a).bound = agent[a].bound
             /\ slot(a).pc = "idle" <=> agent[a].pc = "idle"
  <2>1. agent[a] \in AgentRecords
    BY <1>2 DEF AgentType
  <2>2. /\ AfterRestart(agent[a].pc) \in AgentPCs
        /\ AfterRestart(agent[a].pc) = "idle" <=> agent[a].pc = "idle"
    BY <2>1 DEF AfterRestart, AgentRecords, AgentPCs
  <2>3. slot(a) = [agent[a] EXCEPT !.pc = AfterRestart(agent[a].pc)]
    OBVIOUS
  <2> QED  BY <2>1, <2>2, <2>3 DEF AgentRecords
<1> HIDE DEF slot
<1> QED  BY <1>1, <1>2 DEF AgentType

LEMMA AgentStep ==
  ASSUME TypeOK, [Next]_vars
  PROVE  AgentType'
<1>0. AgentType
  BY DEF TypeOK, ExecutionType, AgentType
<1>1. ASSUME UNCHANGED agent
      PROVE  AgentType'
  BY <1>0, <1>1 DEF AgentType
<1>2. ASSUME NEW r \in Runs, NEW k \in Kinds, LaunchNext(r, k)
      PROVE  AgentType'
  BY <1>1, <1>2 DEF LaunchNext, LaunchAgent, SubmitJob, LaunchFails,
     LaunchAssigned, LaunchRejected
<1>3. ASSUME NEW r \in Runs,
             \/ CreateRun(r) \/ PreparePipelineRun(r) \/ AbandonLaunch(r)
             \/ RecoverPendingRun(r) \/ ExpireApproval(r) \/ DispatchQueued(r)
             \/ CancelNext(r) \/ CancelRequest(r) \/ DeleteRun(r)
      PROVE  AgentType'
  BY <1>1, <1>3 DEF CreateRun, PreparePipelineRun, AbandonLaunch,
     RecoverPendingRun, ExpireApproval, DispatchQueued, CancelNext, CancelChild,
     CancelWrite, CancelChildren, CancelRelease, CancelRequest, DeleteRun
<1>4. ASSUME \/ \E r \in Runs, v \in Verdicts :
                  BeginDecision(r, v) \/ CommitDecision(r, v)
             \/ \E group \in Groups : ReleaseGroup(group)
             \/ UNCHANGED vars
      PROVE  AgentType'
  BY <1>1, <1>4 DEF BeginDecision, CommitDecision, ReleaseGroup, vars
<1>5. ASSUME NEW a \in Agents, NEW r \in Runs, StartAgent(a, r)
      PROVE  AgentType'
  <2> DEFINE slot == [run |-> r, resume |-> resume[r], bound |-> TRUE,
                      pc |-> "working"]
  <2>1. slot \in AgentRecords
    BY DEF TypeOK, ExecutionType, AgentRecords, AgentPCs
  <2>2. agent' = [agent EXCEPT ![a] = slot]
    BY <1>5 DEF StartAgent
  <2>3. slot.run # NoRun /\ slot.pc # "idle"
    BY LifecycleAssumption DEF LifecycleAssumption
  <2> HIDE DEF slot
  <2> QED  BY <1>0, <2>1, <2>2, <2>3 DEF AgentType
<1>6. ASSUME NEW a \in Agents,
             \/ CommitFinalize(a) \/ BeginPause(a) \/ StopAgent(a) \/ CrashAgent(a)
             \/ \E to \in {"success", "failure"} : BeginFinalize(a, to)
      PROVE  AgentType'
  <2>1. agent[a].pc # "idle"
    BY <1>6 DEF CommitFinalize, BeginPause, StopAgent, CrashAgent, BeginFinalize,
       AgentAt
  <2>2. \E pc \in AgentPCs \ {"idle"} : AgentGoto(a, pc)
    BY <1>6 DEF CommitFinalize, BeginPause, StopAgent, CrashAgent, BeginFinalize,
       AgentPCs
  <2> QED  BY <1>0, <2>1, <2>2, AgentGotoType
<1>7. ASSUME NEW a \in Agents, CommitPause(a)
      PROVE  AgentType'
  <2>1. agent[a].pc # "idle"
    BY <1>7 DEF CommitPause, AgentAt
  <2>2. AgentGoto(a, "exited") \/ AgentGoto(a, "refused")
    BY <1>7 DEF CommitPause
  <2> QED  BY <1>0, <2>1, <2>2, AgentGotoType DEF AgentPCs
<1>8. ASSUME NEW a \in Agents, ReportResult(a)
      PROVE  AgentType'
  <2> DEFINE slot == [agent[a] EXCEPT !.bound = FALSE, !.pc = "refused"]
  <2>1. agent[a].pc # "idle" /\ agent[a] \in AgentRecords
    BY <1>0, <1>8 DEF ReportResult, AgentAt, AgentType
  <2>2. slot \in AgentRecords /\ slot.run = agent[a].run /\ slot.pc # "idle"
    BY <2>1 DEF AgentRecords, AgentPCs
  <2>3. \/ agent' = [agent EXCEPT ![a] = slot]
        \/ agent' = [agent EXCEPT ![a] = IdleAgent]
    BY <1>8 DEF ReportResult
  <2> HIDE DEF slot
  <2> QED  BY <1>0, <2>1, <2>2, <2>3, AgentMoves, SlotFacts
<1>9. ASSUME NEW a \in Agents, LoseRunner(a)
      PROVE  AgentType'
  <2>1. PICK stopped \in BOOLEAN : agent' = [agent EXCEPT ![a] = Unbind(a, stopped)]
    BY <1>9 DEF LoseRunner
  <2>2. agent[a].pc # "idle"
    BY <1>0, <1>9 DEF LoseRunner, AgentType
  <2> QED  BY <1>0, <2>1, <2>2, UnbindType, AgentMoves
<1>10. ASSUME RestartDispatcher
       PROVE  AgentType'
  <2>1. PICK S \in SUBSET Agents :
          agent' = [a \in Agents |-> Unbind(a, a \in S)]
    BY <1>10 DEF RestartDispatcher
  <2>2. \A a \in Agents : (a \in S) \in BOOLEAN
    OBVIOUS
  <2>3. \A a \in Agents : /\ agent'[a] \in AgentRecords /\ agent'[a].bound = FALSE
                          /\ agent'[a].run = NoRun <=> agent'[a].pc = "idle"
    BY <1>0, <2>1, <2>2, UnbindType
  <2> QED  BY <2>1, <2>3 DEF AgentType
<1>11. ASSUME NEW a \in Agents, ReportRunning(a)
       PROVE  AgentType'
  BY <1>1, <1>11 DEF ReportRunning
<1> QED
  BY <1>0, <1>2, <1>3, <1>4, <1>5, <1>6, <1>7, <1>8, <1>9, <1>10, <1>11, NextCases,
     RestartType DEF Quiet, AgentNext

LEMMA FaultsStep ==
  ASSUME TypeOK, [Next]_vars
  PROVE  faults' \in 0..MaxFaults
<1>0. faults \in 0..MaxFaults /\ MaxFaults \in Nat
  BY LifecycleAssumption DEF TypeOK, ExecutionType, LifecycleAssumption
<1>1. UNCHANGED faults \/ (faults < MaxFaults /\ faults' = faults + 1)
  <2>1. ASSUME NEW r \in Runs, NEW k \in Kinds, LaunchNext(r, k)
        PROVE  UNCHANGED faults \/ (faults < MaxFaults /\ faults' = faults + 1)
    BY <2>1 DEF LaunchNext, LaunchAgent, SubmitJob, LaunchFails, LaunchAssigned,
       LaunchRejected
  <2>2. ASSUME NEW r \in Runs,
               \/ CreateRun(r) \/ PreparePipelineRun(r) \/ AbandonLaunch(r)
               \/ RecoverPendingRun(r) \/ ExpireApproval(r) \/ DispatchQueued(r)
               \/ CancelNext(r) \/ CancelRequest(r) \/ DeleteRun(r)
        PROVE  UNCHANGED faults \/ (faults < MaxFaults /\ faults' = faults + 1)
    BY <2>2 DEF CreateRun, PreparePipelineRun, AbandonLaunch, RecoverPendingRun,
       ExpireApproval, DispatchQueued, CancelNext, CancelChild, CancelWrite,
       CancelChildren, CancelRelease, CancelRequest, DeleteRun
  <2>3. ASSUME NEW a \in Agents,
               \/ AgentNext(a)
               \/ \E to \in {"success", "failure"} : BeginFinalize(a, to)
               \/ \E r \in Runs : StartAgent(a, r)
        PROVE  UNCHANGED faults \/ (faults < MaxFaults /\ faults' = faults + 1)
    BY <2>3 DEF AgentNext, ReportRunning, CommitFinalize, BeginPause, CommitPause,
       ReportResult, StopAgent, CrashAgent, LoseRunner, BeginFinalize, StartAgent
  <2>4. ASSUME \/ \E r \in Runs, v \in Verdicts :
                    BeginDecision(r, v) \/ CommitDecision(r, v)
               \/ \E group \in Groups : ReleaseGroup(group)
               \/ RestartDispatcher \/ RestartNopsai \/ UNCHANGED vars
        PROVE  UNCHANGED faults \/ (faults < MaxFaults /\ faults' = faults + 1)
    BY <2>4 DEF BeginDecision, CommitDecision, ReleaseGroup, RestartDispatcher,
       RestartNopsai, vars
  <2> QED  BY <2>1, <2>2, <2>3, <2>4, NextCases DEF Quiet
<1> QED  BY <1>0, <1>1
-----------------------------------------------------------------------------
(* Theorems.                                                               *)

\* The rows, the handlers, the dispatcher's jobs and the agents keep their
\* types; rows keep distinct creation times, and an agent in use has a run.
THEOREM LifecycleTypes == Spec => []TypeOK
<1>1. Init => TypeOK
  <2> SUFFICES ASSUME Init PROVE TypeOK
    OBVIOUS
  <2>1. DatabaseType
    BY DEF Init, DatabaseType, Statuses, Gone
  <2>2. HandlerType
    BY DEF Init, HandlerType, LaunchPCs, CancelPCs
  <2>3. ExecutionType
    BY LifecycleAssumption, SlotFacts DEF Init, ExecutionType, LifecycleAssumption
  <2> QED  BY <2>1, <2>2, <2>3 DEF TypeOK
<1>2. TypeOK /\ [Next]_vars => TypeOK'
  <2> SUFFICES ASSUME TypeOK, [Next]_vars PROVE TypeOK'
    OBVIOUS
  <2>1. DatabaseType' /\ HandlerType' /\ JobType' /\ ResumeType' /\ AgentType'
    BY DatabaseStep, HandlerStep, JobStep, AgentStep
  <2>2. faults' \in 0..MaxFaults
    BY FaultsStep
  <2> QED
    BY <2>1, <2>2 DEF TypeOK, ExecutionType, JobType, ResumeType, AgentType
<1> QED  BY <1>1, <1>2, PTL DEF Spec

\* No late launch, resumed approval, task report, retry or restarted agent
\* takes a run out of a terminal status, however many runs, agents and faults
\* there are.
THEOREM EndedStaysEnded == Spec => TerminalAbsorbing
<1> DEFINE Step == \A r \in Runs : status[r] \in Terminal =>
                     status'[r] \in Terminal \cup {"deleted"}
<1>1. TypeOK /\ [Next]_vars => [Step]_vars
  <2> SUFFICES ASSUME TypeOK, [Next]_vars PROVE Step
    OBVIOUS
  <2>1. CASE Quiet
    BY <2>1, StatusStep DEF Evolves, Ended
  <2>2. ASSUME NEW q \in Runs, CreateRun(q)
        PROVE  Step
    BY <2>2 DEF CreateRun, SetStatus, TypeOK, DatabaseType, Terminal
  <2> QED  BY <2>1, <2>2, NextCases
<1> HIDE DEF Step
<1>2. Spec => [][Step]_vars
  BY <1>1, LifecycleTypes, PTL DEF Spec
<1>3. Spec => [][\A r \in Runs : status[r] \in Terminal =>
                     status'[r] \in Terminal \cup {"deleted"}]_vars
  BY <1>2 DEF Step
<1> QED  BY <1>3 DEF TerminalAbsorbing
\* No handler that read a run's status before its cancellation turns it into a
\* success, a rejection or a timeout.
THEOREM CancelledStaysCancelled == Spec => CancelPrevails
<1> DEFINE Step == \A r \in Runs : status[r] = "cancelled" =>
                     status'[r] \in {"cancelled", "failure", "deleted"}
<1>1. TypeOK /\ [Next]_vars => [Step]_vars
  <2> SUFFICES ASSUME TypeOK, [Next]_vars PROVE Step
    OBVIOUS
  <2>1. CASE Quiet
    BY <2>1, StatusStep DEF Evolves
  <2>2. ASSUME NEW q \in Runs, CreateRun(q)
        PROVE  Step
    BY <2>2 DEF CreateRun, SetStatus, TypeOK, DatabaseType
  <2> QED  BY <2>1, <2>2, NextCases
<1> HIDE DEF Step
<1>2. Spec => [][Step]_vars
  BY <1>1, LifecycleTypes, PTL DEF Spec
<1>3. Spec => [][\A r \in Runs : status[r] = "cancelled" =>
                     status'[r] \in {"cancelled", "failure", "deleted"}]_vars
  BY <1>2 DEF Step
<1> QED  BY <1>3 DEF CancelPrevails

-----------------------------------------------------------------------------
(* Approvals.                                                              *)

LEMMA WaitingStep ==
  ASSUME TypeOK, WaitingHasApproval, [Next]_vars
  PROVE  WaitingHasApproval'
<1>0. /\ status \in [Runs -> Statuses]
      /\ approval \in [Runs -> Verdicts \cup {"none", "pending", "timed_out"}]
      /\ \A r \in Runs : status[r] = "waiting_approval" => approval[r] = "pending"
  BY DEF TypeOK, DatabaseType, WaitingHasApproval
<1>1. ASSUME UNCHANGED <<status, approval>>
      PROVE  WaitingHasApproval'
  BY <1>1 DEF WaitingHasApproval
<1>2. ASSUME NEW q \in Runs, NEW t, SetStatus(q, t), UNCHANGED approval,
             t = "waiting_approval" => status[q] = "waiting_approval"
      PROVE  WaitingHasApproval'
  BY <1>0, <1>2 DEF SetStatus, WaitingHasApproval
<1>3. \A s : /\ MarkRunRunning(s) = "waiting_approval" => s = "waiting_approval"
             /\ FailLaunch(s) = "waiting_approval" => s = "waiting_approval"
             /\ MarkRunCancelled(s) = "waiting_approval" => s = "waiting_approval"
             /\ \A to \in {"success", "failure"} :
                  Finalize(s, to) = "waiting_approval" => s = "waiting_approval"
  BY DEF MarkRunRunning, FailLaunch, MarkRunCancelled, Finalize, Gone
<1>4. CASE \E r \in Runs :
             \/ CreateRun(r) \/ PreparePipelineRun(r) \/ AbandonLaunch(r)
             \/ RecoverPendingRun(r) \/ DispatchQueued(r)
             \/ CancelNext(r) \/ CancelRequest(r)
  BY <1>1, <1>2, <1>3, <1>4 DEF CreateRun, PreparePipelineRun, AbandonLaunch,
     RecoverPendingRun, DispatchQueued, CancelNext, CancelChild, CancelWrite,
     CancelChildren, CancelRelease, CancelRequest, database
<1>5. CASE \E r \in Runs : ExpireApproval(r) \/ DeleteRun(r)
  BY <1>0, <1>5 DEF ExpireApproval, DeleteRun, SetStatus, WaitingHasApproval
<1>6. CASE \E r \in Runs, k \in Kinds : LaunchNext(r, k)
  BY <1>1, <1>2, <1>3, <1>6 DEF LaunchNext, LaunchAgent, SubmitJob, LaunchFails,
     LaunchAssigned, LaunchRejected, database
<1>7. ASSUME NEW r \in Runs, NEW v \in Verdicts,
             BeginDecision(r, v) \/ CommitDecision(r, v)
      PROVE  WaitingHasApproval'
  <2>1. Decide(status[r], v) # "waiting_approval"
    BY DEF Decide
  <2>2. CASE UNCHANGED <<status, approval>>
    BY <1>1, <2>2
  <2>3. CASE /\ approval' = [approval EXCEPT ![r] = v]
             /\ SetStatus(r, Decide(status[r], v))
    BY <1>0, <2>1, <2>3 DEF SetStatus, WaitingHasApproval
  <2> QED  BY <1>7, <2>2, <2>3 DEF BeginDecision, CommitDecision, database
<1>8. ASSUME NEW a \in Agents, CommitPause(a)
      PROVE  WaitingHasApproval'
  <2>1. agent[a].run \in Runs
    BY <1>8, AgentFacts DEF CommitPause, AgentAt
  <2>2. CASE UNCHANGED <<status, approval>>
    BY <1>1, <2>2
  <2>3. CASE /\ approval' = [approval EXCEPT ![agent[a].run] = "pending"]
             /\ SetStatus(agent[a].run, Pause(status[agent[a].run]))
    BY <1>0, <2>1, <2>3 DEF SetStatus, WaitingHasApproval
  <2> QED  BY <1>8, <2>2, <2>3 DEF CommitPause
<1>9. CASE \E a \in Agents :
             \/ AgentNext(a)
             \/ \E to \in {"success", "failure"} : BeginFinalize(a, to)
             \/ \E r \in Runs : StartAgent(a, r)
  BY <1>1, <1>2, <1>3, <1>8, <1>9, AgentFacts DEF AgentNext, ReportRunning,
     CommitFinalize, BeginPause, ReportResult, StopAgent, CrashAgent, LoseRunner,
     BeginFinalize, StartAgent, AgentAt, database
<1>10. CASE \/ \E group \in Groups : ReleaseGroup(group)
            \/ RestartDispatcher \/ RestartNopsai \/ UNCHANGED vars
  BY <1>1, <1>10 DEF ReleaseGroup, RestartDispatcher, RestartNopsai, vars, database
<1> QED
  BY <1>4, <1>5, <1>6, <1>7, <1>9, <1>10, NextCases DEF Quiet

\* A run that waits for an approval has one that can still be decided: no
\* decision, timeout, pause or retry leaves it waiting for nothing.
THEOREM WaitingDecidable == Spec => []WaitingHasApproval
<1>1. Init => WaitingHasApproval
  BY DEF Init, WaitingHasApproval
<1>2. TypeOK /\ WaitingHasApproval /\ [Next]_vars => WaitingHasApproval'
  BY WaitingStep
<1> QED  BY <1>1, <1>2, LifecycleTypes, PTL DEF Spec
-----------------------------------------------------------------------------
(* Concurrency groups.  GroupExclusive is not inductive: a launch that has *)
(* passed the check of its group starts its run later on.  The invariant   *)
(* also covers those launches, and says that the right to start, once      *)
(* gained, stays: an older run of the group that was not unfinished has    *)
(* ended, and a new run is younger.                                        *)

\* A launch of the run has passed the check of its group.
Placed(r) == \E k \in Kinds : launch[r][k] \in {"ready", "assigned"}
Holding(r) == Started(r) \/ Placed(r)
Entitled(r) == status[r] # "absent" /\ HoldsGroup(r)
GroupInv == \A r \in Runs : Holding(r) => Entitled(r)

LEMMA EntitledStays ==
  ASSUME TypeOK, Quiet, NEW r \in Runs, Entitled(r)
  PROVE  Entitled(r)'
<1>1. status'[r] # "absent"
  BY StatusStep DEF Entitled, Evolves
<1>2. born' = born
  BY BornStep
<1>3. ASSUME NEW q \in Runs, SameGroup(q, r), Older(q, r)
      PROVE  status'[q] \notin Unfinished
  <2>1. status[q] \in Statuses /\ status[q] # "absent"
    BY <1>3 DEF TypeOK, DatabaseType, Older
  <2>2. status[q] \notin Unfinished
    BY <1>3 DEF Entitled, HoldsGroup
  <2>3. status'[q] \in Ended
    BY <2>1, <2>2, StatusStep DEF Evolves, Ended, Statuses, Gone
  <2> QED  BY <2>3 DEF Ended, Terminal, Unfinished
<1> QED  BY <1>1, <1>2, <1>3 DEF Entitled, HoldsGroup, SameGroup, Older

\* A new run takes no group from another, and nobody holds it yet.
LEMMA EntitledOnCreate ==
  ASSUME TypeOK, NEW c \in Runs, CreateRun(c), NEW r \in Runs, Entitled(r)
  PROVE  Entitled(r)'
<1>1. /\ status[c] = "absent" /\ r # c
      /\ status' = [status EXCEPT ![c] = "pending"]
      /\ born' = [born EXCEPT ![c] = clock + 1]
  BY DEF CreateRun, SetStatus, Entitled
<1>2. /\ status \in [Runs -> Statuses] /\ born \in [Runs -> 0..clock]
      /\ clock \in Nat
  BY DEF TypeOK, DatabaseType
<1>3. ASSUME NEW q \in Runs, SameGroup(q, r), Older(q, r)'
      PROVE  status'[q] \notin Unfinished
  <2>1. q # c
    BY <1>1, <1>2, <1>3 DEF Older
  <2>2. Older(q, r)
    BY <1>1, <1>2, <1>3, <2>1 DEF Older
  <2> QED  BY <1>1, <1>2, <1>3, <2>1, <2>2 DEF Entitled, HoldsGroup
<1>4. status'[r] # "absent"
  BY <1>1, <1>2 DEF Entitled
<1> QED  BY <1>3, <1>4 DEF Entitled, HoldsGroup, SameGroup

\* Who makes a run "running" or "waiting_approval" has it in hand already.
LEMMA LiveSource ==
  ASSUME TypeOK, Quiet, NEW r \in Runs,
         status'[r] \in {"running", "waiting_approval"}
  PROVE  Holding(r)
<1> DEFINE Live == {"running", "waiting_approval"}
<1> USE DEF Holding
<1>0. status \in [Runs -> Statuses]
  BY DEF TypeOK, DatabaseType
<1>1. ASSUME status'[r] = status[r]
      PROVE  Holding(r)
  BY <1>1 DEF Started
<1>2. ASSUME NEW q \in Runs, NEW t, SetStatus(q, t), t \in Live => q # r \/ Holding(r)
      PROVE  Holding(r)
  BY <1>0, <1>1, <1>2 DEF SetStatus
<1>3. /\ FailLaunch(status[r]) \in Live => status[r] \in Live
      /\ MarkRunCancelled(status[r]) \in Live => status[r] \in Live
      /\ \A to \in {"success", "failure"} :
           Finalize(status[r], to) \in Live => status[r] \in Live
      /\ \A v \in Verdicts :
           Decide(status[r], v) \in Live => status[r] \in Live
  BY DEF FailLaunch, MarkRunCancelled, Finalize, Decide, Gone
<1>4. status[r] \in Live => Holding(r)
  BY DEF Started
<1>5. CASE \E q \in Runs : \/ PreparePipelineRun(q) \/ AbandonLaunch(q)
                           \/ RecoverPendingRun(q) \/ DispatchQueued(q)
                           \/ ExpireApproval(q) \/ DeleteRun(q)
  BY <1>1, <1>2, <1>3, <1>4, <1>5 DEF PreparePipelineRun, AbandonLaunch,
     RecoverPendingRun, DispatchQueued, ExpireApproval, DeleteRun, database
<1>6. CASE \E q \in Runs : CancelNext(q) \/ CancelRequest(q)
  BY <1>1, <1>2, <1>3, <1>4, <1>6 DEF CancelNext, CancelChild, CancelWrite,
     CancelChildren, CancelRelease, CancelRequest, database
<1>7. ASSUME NEW q \in Runs, NEW k \in Kinds, LaunchNext(q, k)
      PROVE  Holding(r)
  <2>1. CASE LaunchAssigned(q, k)
    <3>1. Placed(q)
      BY <2>1 DEF LaunchAssigned, At, Placed
    <3> QED  BY <1>2, <2>1, <3>1 DEF LaunchAssigned
  <2>2. CASE LaunchFails(q, k) \/ LaunchRejected(q, k)
    BY <1>1, <1>2, <1>3, <1>4, <2>2 DEF LaunchFails, LaunchRejected
  <2>3. CASE LaunchAgent(q, k) \/ SubmitJob(q, k)
    BY <1>1, <2>3 DEF LaunchAgent, SubmitJob, database
  <2> QED  BY <1>7, <2>1, <2>2, <2>3 DEF LaunchNext
<1>8. CASE \E q \in Runs, v \in Verdicts : BeginDecision(q, v) \/ CommitDecision(q, v)
  BY <1>1, <1>2, <1>3, <1>4, <1>8 DEF BeginDecision, CommitDecision, database
<1>9. ASSUME NEW a \in Agents, AgentNext(a)
      PROVE  Holding(r)
  <2>1. agent[a].run = r => Holding(r)
    BY DEF Started
  <2>2. CASE ReportRunning(a)
    BY <1>2, <2>1, <2>2, AgentFacts DEF ReportRunning, AgentAt
  <2>3. CASE CommitFinalize(a)
    BY <1>2, <2>1, <2>3, AgentFacts DEF CommitFinalize, AgentAt
  <2>4. CASE CommitPause(a)
    BY <1>1, <1>2, <2>1, <2>4, AgentFacts DEF CommitPause, AgentAt
  <2>5. CASE BeginPause(a) \/ ReportResult(a) \/ StopAgent(a) \/ CrashAgent(a)
             \/ LoseRunner(a)
    BY <1>1, <2>5 DEF BeginPause, ReportResult, StopAgent, CrashAgent, LoseRunner,
       database
  <2> QED  BY <1>9, <2>2, <2>3, <2>4, <2>5 DEF AgentNext
<1>10. CASE \/ \E group \in Groups : ReleaseGroup(group)
            \/ \E a \in Agents, q \in Runs : StartAgent(a, q)
            \/ \E a \in Agents, to \in {"success", "failure"} : BeginFinalize(a, to)
            \/ RestartDispatcher \/ RestartNopsai \/ UNCHANGED vars
  BY <1>1, <1>10 DEF ReleaseGroup, StartAgent, BeginFinalize, RestartDispatcher,
     RestartNopsai, vars, database
<1> QED  BY <1>5, <1>6, <1>7, <1>8, <1>9, <1>10 DEF Quiet

\* A job comes from a launch that passed the check, or from a lost agent.
LEMMA JobSource ==
  ASSUME TypeOK, Quiet, NEW r \in Runs, job'[r] # "none"
  PROVE  Holding(r)
<1> USE DEF Holding
<1>0. job \in [Runs -> {"none", "queued", "assigned"}]
  BY DEF TypeOK, ExecutionType
<1>1. job[r] # "none" => Holding(r)
  BY DEF Started
<1>2. ASSUME NEW q \in Runs, NEW k \in Kinds, LaunchNext(q, k)
      PROVE  Holding(r)
  <2>1. UNCHANGED job \/ (At(q, k, "ready") /\ PlaceJob(q, k))
    BY <1>2 DEF LaunchNext, LaunchAgent, SubmitJob, LaunchFails, LaunchAssigned,
       LaunchRejected, dispatcher
  <2>2. CASE UNCHANGED job
    BY <1>1, <2>2
  <2>3. CASE At(q, k, "ready") /\ PlaceJob(q, k)
    <3>1. Placed(q)
      BY <2>3 DEF At, Placed
    <3>2. q # r => job'[r] = job[r]
      BY <1>0, <2>3 DEF PlaceJob, dispatcher
    <3> QED  BY <1>1, <3>1, <3>2
  <2> QED  BY <2>1, <2>2, <2>3
<1>3. CASE \E q \in Runs : \/ PreparePipelineRun(q) \/ AbandonLaunch(q)
                           \/ RecoverPendingRun(q) \/ ExpireApproval(q)
                           \/ DeleteRun(q) \/ CancelNext(q) \/ CancelRequest(q)
  BY <1>1, <1>3 DEF PreparePipelineRun, AbandonLaunch, RecoverPendingRun,
     ExpireApproval, DeleteRun, CancelNext, CancelChild, CancelWrite,
     CancelChildren, CancelRelease, CancelRequest, dispatcher
<1>4. CASE \E q \in Runs : DispatchQueued(q)
  BY <1>0, <1>1, <1>4 DEF DispatchQueued
<1>5. ASSUME NEW a \in Agents, AgentNext(a)
      PROVE  Holding(r)
  <2>1. CASE LoseRunner(a)
    <3>1. agent[a].run = r => Holding(r)
      BY DEF Started
    <3> QED  BY <1>0, <1>1, <2>1, <3>1 DEF LoseRunner
  <2>2. CASE ReportResult(a)
    BY <1>0, <1>1, <2>2 DEF ReportResult
  <2>3. CASE \/ ReportRunning(a) \/ CommitFinalize(a) \/ BeginPause(a)
             \/ CommitPause(a) \/ StopAgent(a) \/ CrashAgent(a)
    BY <1>1, <2>3 DEF ReportRunning, CommitFinalize, BeginPause, CommitPause,
       StopAgent, CrashAgent, dispatcher
  <2> QED  BY <1>5, <2>1, <2>2, <2>3 DEF AgentNext
<1>6. CASE RestartDispatcher
  BY <1>6 DEF RestartDispatcher
<1>7. CASE \/ \E q \in Runs, v \in Verdicts : BeginDecision(q, v) \/ CommitDecision(q, v)
           \/ \E group \in Groups : ReleaseGroup(group)
           \/ \E a \in Agents, q \in Runs : StartAgent(a, q)
           \/ \E a \in Agents, to \in {"success", "failure"} : BeginFinalize(a, to)
           \/ RestartNopsai \/ UNCHANGED vars
  BY <1>1, <1>7 DEF BeginDecision, CommitDecision, ReleaseGroup, StartAgent,
     BeginFinalize, RestartNopsai, vars, dispatcher
<1> QED  BY <1>2, <1>3, <1>4, <1>5, <1>6, <1>7 DEF Quiet

\* An agent gets a run from a job.
LEMMA AgentSource ==
  ASSUME TypeOK, Quiet, NEW r \in Runs, NEW a \in Agents, agent'[a].run = r
  PROVE  Holding(r)
<1> USE DEF Holding
<1>0. AgentType
  BY DEF TypeOK, ExecutionType, AgentType
<1>1. ASSUME agent'[a].run = agent[a].run
      PROVE  Holding(r)
  BY <1>1 DEF Started
<1>2. ASSUME agent'[a] = IdleAgent
      PROVE  Holding(r)
  BY <1>2, SlotFacts, LifecycleAssumption DEF LifecycleAssumption
<1>3. CASE UNCHANGED agent
  BY <1>1, <1>3
<1>4. CASE \E q \in Runs, k \in Kinds : LaunchNext(q, k)
  BY <1>3, <1>4 DEF LaunchNext, LaunchAgent, SubmitJob, LaunchFails,
     LaunchAssigned, LaunchRejected
<1>5. CASE \E q \in Runs :
             \/ PreparePipelineRun(q) \/ AbandonLaunch(q) \/ RecoverPendingRun(q)
             \/ ExpireApproval(q) \/ DispatchQueued(q) \/ CancelNext(q)
             \/ CancelRequest(q) \/ DeleteRun(q)
  BY <1>3, <1>5 DEF PreparePipelineRun, AbandonLaunch, RecoverPendingRun,
     ExpireApproval, DispatchQueued, CancelNext, CancelChild, CancelWrite,
     CancelChildren, CancelRelease, CancelRequest, DeleteRun
<1>6. CASE \/ \E q \in Runs, v \in Verdicts :
                  BeginDecision(q, v) \/ CommitDecision(q, v)
           \/ \E group \in Groups : ReleaseGroup(group)
           \/ UNCHANGED vars
  BY <1>3, <1>6 DEF BeginDecision, CommitDecision, ReleaseGroup, vars
<1>7. ASSUME NEW b \in Agents, NEW q \in Runs, StartAgent(b, q)
      PROVE  Holding(r)
  <2>1. CASE b = a
    <3>1. agent'[a].run = q
      BY <1>0, <1>7, <2>1 DEF StartAgent, AgentType
    <3> QED  BY <1>7, <3>1 DEF StartAgent, Started
  <2>2. CASE b # a
    BY <1>0, <1>1, <1>7, <2>2 DEF StartAgent, AgentType
  <2> QED  BY <2>1, <2>2
<1>8. ASSUME NEW b \in Agents, NEW pc, AgentGoto(b, pc)
      PROVE  Holding(r)
  <2>1. agent[a] \in AgentRecords
    BY <1>0 DEF AgentType
  <2>2. agent'[a].run = agent[a].run
    BY <1>0, <1>8, <2>1 DEF AgentGoto, AgentType, AgentRecords
  <2> QED  BY <1>1, <2>2
<1>9. ASSUME NEW b \in Agents,
             \/ AgentNext(b)
             \/ \E to \in {"success", "failure"} : BeginFinalize(b, to)
      PROVE  Holding(r)
  <2>1. CASE \/ CommitFinalize(b) \/ BeginPause(b) \/ StopAgent(b) \/ CrashAgent(b)
             \/ \E to \in {"success", "failure"} : BeginFinalize(b, to)
    BY <1>8, <2>1 DEF CommitFinalize, BeginPause, StopAgent, CrashAgent,
       BeginFinalize
  <2>2. CASE CommitPause(b)
    BY <1>8, <2>2 DEF CommitPause
  <2>3. CASE ReportRunning(b)
    BY <1>3, <2>3 DEF ReportRunning
  <2>4. CASE ReportResult(b)
    <3> DEFINE slot == [agent[b] EXCEPT !.bound = FALSE, !.pc = "refused"]
    <3>1. agent[b] \in AgentRecords
      BY <1>0 DEF AgentType
    <3>2. slot.run = agent[b].run
      BY <3>1 DEF AgentRecords
    <3>3. \/ agent' = [agent EXCEPT ![b] = slot]
          \/ agent' = [agent EXCEPT ![b] = IdleAgent]
      BY <2>4 DEF ReportResult
    <3> HIDE DEF slot
    <3> QED  BY <1>0, <1>1, <1>2, <3>2, <3>3 DEF AgentType
  <2>5. CASE LoseRunner(b)
    <3>1. PICK stopped \in BOOLEAN :
            agent' = [agent EXCEPT ![b] = Unbind(b, stopped)]
      BY <2>5 DEF LoseRunner
    <3> QED  BY <1>0, <1>1, <1>2, <3>1, UnbindType DEF AgentType
  <2> QED  BY <1>9, <2>1, <2>2, <2>3, <2>4, <2>5 DEF AgentNext
<1>10. CASE RestartDispatcher
  <2>1. PICK S \in SUBSET Agents :
          agent' = [b \in Agents |-> Unbind(b, b \in S)]
    BY <1>10 DEF RestartDispatcher
  <2> DEFINE stopped == a \in S
  <2>2. agent'[a] = Unbind(a, stopped) /\ stopped \in BOOLEAN
    BY <2>1
  <2> HIDE DEF stopped
  <2>3. agent'[a] = IdleAgent \/ agent'[a].run = agent[a].run
    BY <1>0, <2>2, UnbindType
  <2> QED  BY <1>1, <1>2, <2>3
<1>11. CASE RestartNopsai
  BY <1>0, <1>1, <1>11, RestartType
<1> QED
  BY <1>4, <1>5, <1>6, <1>7, <1>9, <1>10, <1>11 DEF Quiet

\* A launch gets past the check of its group only when the run holds it.
LEMMA PlacedSource ==
  ASSUME TypeOK, ~GroupReadFails, Quiet, NEW r \in Runs, Placed(r)'
  PROVE  Holding(r) \/ Entitled(r)
<1>0. launch \in [Runs -> [Kinds -> LaunchPCs]]
  BY DEF TypeOK, HandlerType
<1>1. ASSUME UNCHANGED launch
      PROVE  Holding(r)
  BY <1>1 DEF Placed, Holding
<1>2. ASSUME NEW q \in Runs, NEW k \in Kinds, NEW pc, Goto(q, k, pc),
             pc \notin {"ready", "assigned"} \/ Placed(q)
      PROVE  Holding(r)
  <2>1. CASE q # r
    BY <1>0, <1>2, <2>1 DEF Goto, Placed, Holding
  <2>2. CASE q = r
    <3>1. PICK j \in Kinds : launch'[r][j] \in {"ready", "assigned"}
      BY DEF Placed
    <3>2. CASE j = k
      BY <1>0, <1>2, <2>2, <3>1, <3>2 DEF Goto, Placed, Holding
    <3>3. CASE j # k
      BY <1>0, <1>2, <2>2, <3>1, <3>3 DEF Goto, Placed, Holding
    <3> QED  BY <3>2, <3>3
  <2> QED  BY <2>1, <2>2
<1>3. "first" \in Kinds /\ "resume" \in Kinds /\ "retry" \in Kinds
      /\ "release" \in Kinds
  BY DEF Kinds
<1>4. ASSUME NEW q \in Runs, NEW k \in Kinds, LaunchNext(q, k)
      PROVE  Holding(r) \/ Entitled(r)
  <2>1. CASE LaunchAgent(q, k)
    <3>1. CASE Goto(q, k, "none")
      BY <1>2, <3>1
    <3>2. CASE ~Goto(q, k, "none")
      <4>1. /\ status[q] \in {"pending", "running"} /\ HoldsGroup(q)
            /\ Goto(q, k, "ready")
        BY <2>1, <3>2 DEF LaunchAgent
      <4>2. CASE q = r
        BY <4>1, <4>2 DEF Entitled
      <4>3. CASE q # r
        BY <1>0, <4>1, <4>3 DEF Goto, Placed, Holding
      <4> QED  BY <4>2, <4>3
    <3> QED  BY <3>1, <3>2
  <2>2. CASE SubmitJob(q, k)
    <3>1. Placed(q)
      BY <2>2 DEF SubmitJob, At, Placed
    <3>2. \E pc : Goto(q, k, pc)
      BY <2>2 DEF SubmitJob
    <3> QED  BY <1>2, <3>1, <3>2
  <2>3. CASE LaunchFails(q, k) \/ LaunchAssigned(q, k) \/ LaunchRejected(q, k)
    BY <1>2, <2>3 DEF LaunchFails, LaunchAssigned, LaunchRejected
  <2> QED  BY <1>4, <2>1, <2>2, <2>3 DEF LaunchNext
<1>5. CASE \E q \in Runs :
             PreparePipelineRun(q) \/ AbandonLaunch(q) \/ RecoverPendingRun(q)
  BY <1>2, <1>3, <1>5 DEF PreparePipelineRun, AbandonLaunch, RecoverPendingRun
<1>6. CASE \/ \E q \in Runs, v \in Verdicts :
                  BeginDecision(q, v) \/ CommitDecision(q, v)
           \/ \E group \in Groups : ReleaseGroup(group)
  BY <1>1, <1>2, <1>3, <1>6 DEF BeginDecision, CommitDecision, ReleaseGroup,
     OldestPending
<1>7. CASE \E q \in Runs : \/ ExpireApproval(q) \/ DispatchQueued(q)
                           \/ CancelNext(q) \/ CancelRequest(q) \/ DeleteRun(q)
  BY <1>1, <1>7 DEF ExpireApproval, DispatchQueued, CancelNext, CancelChild,
     CancelWrite, CancelChildren, CancelRelease, CancelRequest, DeleteRun, handlers
<1>8. CASE \E a \in Agents :
             \/ AgentNext(a)
             \/ \E to \in {"success", "failure"} : BeginFinalize(a, to)
             \/ \E q \in Runs : StartAgent(a, q)
  BY <1>1, <1>8 DEF AgentNext, ReportRunning, CommitFinalize, BeginPause,
     CommitPause, ReportResult, StopAgent, CrashAgent, LoseRunner, BeginFinalize,
     StartAgent, handlers
<1>9. CASE RestartNopsai
  BY <1>9 DEF RestartNopsai, Placed
<1>10. CASE RestartDispatcher \/ UNCHANGED vars
  BY <1>1, <1>10 DEF RestartDispatcher, vars, handlers
<1> QED  BY <1>4, <1>5, <1>6, <1>7, <1>8, <1>9, <1>10 DEF Quiet

\* The steps that create no row give a run to the dispatcher or an agent only
\* through a launch, a job or an agent that has it.
LEMMA HoldingSource ==
  ASSUME TypeOK, ~GroupReadFails, Quiet, NEW r \in Runs, Holding(r)'
  PROVE  Holding(r) \/ Entitled(r)
<1>1. \/ status'[r] \in {"running", "waiting_approval"} \/ job'[r] # "none"
      \/ \E a \in Agents : agent'[a].run = r
      \/ Placed(r)'
  BY DEF Holding, Started
<1> QED  BY <1>1, LiveSource, JobSource, AgentSource, PlacedSource

\* A run that is just created is nowhere but in its first launch.
LEMMA HoldingOnCreate ==
  ASSUME TypeOK, GroupInv, NEW c \in Runs, CreateRun(c), NEW r \in Runs, Holding(r)'
  PROVE  Holding(r)
<1>0. /\ status \in [Runs -> Statuses] /\ launch \in [Runs -> [Kinds -> LaunchPCs]]
  BY DEF TypeOK, DatabaseType, HandlerType
<1>1. /\ job' = job /\ agent' = agent
      /\ status' = [status EXCEPT ![c] = "pending"]
      /\ launch' = [launch EXCEPT ![c]["first"] = "prepare"]
  BY DEF CreateRun, SetStatus, Goto, dispatcher
<1>2. CASE Started(r)'
  <2>1. status'[r] \in {"running", "waiting_approval"} =>
          status[r] \in {"running", "waiting_approval"}
    BY <1>0, <1>1
  <2> QED  BY <1>1, <1>2, <2>1 DEF Started, Holding
<1>3. CASE Placed(r)'
  <2>1. PICK k \in Kinds : launch'[r][k] \in {"ready", "assigned"}
    BY <1>3 DEF Placed
  <2>2. launch[r][k] = launch'[r][k]
    BY <1>0, <1>1, <2>1 DEF Kinds
  <2> QED  BY <2>1, <2>2 DEF Placed, Holding
<1> QED  BY <1>2, <1>3 DEF Holding

\* Whoever has a run to start it, or has started it, holds its group.
LEMMA GroupInvariant == ~GroupReadFails => (Spec => []GroupInv)
<1> SUFFICES ASSUME ~GroupReadFails PROVE Spec => []GroupInv
  OBVIOUS
<1>1. Init => GroupInv
  BY SlotFacts, LifecycleAssumption DEF Init, GroupInv, Holding, Started, Placed,
     LifecycleAssumption
<1>2. TypeOK /\ GroupInv /\ [Next]_vars => GroupInv'
  <2> SUFFICES ASSUME TypeOK, GroupInv, [Next]_vars, NEW r \in Runs, Holding(r)'
               PROVE  Entitled(r)'
    BY DEF GroupInv
  <2>1. CASE Quiet
    BY <2>1, HoldingSource, EntitledStays DEF GroupInv
  <2>2. ASSUME NEW c \in Runs, CreateRun(c)
        PROVE  Entitled(r)'
    BY <2>2, HoldingOnCreate, EntitledOnCreate DEF GroupInv
  <2> QED  BY <2>1, <2>2, NextCases
<1> QED  BY <1>1, <1>2, LifecycleTypes, PTL DEF Spec

\* The runs of a concurrency group start one at a time and oldest first, for
\* every number of runs, groups, agents and faults, as long as no read of a
\* run's group fails.
THEOREM GroupSerial == ~GroupReadFails => (Spec => []GroupExclusive)
<1> SUFFICES ASSUME ~GroupReadFails PROVE Spec => []GroupExclusive
  OBVIOUS
<1>1. GroupInv => GroupExclusive
  BY DEF GroupInv, Holding, Entitled, HoldsGroup, GroupExclusive
<1> QED  BY <1>1, GroupInvariant, PTL
=============================================================================
