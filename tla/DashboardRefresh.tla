-------------------------- MODULE DashboardRefresh --------------------------
(***************************************************************************)
(* Refreshing a dashboard: one refresh runs the pipelines behind the       *)
(* dashboard's sources and follows each source with a progress row, until  *)
(* the rows say how the refresh ended.                                     *)
(*                                                                         *)
(* Nothing owns a refresh.  The handler that starts it launches the runs   *)
(* and links them to the rows, the generator of a finished run's outputs   *)
(* publishes them and marks the rows, every reader of the refresh          *)
(* reconciles it, and a cancellation ends it; each of them writes rows     *)
(* with separate statements and then rolls them up into the refresh, from  *)
(* what it read a moment ago.  The database only sees to it that one       *)
(* refresh of the dashboard is running and that a key is used once.        *)
(*                                                                         *)
(* One dashboard is modelled.  How a pipeline run ends and what an LLM     *)
(* answers are choices.                                                    *)
(***************************************************************************)
EXTENDS Naturals, FiniteSets

CONSTANTS
    Sources,        \* source bindings
    Groups,         \* pairs of a pipeline and a run scope
    GroupOf,        \* of a source
    Required,       \* sources required for the refresh
    Unlaunchable,   \* sources whose pipeline is missing or forbidden
    Requests,       \* start requests
    Keys, KeyOf,    \* the idempotency key of a request
    NoKey,
    Readers,        \* who list or show refreshes; a request may go on to do so
    Cancels,        \* who cancel a refresh or one of its outputs
    MaxConcurrency, \* of the launches of a refresh
    Overlapping,    \* bound: sources whose retries may overlap the work of the
                    \* run's generator; the code holds none back
    MaxUpsets       \* bound: restarts, retried outputs and failed calls

\* A refresh is named by the request that created it; a run by its refresh
\* and group, and so is the goroutine that generates the run's outputs.  An
\* output that is retried has a goroutine of its own.
Refreshes == Requests
Runs == Refreshes \X Groups
Retries == Refreshes \X Sources \X (1..MaxUpsets)
Generators == Runs \cup Retries
Procs == Requests \cup Readers \cup Cancels \cup Generators

ASSUME RefreshAssumption ==
    /\ IsFiniteSet(Sources) /\ IsFiniteSet(Requests)
    /\ GroupOf \in [Sources -> Groups]
    /\ Required \subseteq Sources /\ Unlaunchable \subseteq Sources
    /\ KeyOf \in [Requests -> Keys \cup {NoKey}] /\ NoKey \notin Keys
    /\ Overlapping \subseteq Sources
    /\ MaxConcurrency \in Nat \ {0} /\ MaxUpsets \in Nat
    /\ (Requests \cup Readers) \cap Cancels = {}
    /\ (Requests \cup Readers \cup Cancels) \cap Generators = {}

SourcesOf(g) == {s \in Sources : GroupOf[s] = g}
Live == {"queued", "running"}
Bad == {"failed", "timed_out", "cancelled"}
TerminalRow == Bad \cup {"success", "skipped"}
RowStatus == Live \cup TerminalRow \cup {"none"}
RefreshStatus == {"running", "complete", "partial", "failed", "cancelled"}

VARIABLES
    \* the database
    refresh,    \* dashboard_refreshes: its status
    row,        \* dashboard_refresh_pipeline_runs: status, "none" without a row
    linked,     \* sources whose row names the run
    run,        \* pipeline_runs: "none", "active", "success", "failure", "cancelled"
    output,     \* pipeline_run_outputs: "none" without an item
    published,  \* sources whose output the refresh's run has published
    overdue,    \* refreshes whose timeout_at has passed
    \* the process: one entry for every handler and goroutine
    pc,
    about,      \* the refresh it works on
    source,     \* the source whose output it works on
    todo,       \* sources, or groups, it still has to go through
    owed,       \* by a launch to a row: "wait", "link", "fail" or "none"
    update,     \* rows a request has planned or a reconciliation decided on
    verdict,    \* what a rollup will write
    after,      \* where a rollup returns to
    \* history
    passed,     \* sources whose output went by unpublished, and without an error
    early,      \* runs whose rows were linked and live when a cancellation began,
                \* without those that a failure has kept from being cancelled
    upsets

database == <<refresh, row, linked, run, output, published, overdue>>
locals == <<about, source, todo, owed, update, verdict, after>>
history == <<passed, early, upsets>>
vars == <<database, pc, locals, history>>

NoRows == [s \in Sources |-> "none"]
Some(rows, S) == \E s \in Sources : rows[s] \in S

\* updateDashboardRefreshRollup: the status its rows give a refresh, of which
\* one query says whether a row is live, else what a failed required source
\* makes of the refresh, and a second one how the required sources ended.
RollupStatus(rows) ==
    IF Some(rows, Live) THEN "running" ELSE IF Some(rows, {"success"}) THEN "partial" ELSE "failed"

RollupRequired(status, rows) ==
    IF status = "running" \/ \E s \in Required : rows[s] \in Bad THEN status
    ELSE IF \E s \in Required : rows[s] \notin {"none", "success"} THEN "partial"
    ELSE "complete"

Existing == {f \in Refreshes : refresh[f] # "none"}
RunningRefreshes == {f \in Refreshes : refresh[f] = "running"}

\* Where a handler or goroutine ends.
End(p) == IF p \in Generators THEN "off" ELSE "done"

Init ==
    /\ refresh = [f \in Refreshes |-> "none"]
    /\ row = [f \in Refreshes |-> NoRows]
    /\ linked = [f \in Refreshes |-> {}]
    /\ run = [p \in Runs |-> "none"]
    /\ output = [f \in Refreshes |-> NoRows]
    /\ published = [f \in Refreshes |-> {}]
    /\ overdue = {}
    /\ pc = [p \in Procs |-> IF p \in Requests \cup Cancels THEN "idle" ELSE End(p)]
    /\ about = [p \in Procs |-> IF p \in Generators THEN p[1] ELSE "none"]
    /\ source = [p \in Procs |-> "none"]
    /\ todo = [p \in Procs |-> {}]
    /\ owed = [f \in Refreshes |-> NoRows]
    /\ update = [p \in Procs |-> NoRows]
    /\ verdict = [p \in Procs |-> "none"]
    /\ after = [p \in Procs |-> "none"]
    /\ passed = [f \in Refreshes |-> {}] /\ early = {} /\ upsets = 0

Goto(p, label) == pc' = [pc EXCEPT ![p] = label]
Upset == upsets < MaxUpsets /\ upsets' = upsets + 1

-----------------------------------------------------------------------------
(* Starting a refresh.                                                     *)

\* planDashboardRefreshSources: what cannot be launched is skipped (in strict
\* mode, a required source among it refuses the start).
Planned(S, queued) ==
    [s \in Sources |-> IF s \notin S THEN "none"
                      ELSE IF s \in queued THEN "queued" ELSE "skipped"]

\* The sources of the dashboard, of sections, or named ones, as a retry does
\* with those of an earlier refresh that did not succeed; some may be disabled.
Start(h) ==
    /\ pc[h] = "idle"
    /\ \E S \in SUBSET Sources \ {{}} : \E queued \in SUBSET (S \ Unlaunchable) :
         update' = [update EXCEPT ![h] = Planned(S, queued)]
    /\ Goto(h, "check")
    /\ UNCHANGED <<database, about, source, todo, owed, verdict, after, history>>

KeyUsed(k) == k # NoKey /\ \E f \in Existing : KeyOf[f] = k

\* The database's two unique indexes: one refresh runs, a key is used once.
MayInsert(h) == RunningRefreshes = {} /\ ~KeyUsed(KeyOf[h])

\* findDashboardRefreshByIdempotency and the query for a running refresh: the
\* refresh that has the key is the answer, and another one that runs a refusal.
CheckFirst(h) ==
    /\ pc[h] = "check"
    /\ Goto(h, IF MayInsert(h) THEN "insert" ELSE "done")
    /\ UNCHANGED <<database, locals, history>>

\* createDashboardRefreshRecord: the refresh and its rows, in one transaction
\* that fails on an index.
InsertRefresh(h) ==
    /\ pc[h] = "insert"
    /\ update' = [update EXCEPT ![h] = NoRows]
    /\ IF MayInsert(h)
         THEN /\ refresh' = [refresh EXCEPT ![h] = "running"]
              /\ row' = [row EXCEPT ![h] = update[h]]
              /\ owed' = [owed EXCEPT ![h] = [s \in Sources |->
                            IF update[h][s] = "queued" THEN "wait" ELSE "none"]]
              /\ about' = [about EXCEPT ![h] = h]
              /\ after' = [after EXCEPT ![h] = "launch"]
              /\ Goto(h, IF Some(update[h], {"queued"}) THEN "launch" ELSE "tally")
         ELSE Goto(h, "done") /\ UNCHANGED <<refresh, row, owed, about, after>>
    /\ UNCHANGED <<linked, run, output, published, overdue, source, todo,
                   verdict, history>>

Launching(f) == {g \in Groups : \E s \in SourcesOf(g) : owed[f][s] \in {"link", "fail"}}

\* launchDashboardRefreshSource: one run for a group, by a goroutine under
\* the semaphore.
Launch(h, g) ==
    /\ pc[h] = "launch" /\ Cardinality(Launching(h)) < MaxConcurrency
    /\ \E s \in SourcesOf(g) : owed[h][s] = "wait"
    /\ \E created \in BOOLEAN :
         /\ run' = IF created THEN [run EXCEPT ![<<h, g>>] = "active"] ELSE run
         /\ owed' = [owed EXCEPT ![h] = [s \in Sources |->
                       IF s \in SourcesOf(g) /\ @[s] = "wait"
                         THEN IF created THEN "link" ELSE "fail" ELSE @[s]]]
    /\ UNCHANGED <<refresh, row, linked, output, published, overdue, pc, about,
                   source, todo, update, verdict, after, history>>

\* linkDashboardRefreshLaunchGroupRun, markDashboardRefreshLaunchGroupFailed:
\* row by row, whatever the row has become.
SaveLaunch(h, s) ==
    /\ pc[h] = "launch" /\ owed[h][s] \in {"link", "fail"}
    /\ owed' = [owed EXCEPT ![h][s] = "none"]
    /\ IF owed[h][s] = "link"
         THEN linked' = [linked EXCEPT ![h] = @ \cup {s}] /\ UNCHANGED row
         ELSE row' = [row EXCEPT ![h][s] = "failed"] /\ UNCHANGED linked
    /\ UNCHANGED <<refresh, run, output, published, overdue, pc, about, source,
                   todo, update, verdict, after, history>>

\* The goroutines are waited for, and the handler reconciles.
AllLaunched(h) ==
    /\ pc[h] = "launch" /\ owed[h] = NoRows
    /\ Goto(h, "read")
    /\ UNCHANGED <<database, locals, history>>

-----------------------------------------------------------------------------
(* Reconciling: reconcileDashboardRefresh.                                 *)

\* An ended refresh is left alone.
ReadRefresh(p, f) ==
    /\ IF refresh[f] # "running"
         THEN Goto(p, End(p)) /\ UNCHANGED about
         ELSE /\ Goto(p, IF f \in overdue THEN "timeout" ELSE "rows")
              /\ about' = [about EXCEPT ![p] = f]
    /\ UNCHANGED <<database, source, todo, owed, update, verdict, after, history>>

Reconcile(p) ==
    \/ p \in Requests /\ pc[p] = "read" /\ ReadRefresh(p, p)
    \/ p \in Readers /\ pc[p] = "done" /\ \E f \in RunningRefreshes : ReadRefresh(p, f)

\* Mutant: rows whose run has no output yet are left queued.
TimeOutRowsRunning(p) ==
    /\ pc[p] = "timeout"
    /\ row' = [row EXCEPT ![about[p]] =
                 [s \in Sources |-> IF @[s] = "running" THEN "timed_out" ELSE @[s]]]
    /\ Goto(p, "rows")
    /\ UNCHANGED <<refresh, linked, run, output, published, overdue, locals,
                   history>>

\* Rows that have not ended by the refresh's timeout_at time out.
TimeOutRows(p) ==
    /\ pc[p] = "timeout"
    /\ row' = [row EXCEPT ![about[p]] =
                 [s \in Sources |-> IF @[s] \in Live THEN "timed_out" ELSE @[s]]]
    /\ Goto(p, "rows")
    /\ UNCHANGED <<refresh, linked, run, output, published, overdue, locals,
                   history>>

\* Mutant: a run that went well makes its sources successful.
StatusFromRunAlone(f, s) ==
    LET ended == run[<<f, GroupOf[s]>>]
    IN  CASE ended = "success" -> {"success"}
          [] ended \in {"failure", "cancelled"} -> {"failed"}
          [] OTHER -> {"none"}

\* dashboardRefreshRunStatusFromPipelineOutputStatus: the output item decides,
\* then the run's end; a run that went well without an item fails its source
\* half a minute later.
StatusFromRun(f, s) ==
    LET ended == run[<<f, GroupOf[s]>>]
    IN  CASE output[f][s] \in {"pending", "generating"} -> {"running"}
          [] output[f][s] = "success" -> {"success"}
          [] output[f][s] = "failure" -> {"failed"}
          [] output[f][s] = "cancelled" -> {"cancelled"}
          [] output[f][s] = "none" /\ ended = "failure" -> {"failed"}
          [] output[f][s] = "none" /\ ended = "cancelled" -> {"cancelled"}
          [] output[f][s] = "none" /\ ended = "success"
               /\ pc[<<f, GroupOf[s]>>] = "off" -> {"failed", "none"}
          [] OTHER -> {"none"}

\* reconcileDashboardRefreshRunRows, its query and what it makes of it.
ReadRows(p) ==
    /\ pc[p] = "rows"
    /\ LET f == about[p]
           open == {s \in linked[f] : row[f][s] \in Live}
       IN  \E next \in [Sources -> RowStatus] :
             /\ \A s \in Sources :
                  IF s \in open
                    THEN \E status \in StatusFromRun(f, s) :
                           next[s] = IF status = row[f][s] THEN "none" ELSE status
                    ELSE next[s] = "none"
             /\ update' = [update EXCEPT ![p] = next]
             /\ Goto(p, IF next = NoRows THEN "tally" ELSE "write")
    /\ after' = [after EXCEPT ![p] = End(p)]
    /\ UNCHANGED <<database, about, source, todo, owed, verdict, history>>

\* One statement per row, in any order, whatever the row has become.
WriteRow(p, s) ==
    /\ pc[p] = "write" /\ update[p][s] # "none"
    /\ row' = [row EXCEPT ![about[p]][s] = update[p][s]]
    /\ update' = [update EXCEPT ![p][s] = "none"]
    /\ Goto(p, IF update'[p] = NoRows THEN "tally" ELSE "write")
    /\ UNCHANGED <<refresh, linked, run, output, published, overdue, about,
                   source, todo, owed, verdict, after, history>>

-----------------------------------------------------------------------------
(* updateDashboardRefreshRollup: two queries of the rows, and a write.      *)

Tally(p) ==
    /\ pc[p] = "tally"
    /\ verdict' = [verdict EXCEPT ![p] = RollupStatus(row[about[p]])]
    /\ Goto(p, "tally required")
    /\ UNCHANGED <<database, about, source, todo, owed, update, after, history>>

TallyRequired(p) ==
    /\ pc[p] = "tally required"
    /\ verdict' = [verdict EXCEPT ![p] = RollupRequired(@, row[about[p]])]
    /\ Goto(p, "settle")
    /\ UNCHANGED <<database, about, source, todo, owed, update, after, history>>

\* The unique index keeps an ended refresh from running again beside another.
MayRun(f) == RunningRefreshes \subseteq {f}

Settle(p) ==
    /\ pc[p] = "settle"
    /\ LET f == about[p]
           kept == verdict[p] = "running" /\ ~MayRun(f)
       IN  /\ refresh' = IF kept THEN refresh ELSE [refresh EXCEPT ![f] = verdict[p]]
           /\ Goto(p, IF kept /\ p \notin Generators THEN End(p) ELSE after[p])
    /\ verdict' = [verdict EXCEPT ![p] = "none"]
    /\ after' = [after EXCEPT ![p] = "none"]
    /\ UNCHANGED <<row, linked, run, output, published, overdue, about, source,
                   todo, owed, update, history>>

-----------------------------------------------------------------------------
(* Marking: markDashboardRefreshOutputStatus changes the row of an output, *)
(* if it names the run, and rolls up.  That it fails is only logged.       *)

Mark(p, from, status, to) ==
    LET f == about[p]
    IN  /\ pc[p] = from
        /\ \/ /\ source[p] \in linked[f]
              /\ row' = [row EXCEPT ![f][source[p]] = status]
              /\ after' = [after EXCEPT ![p] = to]
              /\ Goto(p, "tally")
              /\ UNCHANGED upsets
           \/ /\ IF source[p] \in linked[f] THEN Upset ELSE UNCHANGED upsets
              /\ Goto(p, to)
              /\ UNCHANGED <<row, after>>
        /\ UNCHANGED <<refresh, linked, run, output, published, overdue, about, source,
                       todo, owed, update, verdict, passed, early>>

NextItem(p, s) == IF todo[p] \subseteq {s} THEN "off" ELSE "claim"

MarkGenerating(p) == Mark(p, "claimed", "running", "generate")
MarkPublished(p) == Mark(p, "published", "success", "finish")
MarkSkipped(p) == Mark(p, "skipped", "failed", "finish")
\* Mutant: the run's status is written, not the row's.
MarkFailedAsRun(p) == Mark(p, "failed", "failure", NextItem(p, source[p]))
MarkFailed(p) == Mark(p, "failed", "failed", NextItem(p, source[p]))
MarkCancelled(p) == Mark(p, "dropped", "cancelled", End(p))

-----------------------------------------------------------------------------
(* A run ends and its outputs are generated.                               *)

\* handleFinalizeRun, or a failed launch
EndRun(p) ==
    /\ run[p] = "active"
    /\ \E status \in {"success", "failure"} : run' = [run EXCEPT ![p] = status]
    /\ Goto(p, "prepare")
    /\ UNCHANGED <<refresh, row, linked, output, published, overdue, locals,
                   history>>

\* preparePipelineFinalOutputRecords: items whose condition does not match the
\* run's end are left out.
Prepare(p) ==
    /\ pc[p] = "prepare"
    /\ \E items \in SUBSET {s \in SourcesOf(p[2]) : row[p[1]][s] # "none"} :
         /\ output' = [output EXCEPT ![p[1]] =
                         [s \in Sources |-> IF s \in items THEN "pending" ELSE @[s]]]
         /\ todo' = [todo EXCEPT ![p] = items]
         /\ Goto(p, IF items = {} THEN "off" ELSE "claim")
    /\ UNCHANGED <<refresh, row, linked, run, published, overdue, about, source,
                   owed, update, verdict, after, history>>

\* The loop of generatePipelineFinalOutputs goes on to the next item.
Advance(p, s) ==
    /\ todo' = [todo EXCEPT ![p] = @ \ {s}]
    /\ source' = [source EXCEPT ![p] = "none"]
    /\ Goto(p, NextItem(p, s))

\* claimPipelineFinalOutputForGeneration
Claim(p, s) ==
    /\ pc[p] = "claim" /\ s \in todo[p]
    /\ IF output[p[1]][s] \in {"pending", "generating"}
         THEN /\ output' = [output EXCEPT ![p[1]][s] = "generating"]
              /\ source' = [source EXCEPT ![p] = s]
              /\ Goto(p, "claimed")
              /\ UNCHANGED todo
         ELSE Advance(p, s) /\ UNCHANGED output
    /\ UNCHANGED <<refresh, row, linked, run, published, overdue, about, owed,
                   update, verdict, after, history>>

\* The LLM answers, or fails; a failure to reach it looks at no cancellation.
Generate(p) ==
    /\ pc[p] = "generate"
    /\ \/ output[p[1]][source[p]] = "cancelled" /\ Advance(p, source[p])
       \/ /\ output[p[1]][source[p]] # "cancelled" /\ Goto(p, "publish")
          /\ UNCHANGED <<todo, source>>
       \/ Goto(p, "failing") /\ UNCHANGED <<todo, source>>
    /\ UNCHANGED <<database, about, owed, update, verdict, after, history>>

\* publishDashboardFinalOutput: the publication, in a transaction of its own.
\* Without an enabled source binding of the run's scope only an event is
\* written, and the row is told.  An output that replaces the one shown gives
\* way to that of a run that finished later, of this pipeline but of whatever
\* refresh or trigger, and its row is told that it was published.
Publish(p) ==
    LET pass == passed' = [passed EXCEPT ![p[1]] = @ \cup {source[p]}]
    IN  /\ pc[p] = "publish"
        /\ \/ /\ published' = [published EXCEPT ![p[1]] = @ \cup {source[p]}]
              /\ Goto(p, "published") /\ UNCHANGED passed
           \/ pass /\ Goto(p, "published") /\ UNCHANGED published
           \/ pass /\ Goto(p, "skipped") /\ UNCHANGED published
        /\ UNCHANGED <<refresh, row, linked, run, output, overdue, locals, early, upsets>>

PublishFails(p) ==
    /\ pc[p] = "publish"
    /\ Goto(p, "failing")
    /\ UNCHANGED <<database, locals, history>>

\* A cancelled item keeps its status.
CloseOutput(p, from, status) ==
    /\ pc[p] = from
    /\ output' = [output EXCEPT ![p[1]][source[p]] = IF @ = "cancelled" THEN @ ELSE status]
    /\ UNCHANGED <<refresh, row, linked, run, published, overdue, about, owed,
                   update, verdict, after, history>>

FinishOutput(p) == CloseOutput(p, "finish", "success") /\ Advance(p, source[p])

FailOutput(p) ==
    /\ CloseOutput(p, "failing", "failure")
    /\ Goto(p, "failed")
    /\ todo' = [todo EXCEPT ![p] = @ \ {source[p]}]
    /\ UNCHANGED source

-----------------------------------------------------------------------------
(* Cancelling a refresh, or one output.                                    *)

\* A cancellation of the refresh knows its runs and has yet to end the rows.
Gathered(f) == \E c \in Cancels : about[c] = f /\ pc[c] \in {"outputs", "rows cancel"}

\* A cancellation is about to cancel the run.
Stopping(p) ==
    \E c \in Cancels : about[c] = p[1] /\ pc[c] = "runs cancel" /\ p[2] \in todo[c]

BeginCancel(c, f) ==
    /\ pc[c] = "idle" /\ refresh[f] = "running"
    /\ about' = [about EXCEPT ![c] = f]
    /\ Goto(c, "collect")
    /\ early' = early \cup {<<f, GroupOf[s]>> :
                               s \in {u \in linked[f] : row[f][u] \in Live /\ ~Gathered(f)}}
    /\ UNCHANGED <<database, source, todo, owed, update, verdict, after, passed, upsets>>

\* Mutant: queued rows are overlooked.
ActiveGroupsRunningOnly(f) == {GroupOf[s] : s \in {u \in linked[f] : row[f][u] = "running"}}

\* activeDashboardRefreshRunIDs
ActiveGroups(f) == {GroupOf[s] : s \in {u \in linked[f] : row[f][u] \in Live}}

CollectRuns(c) ==
    /\ pc[c] = "collect"
    /\ todo' = [todo EXCEPT ![c] = ActiveGroups(about[c])]
    /\ Goto(c, "outputs")
    /\ UNCHANGED <<database, about, source, owed, update, verdict, after, history>>

\* cancelDashboardRefreshFinalOutputs; that it fails is only logged.
CancelOutputs(c) ==
    /\ pc[c] = "outputs"
    /\ \/ LET f == about[c]
          IN  output' = [output EXCEPT ![f] = [s \in Sources |->
                          IF s \in linked[f] /\ row[f][s] \in Live
                               /\ @[s] \in {"pending", "generating"}
                            THEN "cancelled" ELSE @[s]]]
              /\ UNCHANGED upsets
       \/ Upset /\ UNCHANGED output
    /\ Goto(c, "rows cancel")
    /\ UNCHANGED <<refresh, row, linked, run, published, overdue, locals, passed, early>>

CancelRows(c) ==
    /\ pc[c] = "rows cancel"
    /\ row' = [row EXCEPT ![about[c]] =
                 [s \in Sources |-> IF @[s] \in Live THEN "cancelled" ELSE @[s]]]
    /\ Goto(c, "runs cancel")
    /\ UNCHANGED <<refresh, linked, run, output, published, overdue, locals,
                   history>>

\* cancelRunHierarchy, of a run that has not ended; that it fails is only
\* logged, and the refresh is cancelled without the run.
CancelRun(c, g) ==
    /\ pc[c] = "runs cancel" /\ g \in todo[c]
    /\ \/ /\ run' = [run EXCEPT ![<<about[c], g>>] = IF @ = "active" THEN "cancelled" ELSE @]
          /\ UNCHANGED <<early, upsets>>
       \/ Upset /\ early' = early \ {<<about[c], g>>} /\ UNCHANGED run
    /\ todo' = [todo EXCEPT ![c] = @ \ {g}]
    /\ UNCHANGED <<refresh, row, linked, output, published, overdue, pc, about, source, owed,
                   update, verdict, after, passed>>

CancelRefresh(c) ==
    /\ pc[c] = "runs cancel" /\ todo[c] = {}
    /\ refresh' = [refresh EXCEPT ![about[c]] = "cancelled"]
    /\ Goto(c, "done")
    /\ UNCHANGED <<row, linked, run, output, published, overdue, locals, history>>

\* cancelPipelineFinalOutput
CancelOutput(c, f, s) ==
    /\ pc[c] = "idle" /\ output[f][s] \in {"pending", "generating"}
    /\ output' = [output EXCEPT ![f][s] = "cancelled"]
    /\ about' = [about EXCEPT ![c] = f]
    /\ source' = [source EXCEPT ![c] = s]
    /\ Goto(c, "dropped")
    /\ UNCHANGED <<refresh, row, linked, run, published, overdue, todo, owed,
                   update, verdict, after, history>>

-----------------------------------------------------------------------------
(* What else happens.                                                      *)

\* retryPipelineFinalOutput: whatever the goroutine that failed is still at,
\* another one takes the output up.
RetryOutput(f, s) ==
    LET p == <<f, s, upsets + 1>>
    IN  /\ output[f][s] = "failure" /\ Upset
        /\ s \in Overlapping \/ pc[<<f, GroupOf[s]>>] = "off"
        /\ output' = [output EXCEPT ![f][s] = "pending"]
        /\ todo' = [todo EXCEPT ![p] = {s}]
        /\ Goto(p, "claim")
        /\ UNCHANGED <<refresh, row, linked, run, published, overdue, about, source, owed,
                       update, verdict, after, passed, early>>

TimePasses(f) ==
    /\ refresh[f] = "running" /\ f \notin overdue
    /\ overdue' = overdue \cup {f}
    /\ UNCHANGED <<refresh, row, linked, run, output, published, pc, locals, history>>

\* The control plane restarts: every handler and generator is gone, and with
\* a cancellation what it still meant to cancel.
Restart ==
    /\ Upset
    /\ pc' = [p \in Procs |-> IF pc[p] = "idle" THEN "idle" ELSE End(p)]
    /\ source' = [p \in Procs |-> "none"]
    /\ todo' = [p \in Procs |-> {}]
    /\ owed' = [f \in Refreshes |-> NoRows]
    /\ update' = [p \in Procs |-> NoRows]
    /\ verdict' = [p \in Procs |-> "none"] /\ after' = [p \in Procs |-> "none"]
    /\ early' = {p \in early : ~Stopping(p)}
    /\ UNCHANGED <<database, about, passed>>

-----------------------------------------------------------------------------
StartSteps(h) ==
    \/ Start(h) \/ CheckFirst(h) \/ InsertRefresh(h) \/ AllLaunched(h)
    \/ \E g \in Groups : Launch(h, g)
    \/ \E s \in Sources : SaveLaunch(h, s)

ReconcileSteps(p) ==
    Reconcile(p) \/ TimeOutRows(p) \/ ReadRows(p) \/ \E s \in Sources : WriteRow(p, s)

RollupSteps(p) == Tally(p) \/ TallyRequired(p) \/ Settle(p)

GenerateSteps(p) ==
    \/ Prepare(p) \/ \E s \in Sources : Claim(p, s)
    \/ MarkGenerating(p) \/ Generate(p) \/ Publish(p) \/ PublishFails(p)
    \/ MarkPublished(p) \/ MarkSkipped(p) \/ FailOutput(p) \/ MarkFailed(p)
    \/ FinishOutput(p)

CancelSteps(c) ==
    \/ CollectRuns(c) \/ CancelOutputs(c) \/ CancelRows(c) \/ CancelRefresh(c)
    \/ \E g \in Groups : CancelRun(c, g)
    \/ MarkCancelled(c)

ProcessSteps(p) ==
    \/ p \in Requests /\ StartSteps(p)
    \/ p \in Requests \cup Readers /\ ReconcileSteps(p)
    \/ p \in Generators /\ GenerateSteps(p)
    \/ p \in Cancels /\ CancelSteps(p)
    \/ RollupSteps(p)

Next ==
    \/ \E p \in Procs : ProcessSteps(p)
    \/ \E p \in Runs : EndRun(p)
    \/ \E f \in Refreshes, s \in Sources : RetryOutput(f, s)
    \/ \E c \in Cancels, f \in Refreshes :
         BeginCancel(c, f) \/ \E s \in Sources : CancelOutput(c, f, s)
    \/ \E f \in Refreshes : TimePasses(f)
    \/ Restart

Spec == Init /\ [][Next]_vars

\* The process runs its handlers and goroutines, time passes, and somebody
\* goes on looking at refreshes that run.  No run need end.
Fairness ==
    /\ \A p \in Procs : WF_vars(ProcessSteps(p))
    /\ \A f \in Refreshes : WF_vars(TimePasses(f))

FairSpec == Spec /\ Fairness

-----------------------------------------------------------------------------
(* Properties.                                                             *)

TypeOK ==
    /\ refresh \in [Refreshes -> RefreshStatus \cup {"none"}]
    /\ row \in [Refreshes -> [Sources -> RowStatus]]
    /\ linked \in [Refreshes -> SUBSET Sources]
    /\ run \in [Runs -> {"none", "active", "success", "failure", "cancelled"}]
    /\ output \in [Refreshes -> [Sources ->
                    {"none", "pending", "generating", "success", "failure", "cancelled"}]]
    /\ published \in [Refreshes -> SUBSET Sources]
    /\ overdue \subseteq Refreshes
    /\ owed \in [Refreshes -> [Sources -> {"wait", "link", "fail", "none"}]]
    /\ update \in [Procs -> [Sources -> RowStatus]]
    /\ passed \in [Refreshes -> SUBSET Sources] /\ early \subseteq Runs
    /\ upsets \in 0..MaxUpsets

\* doc/dashboards.md: one refresh can run per dashboard at a time, though the
\* check, the insertion and the rollups that may reopen an ended refresh are
\* steps of different handlers.
OneRunning == Cardinality(RunningRefreshes) <= 1

\* doc/dashboards.md: a key deduplicates start requests, those that arrive
\* together and those that come after the refresh has ended.
KeyUsedOnce ==
    \A f, e \in Existing : KeyOf[f] = KeyOf[e] /\ KeyOf[f] # NoKey => f = e

\* A source is successful only once the refresh's run has published its output,
\* or it went by unpublished without an error: it gave way to a later run's,
\* or no enabled binding of its scope was there.  No reader that writes what it
\* read too long ago, retry or cancelled item makes a source successful whose
\* output was never handed to publication (doc/dashboards.md, which has no
\* exceptions).
SuccessPublished ==
    \A f \in Refreshes : \A s \in Sources :
        row[f][s] = "success" => s \in published[f] \cup passed[f]

\* Once a refresh says cancelled, the runs its live rows named when a
\* cancellation began have ended or are about to be cancelled, however rows and
\* outputs moved meanwhile and whoever else cancels the refresh.  What may keep
\* a run out of reach: a timeout of the refresh, a restart of the control plane
\* between the rows and the runs, a call to cancel the run that failed, and a
\* cancellation that had collected its runs, without this one, before this one
\* began.
CancelStopsRuns ==
    \A p \in early :
        refresh[p[1]] = "cancelled" /\ p[1] \notin overdue /\ run[p] = "active"
          => Stopping(p)

\* A refresh does not stay running for ever, whichever process was lost or
\* has written what it read too long ago.
RefreshEnds == \A f \in Refreshes : <>[](refresh[f] # "running")
=============================================================================
