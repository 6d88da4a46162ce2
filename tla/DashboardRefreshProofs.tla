----------------------- MODULE DashboardRefreshProofs -----------------------
(***************************************************************************)
(* What holds of the refreshes of a dashboard for any number of requests,  *)
(* readers, cancellations and sources: one refresh runs at a time, an      *)
(* idempotency key names one refresh, a successful source has been through *)
(* publication, and a cancelled refresh has reached its runs.              *)
(*                                                                         *)
(* The first two rest on what a handler works on (IInv): a rollup writes a *)
(* status it computed before, into a refresh that exists.  A rollup of a   *)
(* refresh that does not exist would create it, with a key that may be     *)
(* used.  The others rest on what outputs, plans and rows say (RInv): a    *)
(* row that is written late is written for a run that has ended.           *)
(***************************************************************************)
EXTENDS DashboardRefresh, FiniteSetTheorems, TLAPS

Labels == {"idle", "check", "insert", "launch", "read", "timeout", "rows", "write",
           "tally", "tally required", "settle", "prepare", "claim", "claimed", "generate", "publish",
           "published", "skipped", "failing", "failed", "finish", "collect", "outputs",
           "rows cancel", "runs cancel", "dropped", "done", "off", "none"}
Resting == {"idle", "check", "insert", "done", "off"}

OutputStatus == {"none", "pending", "generating", "success", "failure", "cancelled"}
OutputTable == [Refreshes -> [Sources -> OutputStatus]]

AtWork ==
    /\ pc \in [Procs -> Labels] /\ after \in [Procs -> Labels]
    /\ about \in [Procs -> Refreshes \cup {"none"}]
    /\ verdict \in [Procs -> RefreshStatus \cup {"none"}]

Types == TypeOK /\ AtWork

\* Who is at work works on a refresh that exists.
Engaged == \A p \in Procs : pc[p] \notin Resting => about[p] \in Existing

\* A generator works on its run's refresh, and only a refresh has runs.
Followed ==
    /\ \A p \in Generators : about[p] = p[1]
    /\ \A p \in Runs : run[p] # "none" => p[1] \in Existing

\* A request launches, or will when its rollup returns, for its own refresh.
Launched ==
    \A h \in Requests : pc[h] = "launch" \/ after[h] = "launch" => h \in Existing

\* Only a refresh has outputs.
Itemized ==
    \A f \in Refreshes : \A s \in Sources : output[f][s] # "none" => f \in Existing

\* A rollup has a status to write.
Settling ==
    \A p \in Procs :
        /\ pc[p] \in {"tally required", "settle"} => verdict[p] \in RefreshStatus
        /\ after[p] \notin {"tally required", "settle"}

Single == \A f, e \in RunningRefreshes : f = e

\* Publishing is of a source.
Publishing == \A p \in Generators : pc[p] = "publish" => source[p] \in Sources

Work == Engaged /\ Followed /\ Launched /\ Itemized /\ Settling
IInv == Types /\ Work /\ Single /\ KeyUsedOnce

-----------------------------------------------------------------------------
(* Types.                                                                  *)

LEMMA Names ==
  /\ Refreshes = Requests
  /\ \A p \in Generators : p \in Procs /\ p[1] \in Refreshes
  /\ \A p \in Runs : p \in Generators /\ p[2] \in Groups /\ p = <<p[1], p[2]>>
  /\ \A f \in Refreshes : \A s \in Sources : \A u \in 1..MaxUpsets :
       <<f, s, u>> \in Generators
  /\ \A p \in Requests \cup Readers \cup Cancels : p \in Procs /\ p \notin Generators
  /\ \A s \in Sources : GroupOf[s] \in Groups
BY RefreshAssumption DEF RefreshAssumption, Refreshes, Runs, Retries, Generators, Procs

LEMMA RowStatuses ==
  {"none", "queued", "running", "success", "failed", "timed_out", "cancelled", "skipped"}
    = RowStatus
BY DEF RowStatus, Live, TerminalRow, Bad

\* One entry, or one line, of a table is written.
LEMMA Entry ==
  ASSUME NEW A, NEW B, NEW V, NEW t \in [A -> [B -> V]], NEW a, NEW b, NEW v \in V
  PROVE  [t EXCEPT ![a][b] = v] \in [A -> [B -> V]]
OBVIOUS

LEMMA Line ==
  ASSUME NEW A, NEW B, NEW V, NEW t \in [A -> [B -> V]], NEW a, NEW line \in [B -> V]
  PROVE  [t EXCEPT ![a] = line] \in [A -> [B -> V]]
OBVIOUS

\* Something fails, or nothing does.
LEMMA UpsetType ==
  ASSUME upsets \in 0..MaxUpsets, Upset \/ UNCHANGED upsets
  PROVE  upsets' \in 0..MaxUpsets
BY RefreshAssumption DEF Upset, RefreshAssumption

LEMMA RollupType ==
  ASSUME NEW rows
  PROVE  /\ RollupStatus(rows) \in {"running", "failed", "partial"}
         /\ \A status : RollupRequired(status, rows) \in {status, "partial", "complete"}
BY DEF RollupStatus, RollupRequired

\* A run ends, or an output is retried, and a generator begins.
Begins(p) ==
    \/ p \in Runs /\ EndRun(p)
    \/ \E f \in Refreshes, s \in Sources : p = <<f, s, upsets + 1>> /\ RetryOutput(f, s)

LEMMA NextCases ==
  ASSUME IInv, [Next]_vars
  PROVE  \/ \E p \in Procs : ProcessSteps(p)
         \/ \E p \in Generators : Begins(p)
         \/ \E c \in Cancels, f \in Refreshes :
              BeginCancel(c, f) \/ \E s \in Sources : CancelOutput(c, f, s)
         \/ \E f \in Refreshes : TimePasses(f)
         \/ Restart
         \/ UNCHANGED vars
<1>1. ASSUME NEW p \in Runs, EndRun(p) PROVE \E q \in Generators : Begins(q)
  BY <1>1, Names DEF Begins
<1>2. ASSUME NEW f \in Refreshes, NEW s \in Sources, RetryOutput(f, s)
      PROVE  \E q \in Generators : Begins(q)
  <2>1. upsets + 1 \in 1..MaxUpsets
    BY <1>2, RefreshAssumption DEF IInv, Types, TypeOK, RetryOutput, Upset, RefreshAssumption
  <2>2. <<f, s, upsets + 1>> \in Generators
    BY <2>1, Names
  <2> QED BY <1>2, <2>2 DEF Begins
<1> QED BY <1>1, <1>2 DEF Next

LEMMA EndType == \A p : End(p) \in {"off", "done"} /\ End(p) \in Labels
BY DEF End, Labels

LEMMA InitIInv == Init => IInv
<1> SUFFICES ASSUME Init PROVE IInv
  OBVIOUS
<1> USE DEF Init
<1>1. TypeOK
  BY Names, RefreshAssumption DEF TypeOK, NoRows, RowStatus, RefreshAssumption
<1>2. Types
  BY <1>1, Names DEF Types, AtWork, End, Labels
<1>3. Existing = {} /\ RunningRefreshes = {}
  BY DEF Existing, RunningRefreshes
<1>4. Work
  BY Names DEF Work, Engaged, Followed, Launched, Itemized, Settling, Resting, End, NoRows
<1>5. Single /\ KeyUsedOnce
  BY <1>3 DEF Single, KeyUsedOnce
<1> QED
  BY <1>2, <1>4, <1>5 DEF IInv

-----------------------------------------------------------------------------
(* The steps that write a refresh: an insertion, a rollup, a cancellation. *)

\* A step that writes none keeps what is said of them.
LEMMA Kept ==
  ASSUME IInv, UNCHANGED refresh
  PROVE  Existing' = Existing /\ Single' /\ KeyUsedOnce'
BY DEF IInv, Existing, RunningRefreshes, Single, KeyUsedOnce

LEMMA InsertIInv ==
  ASSUME IInv, NEW h \in Requests, InsertRefresh(h)
  PROVE  IInv'
<1>1. TypeOK /\ AtWork /\ Work /\ Single /\ KeyUsedOnce /\ h \in Procs /\ h \in Refreshes
  BY Names DEF IInv, Types
<1>2. UNCHANGED <<linked, run, output, published, overdue, source, todo, verdict,
                  history>>
  BY DEF InsertRefresh
<1>3. /\ update' \in [Procs -> [Sources -> RowStatus]]
      /\ update[h] \in [Sources -> RowStatus]
  <2>1. NoRows \in [Sources -> RowStatus]
    BY RowStatuses DEF NoRows
  <2>2. update' = [update EXCEPT ![h] = NoRows]
    BY DEF InsertRefresh
  <2> QED BY <1>1, <2>1, <2>2, Line DEF TypeOK
<1>4. CASE ~MayInsert(h)
  <2>1. pc' = [pc EXCEPT ![h] = "done"] /\ UNCHANGED <<refresh, row, owed, about, after>>
    BY <1>4 DEF InsertRefresh, Goto
  <2>2. TypeOK' /\ AtWork'
    BY <1>1, <1>2, <1>3, <2>1 DEF TypeOK, AtWork, history, Labels
  <2>3. Engaged' /\ Followed' /\ Itemized'
    BY <1>1, <1>2, <2>1, Kept DEF AtWork, Work, Engaged, Followed, Itemized, Resting
  <2>4. Launched'
    BY <1>1, <1>2, <2>1, Kept DEF AtWork, Work, Launched
  <2>5. Settling'
    BY <1>1, <1>2, <2>1 DEF AtWork, Work, Settling
  <2> QED BY <2>1, <2>2, <2>3, <2>4, <2>5, Kept DEF IInv, Types, Work
<1>5. CASE MayInsert(h)
  <2>1. /\ refresh' = [refresh EXCEPT ![h] = "running"]
        /\ row' = [row EXCEPT ![h] = update[h]]
        /\ about' = [about EXCEPT ![h] = h] /\ after' = [after EXCEPT ![h] = "launch"]
        /\ \E to \in {"tally", "launch"} : pc' = [pc EXCEPT ![h] = to]
    BY <1>5 DEF InsertRefresh, Goto
  <2>2. PICK line \in [Sources -> {"wait", "link", "fail", "none"}] :
           owed' = [owed EXCEPT ![h] = line]
    BY <1>5 DEF InsertRefresh
  <2>3. row' \in [Refreshes -> [Sources -> RowStatus]]
    BY <1>1, <1>3, <2>1, Line DEF TypeOK
  <2>4. owed' \in [Refreshes -> [Sources -> {"wait", "link", "fail", "none"}]]
    BY <1>1, <2>2, Line DEF TypeOK
  <2>5. refresh' \in [Refreshes -> RefreshStatus \cup {"none"}]
    BY <1>1, <2>1 DEF TypeOK, RefreshStatus
  <2>6. TypeOK'
    BY <1>1, <1>2, <1>3, <2>3, <2>4, <2>5 DEF TypeOK, history
  <2>7. AtWork'
    BY <1>1, <1>2, <2>1 DEF AtWork, Labels
  <2>8. Existing' = Existing \cup {h} /\ RunningRefreshes' = {h}
    BY <1>1, <1>5, <2>1 DEF Existing, RunningRefreshes, MayInsert, TypeOK
  <2>9. Single'
    BY <2>8 DEF Single
  <2>10. KeyUsedOnce'
    BY <1>1, <1>5, <2>8 DEF KeyUsedOnce, MayInsert, KeyUsed
  <2>11. Work'
    BY <1>1, <1>2, <2>1, <2>8, Names
    DEF AtWork, Work, Engaged, Followed, Launched, Itemized, Settling, Resting
  <2> QED BY <2>6, <2>7, <2>9, <2>10, <2>11 DEF IInv, Types
<1> QED BY <1>4, <1>5

\* Whatever a rollup goes back to, it writes a status into a refresh that is
\* there, and "running" only when no other one runs.
LEMMA SettleIInv ==
  ASSUME IInv, NEW p \in Procs, Settle(p)
  PROVE  IInv'
<1> DEFINE f == about[p]
<1>1. TypeOK /\ AtWork /\ Work /\ Single /\ KeyUsedOnce
  BY DEF IInv, Types
<1>2. /\ pc[p] = "settle"
      /\ UNCHANGED <<row, linked, run, output, published, overdue, about, source,
                     todo, owed, update, history>>
      /\ verdict' = [verdict EXCEPT ![p] = "none"] /\ after' = [after EXCEPT ![p] = "none"]
  BY DEF Settle
<1>3. f \in Existing /\ verdict[p] \in RefreshStatus
  BY <1>1, <1>2 DEF Work, Engaged, Settling, Resting
<1>4. /\ \/ refresh' = refresh
         \/ /\ refresh' = [refresh EXCEPT ![f] = verdict[p]]
            /\ verdict[p] = "running" => MayRun(f)
      /\ \/ pc' = [pc EXCEPT ![p] = End(p)]
         \/ pc' = [pc EXCEPT ![p] = after[p]]
  BY DEF Settle, Goto
<1>5. TypeOK'
  <2>1. refresh' \in [Refreshes -> RefreshStatus \cup {"none"}]
    BY <1>1, <1>3, <1>4 DEF TypeOK
  <2> QED BY <1>1, <1>2, <2>1 DEF TypeOK, history
<1>5a. PICK to \in Labels : /\ pc' = [pc EXCEPT ![p] = to]
                            /\ to = after[p] \/ to \in {"off", "done"}
  BY <1>1, <1>4, EndType DEF AtWork
<1>6. AtWork'
  <2>1. pc' \in [Procs -> Labels]
    BY <1>1, <1>5a DEF AtWork
  <2>2. after' \in [Procs -> Labels]
    BY <1>1, <1>2 DEF AtWork, Labels
  <2>3. about' \in [Procs -> Refreshes \cup {"none"}]
    BY <1>1, <1>2 DEF AtWork
  <2>4. verdict' \in [Procs -> RefreshStatus \cup {"none"}]
    BY <1>1, <1>2 DEF AtWork
  <2> QED BY <2>1, <2>2, <2>3, <2>4 DEF AtWork
<1>7. Existing' = Existing
  BY <1>1, <1>3, <1>4 DEF TypeOK, Existing, RefreshStatus
<1>8. RunningRefreshes' \subseteq RunningRefreshes \/ RunningRefreshes' = {f}
  BY <1>1, <1>3, <1>4 DEF TypeOK, RunningRefreshes, MayRun, Existing
<1>9. Single' /\ KeyUsedOnce'
  BY <1>1, <1>7, <1>8 DEF Single, KeyUsedOnce
<1>10. Work'
  <2>1. Engaged'
    BY <1>1, <1>2, <1>3, <1>4, <1>7 DEF AtWork, Work, Engaged, Resting
  <2>2. Followed' /\ Itemized'
    BY <1>1, <1>2, <1>7 DEF Work, Followed, Itemized
  <2>3. Launched'
    <3>1. \A h \in Requests :
            \/ pc'[h] = pc[h] /\ after'[h] = after[h]
            \/ pc'[h] \in {after[h], "off", "done"} /\ after'[h] = "none"
      BY <1>1, <1>2, <1>5a, Names DEF AtWork
    <3> QED BY <1>1, <1>7, <3>1 DEF Work, Launched
  <2>4. Settling'
    <3>1. \A q \in Procs :
            \/ pc'[q] = pc[q] /\ after'[q] = after[q] /\ verdict'[q] = verdict[q]
            \/ pc'[q] \in {after[q], "off", "done"} /\ after'[q] = "none"
      BY <1>1, <1>2, <1>5a DEF AtWork
    <3> QED BY <1>1, <3>1 DEF Work, Settling
  <2> QED BY <2>1, <2>2, <2>3, <2>4 DEF Work
<1> QED BY <1>5, <1>6, <1>9, <1>10 DEF IInv, Types

LEMMA CancelRefreshIInv ==
  ASSUME IInv, NEW c \in Cancels, CancelRefresh(c)
  PROVE  IInv'
<1> DEFINE f == about[c]
<1>1. TypeOK /\ AtWork /\ Work /\ Single /\ KeyUsedOnce /\ c \in Procs
  BY Names DEF IInv, Types
<1>2. /\ refresh' = [refresh EXCEPT ![f] = "cancelled"] /\ pc' = [pc EXCEPT ![c] = "done"]
      /\ UNCHANGED <<row, linked, run, output, published, overdue, locals, history>>
      /\ pc[c] = "runs cancel"
  BY DEF CancelRefresh, Goto
<1>3. f \in Existing
  BY <1>1, <1>2 DEF Work, Engaged, Resting
<1>4. TypeOK' /\ AtWork'
  BY <1>1, <1>2 DEF TypeOK, AtWork, Labels, RefreshStatus, locals, history
<1>5. Existing' = Existing /\ RunningRefreshes' \subseteq RunningRefreshes
  BY <1>1, <1>2, <1>3 DEF TypeOK, Existing, RunningRefreshes
<1>6. Single' /\ KeyUsedOnce'
  BY <1>1, <1>5 DEF Single, KeyUsedOnce
<1>7. Work'
  <2>1. Engaged' /\ Settling'
    BY <1>1, <1>2, <1>5 DEF AtWork, Work, Engaged, Settling, Resting, locals
  <2>2. Followed' /\ Itemized'
    BY <1>1, <1>2, <1>5 DEF Work, Followed, Itemized, locals
  <2>3. Launched'
    BY <1>1, <1>2, <1>5, Names DEF AtWork, Work, Launched, locals
  <2> QED BY <2>1, <2>2, <2>3 DEF Work
<1> QED BY <1>4, <1>6, <1>7 DEF IInv, Types

-----------------------------------------------------------------------------
(* The steps that write no refresh.                                        *)

LEMMA MarkIInv ==
  ASSUME IInv, NEW p \in Procs, NEW from, NEW status \in RowStatus, NEW to \in Labels,
         from \notin Resting, to # "launch", to \notin {"tally required", "settle"},
         to # "none", Mark(p, from, status, to)
  PROVE  IInv'
<1> DEFINE f == about[p]
<1>1. TypeOK /\ AtWork /\ Work
  BY DEF IInv, Types
<1>2. UNCHANGED <<refresh, linked, run, output, published, overdue, about, source,
                  todo, owed, update, verdict, passed, early>>
  BY DEF Mark
<1>3. /\ pc[p] = from
      /\ \/ /\ row' = [row EXCEPT ![f][source[p]] = status]
            /\ after' = [after EXCEPT ![p] = to] /\ pc' = [pc EXCEPT ![p] = "tally"]
         \/ UNCHANGED <<row, after>> /\ pc' = [pc EXCEPT ![p] = to]
  BY DEF Mark, Goto
<1>4. upsets' \in 0..MaxUpsets
  <2>1. Upset \/ UNCHANGED upsets
    BY DEF Mark
  <2> QED BY <1>1, <2>1, UpsetType DEF TypeOK
<1>5. row' \in [Refreshes -> [Sources -> RowStatus]]
  <2>1. row \in [Refreshes -> [Sources -> RowStatus]]
    BY <1>1 DEF TypeOK
  <2>2. CASE row' = [row EXCEPT ![f][source[p]] = status]
    BY ONLY <2>1, <2>2, Entry, status \in RowStatus
  <2> QED BY <1>3, <2>1, <2>2
<1>6. TypeOK'
  BY <1>1, <1>2, <1>4, <1>5 DEF TypeOK
<1>7. AtWork'
  <2>1. "tally" \in Labels
    BY DEF Labels
  <2>2. pc' \in [Procs -> Labels] /\ after' \in [Procs -> Labels]
    BY <1>1, <1>3, <2>1 DEF AtWork
  <2> QED BY <1>1, <1>2, <2>2 DEF AtWork
<1>8. Engaged' /\ Followed' /\ Itemized'
  BY <1>1, <1>2, <1>3, Kept DEF AtWork, Work, Engaged, Followed, Itemized, Resting
<1>9. Launched' /\ Settling'
  BY <1>1, <1>2, <1>3, Kept, Names DEF AtWork, Work, Launched, Settling
<1> QED BY <1>2, <1>6, <1>7, <1>8, <1>9, Kept DEF IInv, Types, Work

LEMMA StartIInv ==
  ASSUME IInv, NEW h \in Requests, StartSteps(h)
  PROVE  IInv'
<1> USE DEF IInv, Types, Work
<1>1. CASE Start(h)
  <2> USE <1>1 DEF Start, Goto, database, locals, history
  <2>0. PICK S \in SUBSET Sources, queued \in SUBSET Sources :
           update' = [update EXCEPT ![h] = Planned(S, queued)]
    OBVIOUS
  <2>a. Planned(S, queued) \in [Sources -> RowStatus]
    BY RowStatuses DEF Planned
  <2>b. update' \in [Procs -> [Sources -> RowStatus]]
    BY <2>0, <2>a, Line DEF TypeOK
  <2>1. TypeOK'
    BY <2>b DEF TypeOK
  <2>2. AtWork'
    BY Names, EndType DEF AtWork, Labels
  <2>3. Engaged' /\ Followed' /\ Itemized'
    BY Kept, Names, EndType DEF AtWork, Engaged, Followed, Itemized, Resting, Existing
  <2>4. Launched'
    BY Kept, Names, EndType DEF AtWork, Launched
  <2>5. Settling'
    BY Names, EndType DEF AtWork, Settling
  <2> QED BY <2>1, <2>2, <2>3, <2>4, <2>5, Kept
<1>2. CASE CheckFirst(h)
  <2> USE <1>2 DEF CheckFirst, Goto, database, locals, history
  <2>1. TypeOK'
    BY Names, RowStatuses DEF TypeOK, NoRows
  <2>2. AtWork'
    BY Names, EndType DEF AtWork, Labels
  <2>3. Engaged' /\ Followed' /\ Itemized'
    BY Kept, Names, EndType DEF AtWork, Engaged, Followed, Itemized, Resting, Existing
  <2>4. Launched'
    BY Kept, Names, EndType DEF AtWork, Launched
  <2>5. Settling'
    BY Names, EndType DEF AtWork, Settling
  <2> QED BY <2>1, <2>2, <2>3, <2>4, <2>5, Kept
<1>3. CASE AllLaunched(h)
  <2> USE <1>3 DEF AllLaunched, Goto, database, locals, history
  <2>1. TypeOK'
    BY Names, RowStatuses DEF TypeOK, NoRows
  <2>2. AtWork'
    BY Names, EndType DEF AtWork, Labels
  <2>3. Engaged' /\ Followed' /\ Itemized'
    BY Kept, Names, EndType DEF AtWork, Engaged, Followed, Itemized, Resting, Existing
  <2>4. Launched'
    BY Kept, Names, EndType DEF AtWork, Launched
  <2>5. Settling'
    BY Names, EndType DEF AtWork, Settling
  <2> QED BY <2>1, <2>2, <2>3, <2>4, <2>5, Kept
<1>4. ASSUME NEW g \in Groups, Launch(h, g) PROVE IInv'
  <2> USE <1>4 DEF Launch, Goto, database, locals, history
  <2>a. owed' \in [Refreshes -> [Sources -> {"wait", "link", "fail", "none"}]]
    BY Names DEF TypeOK
  <2>b. run' \in [Runs -> {"none", "active", "success", "failure", "cancelled"}]
    BY DEF TypeOK
  <2>1. TypeOK'
    BY <2>a, <2>b DEF TypeOK
  <2>2. AtWork'
    BY Names, EndType DEF AtWork, Labels
  <2>3. Engaged' /\ Followed' /\ Itemized'
    <3>1. h \in Existing
      BY DEF Launched
    <3>2. Followed'
      BY <3>1, Kept, Names DEF TypeOK, Followed
    <3> QED BY <3>2, Kept DEF Engaged, Itemized
  <2>4. Launched'
    BY Kept, Names, EndType DEF AtWork, Launched
  <2>5. Settling'
    BY Names, EndType DEF AtWork, Settling
  <2> QED BY <2>1, <2>2, <2>3, <2>4, <2>5, Kept
<1>5. ASSUME NEW s \in Sources, SaveLaunch(h, s) PROVE IInv'
  <2> USE <1>5 DEF SaveLaunch, Goto, database, locals, history
  <2>a. owed' \in [Refreshes -> [Sources -> {"wait", "link", "fail", "none"}]]
    BY Entry DEF TypeOK
  <2>b. /\ row' = row \/ row' = [row EXCEPT ![h][s] = "failed"]
        /\ "failed" \in RowStatus /\ row \in [Refreshes -> [Sources -> RowStatus]]
    BY RowStatuses DEF TypeOK
  <2>c. row' \in [Refreshes -> [Sources -> RowStatus]]
    <3>1. CASE row' = row
      BY <2>b, <3>1
    <3>2. CASE row' = [row EXCEPT ![h][s] = "failed"]
      BY ONLY <2>b, <3>2, Entry
    <3> QED BY <2>b, <3>1, <3>2
  <2>d. linked' \in [Refreshes -> SUBSET Sources]
    <3>1. linked' = linked \/ linked' = [linked EXCEPT ![h] = linked[h] \cup {s}]
      OBVIOUS
    <3>2. linked \in [Refreshes -> SUBSET Sources] /\ h \in Refreshes
      BY Names DEF TypeOK
    <3> HIDE DEF IInv, Work, Types, SaveLaunch
    <3> QED BY ONLY <3>1, <3>2, s \in Sources
  <2>1. TypeOK'
    BY <2>a, <2>c, <2>d DEF TypeOK
  <2>2. AtWork'
    BY Names, EndType DEF AtWork, Labels
  <2>3. Engaged' /\ Followed' /\ Itemized'
    BY Kept, Names, EndType DEF AtWork, Engaged, Followed, Itemized, Resting, Existing
  <2>4. Launched'
    BY Kept, Names, EndType DEF AtWork, Launched
  <2>5. Settling'
    BY Names, EndType DEF AtWork, Settling
  <2> QED BY <2>1, <2>2, <2>3, <2>4, <2>5, Kept
<1>6. CASE InsertRefresh(h)
  BY <1>6, InsertIInv
<1> QED BY <1>1, <1>2, <1>3, <1>4, <1>5, <1>6 DEF StartSteps

LEMMA ReconcileIInv ==
  ASSUME IInv, NEW p \in Requests \cup Readers, ReconcileSteps(p)
  PROVE  IInv'
<1> USE DEF IInv, Types, Work
<1>1. CASE Reconcile(p)
  <2>1. TypeOK'
    BY <1>1 DEF Reconcile, ReadRefresh, database, history, TypeOK
  <2>2. PICK f \in Refreshes : ReadRefresh(p, f)
    BY <1>1, Names DEF Reconcile, RunningRefreshes
  <2>3. UNCHANGED <<database, verdict, after>>
    BY <2>2 DEF ReadRefresh
  <2>4. CASE refresh[f] # "running"
    <3>1. pc' = [pc EXCEPT ![p] = End(p)] /\ about' = about
      BY <2>2, <2>4 DEF ReadRefresh, Goto
    <3>2. AtWork'
      BY <2>3, <3>1, EndType DEF AtWork
    <3>3. Engaged' /\ Followed' /\ Itemized'
      BY <2>3, <3>1, EndType, Kept DEF database, AtWork, Engaged, Followed, Itemized, Resting
    <3>4. Launched'
      BY <2>2, <2>3, <3>1, EndType, Kept DEF database, AtWork, Launched
    <3>5. Settling'
      BY <2>2, <2>3, <3>1, EndType DEF AtWork, Settling
    <3> QED BY <2>1, <2>3, <3>2, <3>3, <3>4, <3>5, Kept DEF database
  <2>5. CASE refresh[f] = "running"
    <3>1. /\ pc' = [pc EXCEPT ![p] = IF f \in overdue THEN "timeout" ELSE "rows"]
          /\ about' = [about EXCEPT ![p] = f]
      BY <2>2, <2>5 DEF ReadRefresh, Goto
    <3>2. AtWork'
      BY <2>3, <3>1 DEF AtWork, Labels
    <3>3. f \in Existing /\ p \in Procs /\ p \notin Generators
      BY <2>5, Names DEF Existing
    <3>4. Engaged'
      BY <2>3, <3>1, <3>3, Kept DEF database, AtWork, Engaged, Resting
    <3>5. Followed' /\ Itemized'
      BY <2>3, <3>1, <3>3, Kept DEF database, AtWork, Followed, Itemized
    <3>6. Launched'
      BY <2>3, <3>1, <3>3, Kept DEF database, AtWork, Launched
    <3>7. Settling'
      BY <2>3, <3>1, <3>3 DEF AtWork, Settling
    <3> QED BY <2>1, <2>3, <3>2, <3>4, <3>5, <3>6, <3>7, Kept DEF database
  <2> QED BY <2>4, <2>5
<1>2. CASE TimeOutRows(p)
  <2> USE <1>2 DEF TimeOutRows, Goto, database, locals, history
  <2> DEFINE line == [s \in Sources |->
                        IF row[about[p]][s] \in Live THEN "timed_out" ELSE row[about[p]][s]]
  <2>a. about[p] \in Refreshes
    BY Names DEF Engaged, Resting, Existing
  <2>b. line \in [Sources -> RowStatus] /\ row' = [row EXCEPT ![about[p]] = line]
    BY <2>a, RowStatuses DEF TypeOK
  <2>c. row' \in [Refreshes -> [Sources -> RowStatus]]
    BY <2>b, Line DEF TypeOK
  <2>1. TypeOK'
    BY <2>c DEF TypeOK
  <2>2. AtWork'
    BY Names, EndType DEF AtWork, Labels
  <2>3. Engaged' /\ Followed' /\ Itemized'
    BY Kept, Names, EndType DEF AtWork, Engaged, Followed, Itemized, Resting, Existing
  <2>4. Launched'
    BY Kept, Names, EndType DEF AtWork, Launched
  <2>5. Settling'
    BY Names, EndType DEF AtWork, Settling
  <2> QED BY <2>1, <2>2, <2>3, <2>4, <2>5, Kept
<1>3. CASE ReadRows(p)
  <2> USE <1>3 DEF ReadRows, Goto, database, locals, history
  <2>1. TypeOK'
    BY Names, RowStatuses DEF TypeOK, NoRows
  <2>2. AtWork'
    <3>1. \E to \in {"tally", "write"} : pc' = [pc EXCEPT ![p] = to]
      OBVIOUS
    <3>2. after' = [after EXCEPT ![p] = End(p)] /\ UNCHANGED <<about, verdict>>
      OBVIOUS
    <3>3. {"tally", "write"} \subseteq Labels
      BY DEF Labels
    <3>4. AtWork
      OBVIOUS
    <3> QED BY ONLY <3>1, <3>2, <3>3, <3>4, EndType DEF AtWork
  <2>3. Engaged' /\ Followed' /\ Itemized'
    BY Kept, Names, EndType DEF AtWork, Engaged, Followed, Itemized, Resting, Existing
  <2>4. Launched'
    BY Kept, Names, EndType DEF AtWork, Launched
  <2>5. Settling'
    BY Names, EndType DEF AtWork, Settling
  <2> QED BY <2>1, <2>2, <2>3, <2>4, <2>5, Kept
<1>4. ASSUME NEW s \in Sources, WriteRow(p, s) PROVE IInv'
  <2> USE <1>4 DEF WriteRow, Goto, database, locals, history
  <2>a. update[p][s] \in RowStatus /\ "none" \in RowStatus
    BY Names, RowStatuses DEF TypeOK
  <2>b. row' \in [Refreshes -> [Sources -> RowStatus]]
    BY <2>a, Entry DEF TypeOK
  <2>c. update' \in [Procs -> [Sources -> RowStatus]]
    BY <2>a, Entry DEF TypeOK
  <2>1. TypeOK'
    BY <2>b, <2>c DEF TypeOK
  <2>2. AtWork'
    BY Names, EndType DEF AtWork, Labels
  <2>3. Engaged' /\ Followed' /\ Itemized'
    BY Kept, Names, EndType DEF AtWork, Engaged, Followed, Itemized, Resting, Existing
  <2>4. Launched'
    BY Kept, Names, EndType DEF AtWork, Launched
  <2>5. Settling'
    BY Names, EndType DEF AtWork, Settling
  <2> QED BY <2>1, <2>2, <2>3, <2>4, <2>5, Kept
<1> QED BY <1>1, <1>2, <1>3, <1>4 DEF ReconcileSteps

LEMMA GenerateIInv ==
  ASSUME IInv, Publishing, NEW p \in Generators, GenerateSteps(p)
  PROVE  IInv'
<1> USE DEF IInv, Types, Work
<1>1. CASE Prepare(p)
  <2> USE <1>1 DEF Prepare, Goto, database, locals, history
  <2>1. TypeOK'
    BY Names, RowStatuses DEF TypeOK, NoRows
  <2>2. AtWork'
    BY Names, EndType DEF AtWork, Labels
  <2>3. Engaged' /\ Followed' /\ Itemized'
    BY Kept, Names, EndType DEF AtWork, Engaged, Followed, Itemized, Resting, Existing
  <2>4. Launched'
    BY Kept, Names, EndType DEF AtWork, Launched
  <2>5. Settling'
    BY Names, EndType DEF AtWork, Settling
  <2> QED BY <2>1, <2>2, <2>3, <2>4, <2>5, Kept
<1>2. ASSUME NEW s \in Sources, Claim(p, s) PROVE IInv'
  <2> USE DEF Goto, database, locals, history
  <2>0. p[1] \in Existing /\ p \in Procs /\ pc[p] = "claim"
    BY <1>2, Names DEF Claim, Engaged, Followed, Resting
  <2>1. /\ output' = output \/ output' = [output EXCEPT ![p[1]][s] = "generating"]
        /\ \E to \in {"claimed", "claim", "off"} : pc' = [pc EXCEPT ![p] = to]
        /\ UNCHANGED <<refresh, row, linked, run, published, overdue, about, owed,
                       update, verdict, after, early, upsets>>
    BY <1>2 DEF Claim, Advance, NextItem
  <2>2. output \in OutputTable /\ "generating" \in OutputStatus
    BY DEF TypeOK, OutputTable, OutputStatus
  <2>a. output' \in OutputTable
    <3>1. CASE output' = output
      BY <2>2, <3>1
    <3>2. CASE output' = [output EXCEPT ![p[1]][s] = "generating"]
      BY ONLY <2>2, <3>2, Entry DEF OutputTable
    <3> QED BY <2>1, <3>1, <3>2
  <2>b. TypeOK'
    BY <2>1, <2>a, <1>2 DEF TypeOK, OutputTable, OutputStatus, Claim
  <2>c. AtWork'
    BY <2>1 DEF AtWork, Labels
  <2>3. TypeOK' /\ AtWork'
    BY <2>b, <2>c
  <2>4. \A f \in Refreshes : \A u \in Sources : output'[f][u] # "none" => f \in Existing
    BY <2>0, <2>1 DEF TypeOK, Itemized
  <2>5. Engaged' /\ Followed' /\ Itemized'
    BY <2>0, <2>1, <2>4, Kept DEF AtWork, Engaged, Followed, Itemized, Resting
  <2>6. Launched'
    BY <2>0, <2>1, Kept, Names DEF AtWork, Launched
  <2>7. Settling'
    BY <2>0, <2>1 DEF AtWork, Settling
  <2> QED BY <2>1, <2>3, <2>5, <2>6, <2>7, Kept
<1>3. CASE MarkGenerating(p)
  BY <1>3, MarkIInv, Names, RowStatuses DEF MarkGenerating, Labels, Resting
<1>4. CASE Generate(p)
  <2> USE <1>4 DEF Generate, Advance, NextItem, Goto, database, locals, history
  <2>1. TypeOK'
    BY Names, RowStatuses DEF TypeOK, NoRows
  <2>2. AtWork'
    BY Names, EndType DEF AtWork, Labels
  <2>3. Engaged' /\ Followed' /\ Itemized'
    BY Kept, Names, EndType DEF AtWork, Engaged, Followed, Itemized, Resting, Existing
  <2>4. Launched'
    BY Kept, Names, EndType DEF AtWork, Launched
  <2>5. Settling'
    BY Names, EndType DEF AtWork, Settling
  <2> QED BY <2>1, <2>2, <2>3, <2>4, <2>5, Kept
<1>5. CASE Publish(p)
  <2> USE <1>5 DEF Publish, Goto, database, locals, history
  <2>0. /\ published \in [Refreshes -> SUBSET Sources]
        /\ passed \in [Refreshes -> SUBSET Sources]
        /\ source[p] \in Sources
    BY DEF TypeOK, Publishing
  <2>a. /\ published' \in [Refreshes -> SUBSET Sources]
        /\ passed' \in [Refreshes -> SUBSET Sources]
    BY <2>0
  <2>1. TypeOK'
    BY <2>a DEF TypeOK
  <2>2. AtWork'
    BY Names, EndType DEF AtWork, Labels
  <2>3. Engaged' /\ Followed' /\ Itemized'
    BY Kept, Names, EndType DEF AtWork, Engaged, Followed, Itemized, Resting, Existing
  <2>4. Launched'
    BY Kept, Names, EndType DEF AtWork, Launched
  <2>5. Settling'
    BY Names, EndType DEF AtWork, Settling
  <2> QED BY <2>1, <2>2, <2>3, <2>4, <2>5, Kept
<1>6. CASE PublishFails(p)
  <2> USE <1>6 DEF PublishFails, Goto, database, locals, history
  <2>1. TypeOK'
    BY Names, RowStatuses DEF TypeOK, NoRows
  <2>2. AtWork'
    BY Names, EndType DEF AtWork, Labels
  <2>3. Engaged' /\ Followed' /\ Itemized'
    BY Kept, Names, EndType DEF AtWork, Engaged, Followed, Itemized, Resting, Existing
  <2>4. Launched'
    BY Kept, Names, EndType DEF AtWork, Launched
  <2>5. Settling'
    BY Names, EndType DEF AtWork, Settling
  <2> QED BY <2>1, <2>2, <2>3, <2>4, <2>5, Kept
<1>7. CASE MarkPublished(p)
  BY <1>7, MarkIInv, Names, RowStatuses DEF MarkPublished, Labels, Resting
<1>8. CASE MarkSkipped(p)
  BY <1>8, MarkIInv, Names, RowStatuses DEF MarkSkipped, Labels, Resting
<1>9. CASE FailOutput(p)
  <2> USE <1>9 DEF FailOutput, CloseOutput, Goto, database, locals, history
  <2>1. TypeOK'
    BY Names, RowStatuses DEF TypeOK, NoRows
  <2>2. AtWork'
    BY Names, EndType DEF AtWork, Labels
  <2>3. Engaged' /\ Followed' /\ Itemized'
    BY Kept, Names, EndType DEF AtWork, Engaged, Followed, Itemized, Resting, Existing
  <2>4. Launched'
    BY Kept, Names, EndType DEF AtWork, Launched
  <2>5. Settling'
    BY Names, EndType DEF AtWork, Settling
  <2> QED BY <2>1, <2>2, <2>3, <2>4, <2>5, Kept
<1>10. CASE MarkFailed(p)
  BY <1>10, MarkIInv, Names, RowStatuses DEF MarkFailed, Labels, Resting, NextItem
<1>11. CASE FinishOutput(p)
  <2> USE <1>11 DEF FinishOutput, CloseOutput, Advance, NextItem, Goto, database, locals, history
  <2>1. TypeOK'
    BY Names, RowStatuses DEF TypeOK, NoRows
  <2>2. AtWork'
    BY Names, EndType DEF AtWork, Labels
  <2>3. Engaged' /\ Followed' /\ Itemized'
    BY Kept, Names, EndType DEF AtWork, Engaged, Followed, Itemized, Resting, Existing
  <2>4. Launched'
    BY Kept, Names, EndType DEF AtWork, Launched
  <2>5. Settling'
    BY Names, EndType DEF AtWork, Settling
  <2> QED BY <2>1, <2>2, <2>3, <2>4, <2>5, Kept
<1> QED BY <1>1, <1>2, <1>3, <1>4, <1>5, <1>6, <1>7, <1>8, <1>9, <1>10, <1>11 DEF GenerateSteps

LEMMA CancelIInv ==
  ASSUME IInv, NEW c \in Cancels, CancelSteps(c)
  PROVE  IInv'
<1> USE DEF IInv, Types, Work
<1>1. CASE CollectRuns(c)
  <2> USE <1>1 DEF CollectRuns, Goto, database, locals, history
  <2>1. TypeOK'
    BY Names, RowStatuses DEF TypeOK, NoRows
  <2>2. AtWork'
    BY Names, EndType DEF AtWork, Labels
  <2>3. Engaged' /\ Followed' /\ Itemized'
    BY Kept, Names, EndType DEF AtWork, Engaged, Followed, Itemized, Resting, Existing
  <2>4. Launched'
    BY Kept, Names, EndType DEF AtWork, Launched
  <2>5. Settling'
    BY Names, EndType DEF AtWork, Settling
  <2> QED BY <2>1, <2>2, <2>3, <2>4, <2>5, Kept
<1>2. CASE CancelOutputs(c)
  <2> USE DEF Goto, database, locals, history
  <2> DEFINE f == about[c]
             line == [s \in Sources |->
                        IF s \in linked[f] /\ row[f][s] \in Live
                             /\ output[f][s] \in {"pending", "generating"}
                          THEN "cancelled" ELSE output[f][s]]
  <2>0. f \in Existing /\ c \in Procs
    BY <1>2, Names DEF CancelOutputs, Engaged, Resting
  <2>1. f \in Refreshes /\ output \in OutputTable /\ "cancelled" \in OutputStatus
    BY <2>0 DEF Existing, TypeOK, OutputTable, OutputStatus
  <2>2. /\ output' = [output EXCEPT ![f] = line] \/ UNCHANGED output
        /\ pc' = [pc EXCEPT ![c] = "rows cancel"] /\ upsets' \in 0..MaxUpsets
        /\ UNCHANGED <<refresh, row, linked, run, published, overdue, locals, passed, early>>
    <3>1. upsets' \in 0..MaxUpsets
      BY <1>2, UpsetType DEF CancelOutputs, TypeOK
    <3>2. CASE UNCHANGED output
      BY <1>2, <3>1, <3>2 DEF CancelOutputs
    <3>3. CASE ~UNCHANGED output
      BY <1>2, <2>1, <3>1, <3>3 DEF CancelOutputs, OutputTable
    <3> QED BY <3>2, <3>3
  <2>3. line \in [Sources -> OutputStatus]
    BY <2>1 DEF OutputTable
  <2> HIDE DEF line
  <2>4. output' \in OutputTable
    BY <2>1, <2>2, <2>3, Line DEF OutputTable
  <2>5. TypeOK'
    BY <2>2, <2>4 DEF TypeOK, OutputTable, OutputStatus
  <2>6. AtWork'
    BY <2>2 DEF AtWork, Labels
  <2>7. Itemized'
    <3>1. \A e \in Refreshes : e # f => output'[e] = output[e]
      BY <2>1, <2>2 DEF OutputTable
    <3>2. UNCHANGED refresh
      BY <2>2
    <3> QED BY <2>0, <3>1, <3>2, Kept DEF Itemized
  <2>8. Engaged' /\ Launched'
    BY <2>0, <2>2, Kept, Names DEF AtWork, Engaged, Launched, Resting
  <2>9. Followed' /\ Settling'
    BY <2>0, <2>2, Kept DEF AtWork, Followed, Settling
  <2> QED BY <2>2, <2>5, <2>6, <2>7, <2>8, <2>9, Kept
<1>3. CASE CancelRows(c)
  <2> USE <1>3 DEF CancelRows, Goto, database, locals, history
  <2> DEFINE line == [s \in Sources |->
                        IF row[about[c]][s] \in Live THEN "cancelled" ELSE row[about[c]][s]]
  <2>a. about[c] \in Refreshes
    BY Names DEF Engaged, Resting, Existing
  <2>d. "cancelled" \in RowStatus /\ row \in [Refreshes -> [Sources -> RowStatus]]
    BY RowStatuses DEF TypeOK
  <2>e. line \in [Sources -> RowStatus]
    BY <2>a, <2>d
  <2>f. row' = [row EXCEPT ![about[c]] = line]
    BY <2>a, <2>d, <1>3 DEF CancelRows
  <2>b. line \in [Sources -> RowStatus] /\ row' = [row EXCEPT ![about[c]] = line]
    BY <2>e, <2>f
  <2>c. row' \in [Refreshes -> [Sources -> RowStatus]]
    BY <2>b, Line DEF TypeOK
  <2>1. TypeOK'
    BY <2>c DEF TypeOK
  <2>2. AtWork'
    BY Names, EndType DEF AtWork, Labels
  <2>3. Engaged' /\ Followed' /\ Itemized'
    BY Kept, Names, EndType DEF AtWork, Engaged, Followed, Itemized, Resting, Existing
  <2>4. Launched'
    BY Kept, Names, EndType DEF AtWork, Launched
  <2>5. Settling'
    BY Names, EndType DEF AtWork, Settling
  <2> QED BY <2>1, <2>2, <2>3, <2>4, <2>5, Kept
<1>4. ASSUME NEW g \in Groups, CancelRun(c, g) PROVE IInv'
  <2> USE DEF Goto, database, locals, history
  <2>1. /\ \/ run' = [run EXCEPT ![<<about[c], g>>] = IF @ = "active" THEN "cancelled" ELSE @]
           \/ UNCHANGED run
        /\ early' \subseteq early /\ upsets' \in 0..MaxUpsets
        /\ UNCHANGED <<refresh, row, linked, output, published, overdue, pc, about,
                       source, owed, update, verdict, after, passed>>
    <3>1. upsets' \in 0..MaxUpsets
      BY <1>4, UpsetType DEF CancelRun, TypeOK
    <3> QED BY <1>4, <3>1 DEF CancelRun
  <2>2. TypeOK' /\ AtWork'
    BY <2>1 DEF TypeOK, AtWork
  <2>3. \A p \in Runs : run'[p] # "none" => run[p] # "none"
    BY <2>1 DEF TypeOK
  <2>4. Work'
    BY <2>1, <2>3, Kept DEF Engaged, Followed, Launched, Itemized, Settling
  <2> QED BY <2>1, <2>2, <2>4, Kept
<1>5. CASE MarkCancelled(c)
  BY <1>5, MarkIInv, Names, RowStatuses DEF MarkCancelled, Labels, Resting, End
<1>6. CASE CancelRefresh(c)
  BY <1>6, CancelRefreshIInv
<1> QED BY <1>1, <1>2, <1>3, <1>4, <1>5, <1>6 DEF CancelSteps

-----------------------------------------------------------------------------
(* The steps between the handlers, and a restart.                          *)

LEMMA EndRunIInv ==
  ASSUME IInv, NEW p \in Runs, EndRun(p)
  PROVE  IInv'
<1> USE DEF IInv, Types, Work, EndRun, Goto, database, locals, history
<1>0. p \in Procs /\ p \in Generators /\ p[1] \in Existing
  BY Names DEF Followed
<1>1. TypeOK'
  BY DEF TypeOK
<1>2. AtWork'
  BY <1>0 DEF AtWork, Labels
<1>3. Engaged' /\ Followed' /\ Itemized'
  BY <1>0, Kept DEF TypeOK, AtWork, Engaged, Followed, Itemized, Resting
<1>4. Launched' /\ Settling'
  BY <1>0, Kept, Names DEF AtWork, Launched, Settling
<1> QED BY <1>1, <1>2, <1>3, <1>4, Kept

LEMMA RetryIInv ==
  ASSUME IInv, NEW p \in Generators, NEW f \in Refreshes, NEW s \in Sources,
         p = <<f, s, upsets + 1>>, RetryOutput(f, s)
  PROVE  IInv'
<1>1. TypeOK /\ AtWork /\ Work /\ p \in Procs /\ p[1] = f /\ p \in Generators
  BY Names DEF IInv, Types
<1>2. /\ output' = [output EXCEPT ![f][s] = "pending"]
      /\ pc' = [pc EXCEPT ![p] = "claim"] /\ output[f][s] = "failure"
      /\ upsets' = upsets + 1 /\ upsets < MaxUpsets
      /\ UNCHANGED <<refresh, row, linked, run, published, overdue, about, source,
                     owed, update, verdict, after, passed, early>>
  BY DEF RetryOutput, Goto, Upset
<1>3. f \in Existing
  BY <1>1, <1>2 DEF Work, Itemized
<1>4. output \in OutputTable /\ "pending" \in OutputStatus
  BY <1>1 DEF TypeOK, OutputTable, OutputStatus
<1>5. output' \in OutputTable
  BY <1>2, <1>4, Entry DEF OutputTable
<1>6. TypeOK'
  BY <1>1, <1>2, <1>5, RefreshAssumption
  DEF TypeOK, OutputTable, OutputStatus, RefreshAssumption
<1>7. AtWork'
  BY <1>1, <1>2 DEF AtWork, Labels
<1>8. Itemized'
  <2>1. \A e \in Refreshes : e # f => output'[e] = output[e]
    BY <1>2, <1>4 DEF OutputTable
  <2> QED BY <1>1, <1>2, <1>3, <2>1, Kept DEF Work, Itemized
<1>9. Engaged' /\ Followed' /\ Launched' /\ Settling'
  BY <1>1, <1>2, <1>3, Kept, Names
  DEF AtWork, Work, Engaged, Followed, Launched, Settling, Resting
<1> QED BY <1>2, <1>6, <1>7, <1>8, <1>9, Kept DEF IInv, Types, Work

LEMMA BeginCancelIInv ==
  ASSUME IInv, NEW c \in Cancels, NEW f \in Refreshes, BeginCancel(c, f)
  PROVE  IInv'
<1> USE DEF IInv, Types, Work, BeginCancel, Goto, database, locals, history
<1>0. f \in Existing /\ c \in Procs /\ c \notin Generators
  BY Names DEF Existing
<1>1. TypeOK'
  <2>1. {<<f, GroupOf[s]>> : s \in {u \in linked[f] : row[f][u] \in Live /\ ~Gathered(f)}}
          \subseteq Runs
    BY Names DEF TypeOK, Runs
  <2> QED BY <2>1 DEF TypeOK
<1>2. AtWork'
  BY <1>0 DEF AtWork, Labels
<1>3. Work'
  BY <1>0, Kept, Names
  DEF AtWork, Engaged, Followed, Launched, Itemized, Settling, Resting
<1> QED BY <1>1, <1>2, <1>3, Kept

LEMMA CancelOutputIInv ==
  ASSUME IInv, NEW c \in Cancels, NEW f \in Refreshes, NEW s \in Sources,
         CancelOutput(c, f, s)
  PROVE  IInv'
<1>1. TypeOK /\ AtWork /\ Work /\ c \in Procs /\ c \notin Generators
  BY Names DEF IInv, Types
<1>2. /\ output' = [output EXCEPT ![f][s] = "cancelled"]
      /\ pc' = [pc EXCEPT ![c] = "dropped"] /\ about' = [about EXCEPT ![c] = f]
      /\ output[f][s] \in {"pending", "generating"}
      /\ UNCHANGED <<refresh, row, linked, run, published, overdue, todo, owed,
                     update, verdict, after, history>>
  BY DEF CancelOutput, Goto
<1>3. f \in Existing
  BY <1>2, <1>1 DEF Work, Itemized
<1>4. output \in OutputTable /\ "cancelled" \in OutputStatus
  BY <1>1 DEF TypeOK, OutputTable, OutputStatus
<1>5. output' \in OutputTable
  BY <1>2, <1>4, Entry DEF OutputTable
<1>6. TypeOK'
  BY <1>1, <1>2, <1>5 DEF TypeOK, OutputTable, OutputStatus, history
<1>7. AtWork'
  BY <1>1, <1>2 DEF AtWork, Labels
<1>8. Itemized'
  <2>1. \A e \in Refreshes : e # f => output'[e] = output[e]
    BY <1>2, <1>4 DEF OutputTable
  <2> QED BY <1>1, <1>2, <1>3, <2>1, Kept DEF Work, Itemized
<1>9. Engaged' /\ Followed' /\ Launched' /\ Settling'
  BY <1>1, <1>2, <1>3, Kept, Names
  DEF AtWork, Work, Engaged, Followed, Launched, Settling, Resting
<1> QED BY <1>2, <1>6, <1>7, <1>8, <1>9, Kept DEF IInv, Types, Work

LEMMA RestartIInv == IInv /\ Restart => IInv'
<1> SUFFICES ASSUME IInv, Restart PROVE IInv'
  OBVIOUS
<1> USE DEF IInv, Types, Work, Restart, database
<1>1. NoRows \in [Sources -> RowStatus]
      /\ NoRows \in [Sources -> {"wait", "link", "fail", "none"}]
  BY RowStatuses DEF NoRows
<1>2. TypeOK'
  BY <1>1, UpsetType DEF TypeOK
<1>3. AtWork'
  BY EndType DEF AtWork, Labels
<1>4. Work'
  BY EndType, Kept, Names
  DEF AtWork, Engaged, Followed, Launched, Itemized, Settling, Resting
<1> QED BY <1>2, <1>3, <1>4, Kept

LEMMA TallyIInv ==
  ASSUME IInv, NEW p \in Procs, Tally(p) \/ TallyRequired(p)
  PROVE  IInv'
<1> USE DEF IInv, Types, Work, Tally, TallyRequired, Goto, database, locals, history
<1>1. verdict'[p] \in RefreshStatus
  <2>1. CASE Tally(p)
    BY <2>1, RollupType DEF AtWork, RefreshStatus
  <2>2. CASE TallyRequired(p)
    <3>1. verdict'[p] = RollupRequired(verdict[p], row[about[p]]) /\ verdict[p] \in RefreshStatus
      BY <2>2 DEF AtWork, Settling
    <3> QED BY <3>1, RollupType DEF RefreshStatus
  <2> QED BY <2>1, <2>2
<1>2. TypeOK'
  BY DEF TypeOK
<1>3. AtWork'
  BY <1>1 DEF AtWork, Labels
<1>4. Engaged' /\ Followed' /\ Itemized'
  BY Kept DEF AtWork, Engaged, Followed, Itemized, Resting
<1>5. UNCHANGED after /\ \E to \in {"tally required", "settle"} : pc' = [pc EXCEPT ![p] = to]
  OBVIOUS
<1>6. \A q \in Procs : q # p => verdict'[q] = verdict[q]
  BY DEF AtWork
<1>7. Launched'
  BY <1>5, Kept, Names DEF AtWork, Launched
<1>8. Settling'
  BY <1>1, <1>5, <1>6 DEF AtWork, Settling
<1> QED BY <1>2, <1>3, <1>4, <1>7, <1>8, Kept

\* A timeout comes, or nothing happens.
LEMMA OutsideIInv ==
  ASSUME IInv, (\E f \in Refreshes : TimePasses(f)) \/ UNCHANGED vars
  PROVE  IInv'
<1>1. UNCHANGED <<refresh, row, linked, run, output, published, pc, locals, history>>
  BY DEF TimePasses, vars, database, locals, history
<1>2. overdue' \subseteq Refreshes
  BY DEF IInv, Types, TypeOK, TimePasses, vars, database
<1>3. TypeOK' /\ AtWork'
  BY <1>1, <1>2 DEF IInv, Types, TypeOK, AtWork, locals, history
<1>4. Work'
  BY <1>1, Kept
  DEF IInv, Work, Engaged, Followed, Launched, Itemized, Settling, locals
<1> QED BY <1>1, <1>3, <1>4, Kept DEF IInv, Types

-----------------------------------------------------------------------------
(* All steps.                                                              *)

LEMMA NextIInv == IInv /\ Publishing /\ [Next]_vars => IInv'
<1> SUFFICES ASSUME IInv, Publishing, [Next]_vars PROVE IInv'
  OBVIOUS
<1>1. ASSUME NEW p \in Procs, ProcessSteps(p) PROVE IInv'
  BY <1>1, StartIInv, ReconcileIInv, GenerateIInv, CancelIInv, TallyIInv, SettleIInv
  DEF ProcessSteps, RollupSteps
<1>2. ASSUME NEW p \in Generators, Begins(p)
      PROVE IInv'
  BY <1>2, EndRunIInv, RetryIInv DEF Begins
<1>3. ASSUME NEW c \in Cancels, NEW f \in Refreshes,
             BeginCancel(c, f) \/ \E s \in Sources : CancelOutput(c, f, s)
      PROVE IInv'
  BY <1>3, BeginCancelIInv, CancelOutputIInv
<1>4. CASE Restart
  BY <1>4, RestartIInv
<1>5. CASE (\E f \in Refreshes : TimePasses(f))
             \/ UNCHANGED vars
  BY <1>5, OutsideIInv
<1> QED
  BY <1>1, <1>2, <1>3, <1>4, <1>5, NextCases

-----------------------------------------------------------------------------
(* What rows say, and what a cancellation reaches: the invariant.          *)

\* The run behind a source has ended, and will not be otherwise.
Ended(f, s) == run[<<f, GroupOf[s]>>] \notin {"none", "active"}

\* An output has been through publication: that is not undone.
Shown(f, s) == s \in published[f] \cup passed[f]

\* The rollup that a mark ends in goes back to the generator.
At(p, label) ==
    \/ pc[p] = label
    \/ pc[p] \in {"tally", "tally required", "settle"} /\ after[p] = label

Handling == {"claimed", "generate", "publish", "published", "skipped", "failing", "failed",
             "finish"}

Places ==
    /\ source \in [Procs -> Sources \cup {"none"}]
    /\ todo \in [Procs -> SUBSET (Sources \cup Groups)]

\* A source whose launch is awaited or failed has no run, a linked one has.
Launches ==
    \A f \in Refreshes : \A s \in Sources :
        /\ owed[f][s] \in {"wait", "fail"} => run[<<f, GroupOf[s]>>] = "none"
        /\ owed[f][s] = "link" \/ s \in linked[f] => run[<<f, GroupOf[s]>>] # "none"
        /\ owed[f][s] = "fail" => \A u \in SourcesOf(GroupOf[s]) : owed[f][u] # "wait"

\* A request that has not inserted its refresh has planned its rows only.
Fresh ==
    \A h \in Requests :
        pc[h] \in {"idle", "check", "insert"} =>
            /\ refresh[h] = "none"
            /\ \A s \in Sources : update[h][s] \in {"none", "queued", "skipped"}

Routed ==
    \A p \in Procs :
        /\ pc[p] = "timeout" => about[p] \in overdue
        /\ after[p] \in {"launch", "off", "done", "generate", "finish", "claim", "none"}
        /\ verdict[p] # "cancelled"

\* A generator is at work on sources whose run has ended, and finishes what
\* has been through publication.
Handles(p) ==
    /\ pc[p] = "prepare" => p \in Runs /\ run[p] \notin {"none", "active"}
    /\ \A s \in todo[p] : s \in Sources /\ Ended(p[1], s)
    /\ (\E label \in Handling : At(p, label)) =>
         source[p] \in Sources /\ Ended(p[1], source[p])
    /\ At(p, "published") \/ At(p, "skipped") \/ At(p, "finish") => Shown(p[1], source[p])

Handled == \A p \in Generators : Handles(p)

Dropped ==
    \A c \in Cancels :
        pc[c] = "dropped" => source[c] \in Sources /\ Ended(about[c], source[c])

\* What the outputs say, what a reconciliation has read there, and the rows.
Outputs ==
    \A f \in Refreshes : \A s \in Sources :
        /\ output[f][s] # "none" => Ended(f, s)
        /\ output[f][s] = "success" => Shown(f, s)
Plans ==
    \A p \in Procs : pc[p] = "write" =>
        \A s \in Sources :
            /\ update[p][s] # "none" => Ended(about[p], s)
            /\ update[p][s] = "success" => Shown(about[p], s)
Rows == \A f \in Refreshes : \A s \in Sources : row[f][s] = "success" => Shown(f, s)

\* A row that comes back to life after its refresh was cancelled does so for
\* a run that has ended.
Closing(f) ==
    refresh[f] = "cancelled" \/ \E c \in Cancels : pc[c] = "runs cancel" /\ about[c] = f
Closed ==
    \A f \in Refreshes : Closing(f) =>
        \A s \in Sources : row[f][s] \in Live => Ended(f, s)

\* A run that was linked and live when a cancellation began is in sight of
\* the cancellations under way, or about to be cancelled.
InSight(p) ==
    /\ \E s \in linked[p[1]] : GroupOf[s] = p[2] /\ row[p[1]][s] \in Live
    /\ \A c \in Cancels :
         about[c] = p[1] /\ pc[c] \in {"outputs", "rows cancel"} => p[2] \in todo[c]
Reached ==
    \A p \in early :
        /\ run[p] # "none"
        /\ p[1] \notin overdue /\ run[p] = "active" => InSight(p) \/ Stopping(p)

Telling == Handled /\ Dropped /\ Outputs /\ Plans /\ Rows
RInv == Places /\ Launches /\ Fresh /\ Routed /\ Telling /\ Closed /\ Reached

-----------------------------------------------------------------------------
(* What the steps of a process leave alone.                                *)

LEMMA StartFrame ==
  ASSUME NEW h \in Requests, StartSteps(h)
  PROVE  /\ UNCHANGED <<output, published, overdue, source, todo, verdict, history>>
         /\ UNCHANGED run \/ \E g \in Groups : Launch(h, g)
         /\ UNCHANGED row \/ InsertRefresh(h) \/ \E s \in Sources : SaveLaunch(h, s)
         /\ UNCHANGED linked \/ \E s \in Sources : SaveLaunch(h, s)
BY DEF StartSteps, Start, CheckFirst, InsertRefresh, AllLaunched, Launch, SaveLaunch, database,
       locals

LEMMA ReconcileFrame ==
  ASSUME NEW p \in Requests \cup Readers, ReconcileSteps(p)
  PROVE  /\ UNCHANGED <<refresh, linked, run, output, published, overdue, source,
                        todo, owed, verdict, history>>
         /\ UNCHANGED row \/ TimeOutRows(p) \/ \E s \in Sources : WriteRow(p, s)
BY DEF ReconcileSteps, Reconcile, ReadRefresh, TimeOutRows, ReadRows, WriteRow, database,
       locals

LEMMA GenerateFrame ==
  ASSUME NEW p \in Generators, GenerateSteps(p)
  PROVE  /\ UNCHANGED <<refresh, linked, run, overdue, about, owed, update, verdict, early>>
         /\ UNCHANGED <<published, passed>> \/ Publish(p)
BY DEF GenerateSteps, Prepare, Claim, MarkGenerating, Generate, Publish, PublishFails,
       MarkPublished, MarkSkipped, FailOutput, MarkFailed, FinishOutput, Mark, CloseOutput,
       database, locals, history

LEMMA CancelFrame ==
  ASSUME NEW c \in Cancels, CancelSteps(c)
  PROVE  /\ UNCHANGED <<linked, published, overdue, about, source, owed, update,
                        verdict, passed>>
         /\ UNCHANGED <<run, early>> \/ \E g \in Groups : CancelRun(c, g)
BY DEF CancelSteps, CollectRuns, CancelOutputs, CancelRows, CancelRefresh, CancelRun,
       MarkCancelled, Mark, database, locals, history

LEMMA RollupFrame ==
  ASSUME NEW p \in Procs, RollupSteps(p)
  PROVE  UNCHANGED <<row, linked, run, output, published, overdue, about, source,
                     todo, owed, update, history>>
BY DEF RollupSteps, Tally, TallyRequired, Settle, database, locals, history

\* What a process knows changes by its own steps.
Local(p) == <<pc[p], about[p], source[p], todo[p], update[p], verdict[p], after[p]>>

LEMMA OwnSteps ==
  ASSUME IInv, Places, NEW p \in Procs, NEW q \in Procs, q # p, ProcessSteps(p)
  PROVE  UNCHANGED Local(q)
<1>1. /\ pc \in [Procs -> Labels] /\ after \in [Procs -> Labels]
      /\ about \in [Procs -> Refreshes \cup {"none"}]
      /\ verdict \in [Procs -> RefreshStatus \cup {"none"}]
      /\ update \in [Procs -> [Sources -> RowStatus]]
      /\ source \in [Procs -> Sources \cup {"none"}]
      /\ todo \in [Procs -> SUBSET (Sources \cup Groups)]
  BY DEF IInv, Types, AtWork, TypeOK, Places
<1> USE <1>1 DEF Goto, database, locals, history, Local
<1>2. ASSUME p \in Requests, StartSteps(p) PROVE UNCHANGED Local(q)
  BY <1>2 DEF StartSteps, Start, CheckFirst, InsertRefresh, AllLaunched, Launch, SaveLaunch
<1>3. ASSUME p \in Requests \cup Readers, ReconcileSteps(p) PROVE UNCHANGED Local(q)
  BY <1>3 DEF ReconcileSteps, Reconcile, ReadRefresh, TimeOutRows, ReadRows, WriteRow
<1>4. ASSUME p \in Generators, GenerateSteps(p) PROVE UNCHANGED Local(q)
  BY <1>4 DEF GenerateSteps, Prepare, Claim, Advance, MarkGenerating, Generate, Publish,
       PublishFails, MarkPublished, MarkSkipped, FailOutput, MarkFailed, FinishOutput, Mark,
       CloseOutput
<1>5. ASSUME p \in Cancels, CancelSteps(p) PROVE UNCHANGED Local(q)
  BY <1>5 DEF CancelSteps, CollectRuns, CancelOutputs, CancelRows, CancelRefresh, CancelRun,
       MarkCancelled, Mark
<1>6. CASE RollupSteps(p)
  BY <1>6 DEF RollupSteps, Tally, TallyRequired, Settle
<1> QED BY <1>2, <1>3, <1>4, <1>5, <1>6 DEF ProcessSteps

-----------------------------------------------------------------------------
(* What lasts.                                                             *)

LEMMA Tables ==
  ASSUME IInv, Places
  PROVE  /\ pc \in [Procs -> Labels] /\ after \in [Procs -> Labels]
         /\ about \in [Procs -> Refreshes \cup {"none"}]
         /\ verdict \in [Procs -> RefreshStatus \cup {"none"}]
         /\ update \in [Procs -> [Sources -> RowStatus]]
         /\ source \in [Procs -> Sources \cup {"none"}]
         /\ todo \in [Procs -> SUBSET (Sources \cup Groups)]
         /\ refresh \in [Refreshes -> RefreshStatus \cup {"none"}]
         /\ row \in [Refreshes -> [Sources -> RowStatus]]
         /\ linked \in [Refreshes -> SUBSET Sources]
         /\ run \in [Runs -> {"none", "active", "success", "failure", "cancelled"}]
         /\ output \in [Refreshes -> [Sources -> OutputStatus]]
         /\ published \in [Refreshes -> SUBSET Sources]
         /\ owed \in [Refreshes -> [Sources -> {"wait", "link", "fail", "none"}]]
         /\ passed \in [Refreshes -> SUBSET Sources] /\ early \subseteq Runs
BY DEF IInv, Types, AtWork, TypeOK, Places, OutputStatus

\* Who works, works for a refresh that exists.
LEMMA Working ==
  ASSUME IInv, NEW p \in Procs, pc[p] \notin Resting
  PROVE  about[p] \in Refreshes /\ refresh[about[p]] # "none"
BY DEF IInv, Work, Engaged, Existing

\* One entry of a function is written.
LEMMA Written ==
  ASSUME NEW A, NEW V, NEW t \in [A -> V], NEW a, NEW v \in V
  PROVE  [t EXCEPT ![a] = v] \in [A -> V]
OBVIOUS

LEMMA GroupRun ==
  \A f \in Refreshes : \A s \in Sources : <<f, GroupOf[s]>> \in Runs
BY Names DEF Runs

\* A run begins once, where none was, and ends once.
RunsOn ==
    \A p \in Runs :
        /\ run[p] # "none" => run'[p] # "none"
        /\ run[p] \notin {"none", "active"} => run'[p] \notin {"none", "active"}

\* What is published, or has gone by, stays so.
ShownOn == \A f \in Refreshes : published[f] \subseteq published'[f] /\ passed[f] \subseteq passed'[f]

LEMMA Lasting ==
  ASSUME IInv, Places, Launches, [Next]_vars
  PROVE  RunsOn /\ ShownOn /\ overdue \subseteq overdue'
<1>0. /\ run \in [Runs -> {"none", "active", "success", "failure", "cancelled"}]
      /\ published \in [Refreshes -> SUBSET Sources] /\ passed \in [Refreshes -> SUBSET Sources]
  BY Tables
<1>1. ASSUME NEW h \in Requests, NEW g \in Groups, Launch(h, g) PROVE RunsOn
  <2>1. run[<<h, g>>] = "none"
    BY <1>1, Names DEF Launch, Launches, SourcesOf
  <2>2. UNCHANGED run \/ run' = [run EXCEPT ![<<h, g>>] = "active"]
    BY <1>1 DEF Launch
  <2> QED BY <1>0, <2>1, <2>2 DEF RunsOn
<1>2. ASSUME NEW c \in Cancels, NEW g \in Groups, CancelRun(c, g) PROVE RunsOn
  BY <1>0, <1>2 DEF CancelRun, RunsOn
<1>3. ASSUME NEW p \in Procs, ProcessSteps(p)
      PROVE  /\ UNCHANGED overdue
             /\ UNCHANGED run \/ (\E h \in Requests, g \in Groups : Launch(h, g))
                  \/ (\E c \in Cancels, g \in Groups : CancelRun(c, g))
             /\ UNCHANGED <<published, passed>> \/ Publish(p)
  BY <1>3, StartFrame, ReconcileFrame, GenerateFrame, CancelFrame, RollupFrame
  DEF ProcessSteps, history
<1>4. ASSUME NEW p \in Procs, Publish(p) PROVE ShownOn
  <2>1. \/ published' = published
        \/ published' = [published EXCEPT ![p[1]] = published[p[1]] \cup {source[p]}]
    BY <1>4 DEF Publish
  <2>2. \/ passed' = passed
        \/ passed' = [passed EXCEPT ![p[1]] = passed[p[1]] \cup {source[p]}]
    BY <1>4 DEF Publish
  <2>3. \A f \in Refreshes : published[f] \subseteq published'[f]
    BY ONLY <1>0, <2>1
  <2>4. \A f \in Refreshes : passed[f] \subseteq passed'[f]
    BY ONLY <1>0, <2>2
  <2> QED BY <2>3, <2>4 DEF ShownOn
<1>5. ASSUME NEW p \in Procs, ProcessSteps(p)
      PROVE  RunsOn /\ ShownOn /\ overdue \subseteq overdue'
  <2>1. UNCHANGED run => RunsOn
    BY DEF RunsOn
  <2>2. UNCHANGED <<published, passed>> => ShownOn
    BY DEF ShownOn
  <2> QED BY <1>1, <1>2, <1>3, <1>4, <1>5, <2>1, <2>2
<1>6. ASSUME NEW p \in Generators, Begins(p)
      PROVE  RunsOn /\ UNCHANGED <<published, passed, overdue>>
  BY <1>0, <1>6 DEF Begins, EndRun, RetryOutput, history, RunsOn
<1>7. ASSUME (\E c \in Cancels, f \in Refreshes :
                BeginCancel(c, f) \/ \E s \in Sources : CancelOutput(c, f, s))
               \/ (\E f \in Refreshes : TimePasses(f)) \/ Restart \/ UNCHANGED vars
      PROVE  UNCHANGED <<run, published, passed>> /\ overdue \subseteq overdue'
  BY <1>7 DEF BeginCancel, CancelOutput, TimePasses, Restart, vars, database, history
<1>8. UNCHANGED run => RunsOn
  BY DEF RunsOn
<1>9. UNCHANGED <<published, passed>> => ShownOn
  BY DEF ShownOn
<1> QED BY <1>5, <1>6, <1>7, <1>8, <1>9, NextCases

LEMMA StaysEnded ==
  ASSUME IInv, Places, Launches, [Next]_vars, NEW f \in Refreshes, NEW s
  PROVE  /\ s \in Sources /\ Ended(f, s) => Ended(f, s)'
         /\ Shown(f, s) => Shown(f, s)'
BY Lasting, GroupRun DEF Ended, Shown, RunsOn, ShownOn

-----------------------------------------------------------------------------
(* The start, and where handlers are.                                      *)

LEMMA InitRInv == Init => RInv
<1> SUFFICES ASSUME Init PROVE RInv
  OBVIOUS
<1> USE DEF Init, NoRows
<1>1. Places /\ Launches
  BY Names, GroupRun DEF Places, Launches
<1>2. Fresh /\ Routed
  BY Names, EndType DEF Fresh, Routed
<1>3. Handled
  BY Names DEF Handled, Handles, At, End, Handling
<1>4. Dropped /\ Outputs /\ Plans /\ Rows
  BY Names, EndType DEF Dropped, Outputs, Plans, Rows, End
<1>5. Closed /\ Reached
  BY Names DEF Closed, Closing, Reached
<1> QED BY <1>1, <1>2, <1>3, <1>4, <1>5 DEF RInv, Telling

LEMMA PlacesNext ==
  ASSUME IInv, Places, [Next]_vars
  PROVE  Places'
<1>0. /\ source \in [Procs -> Sources \cup {"none"}]
      /\ todo \in [Procs -> SUBSET (Sources \cup Groups)]
  BY DEF Places
<1> USE <1>0
<1>1. ASSUME NEW p \in Generators, GenerateSteps(p) PROVE Places'
  <2> USE DEF Places, Advance
  <2>1. CASE Prepare(p)
    <3>1. PICK items \in SUBSET Sources : todo' = [todo EXCEPT ![p] = items]
      BY <2>1 DEF Prepare, SourcesOf
    <3>2. items \in SUBSET (Sources \cup Groups)
      OBVIOUS
    <3> QED BY <2>1, <3>1, <3>2, Written DEF Prepare
  <2>2. ASSUME NEW s \in Sources, Claim(p, s) PROVE Places'
    <3>1. UNCHANGED todo \/ todo' = [todo EXCEPT ![p] = @ \ {s}]
      BY <2>2 DEF Claim
    <3>2. \E v \in Sources \cup {"none"} : source' = [source EXCEPT ![p] = v]
      BY <2>2 DEF Claim
    <3> QED BY <3>1, <3>2
  <2>3. CASE Generate(p)
    BY <2>3 DEF Generate
  <2>4. CASE FailOutput(p)
    BY <2>4 DEF FailOutput
  <2>5. CASE FinishOutput(p)
    BY <2>5 DEF FinishOutput
  <2>6. CASE MarkGenerating(p) \/ MarkPublished(p) \/ MarkSkipped(p) \/ MarkFailed(p)
               \/ Publish(p) \/ PublishFails(p)
    BY <2>6 DEF MarkGenerating, MarkPublished, MarkSkipped, MarkFailed, Mark, Publish,
         PublishFails, locals
  <2> QED BY <1>1, <2>1, <2>2, <2>3, <2>4, <2>5, <2>6 DEF GenerateSteps
<1>2. ASSUME NEW c \in Cancels, CancelSteps(c) PROVE Places'
  <2>1. UNCHANGED source
    BY <1>2, CancelFrame
  <2>2. todo' = todo \/ \E v \in SUBSET (Sources \cup Groups) : todo' = [todo EXCEPT ![c] = v]
    <3>1. CASE CollectRuns(c)
      <4>1. ActiveGroups(about[c]) \subseteq Groups
        <5>1. pc[c] \notin Resting
          BY <3>1 DEF CollectRuns, Resting
        <5>2. about[c] \in Refreshes /\ linked[about[c]] \subseteq Sources
          BY <5>1, Working, Tables, Names
        <5> QED BY <5>2, Names DEF ActiveGroups
      <4>2. ActiveGroups(about[c]) \in SUBSET (Sources \cup Groups)
        BY <4>1
      <4> QED BY <3>1, <4>2 DEF CollectRuns
    <3>2. ASSUME NEW g \in Groups, CancelRun(c, g)
          PROVE  \E v \in SUBSET (Sources \cup Groups) : todo' = [todo EXCEPT ![c] = v]
      BY <3>2 DEF CancelRun
    <3>3. CASE CancelOutputs(c) \/ CancelRows(c) \/ CancelRefresh(c) \/ MarkCancelled(c)
      BY <3>3 DEF CancelOutputs, CancelRows, CancelRefresh, MarkCancelled, Mark, locals
    <3> QED BY <1>2, <3>1, <3>2, <3>3 DEF CancelSteps
  <2>3. todo' \in [Procs -> SUBSET (Sources \cup Groups)]
    <3>1. CASE UNCHANGED todo
      BY <3>1
    <3>2. ASSUME NEW v \in SUBSET (Sources \cup Groups), todo' = [todo EXCEPT ![c] = v]
          PROVE  todo' \in [Procs -> SUBSET (Sources \cup Groups)]
      BY <3>2, Written
    <3> QED BY <2>2, <3>1, <3>2
  <2> QED BY <2>1, <2>3 DEF Places
<1>3. ASSUME NEW p \in Procs, ProcessSteps(p) PROVE Places'
  BY <1>1, <1>2, <1>3, StartFrame, ReconcileFrame, RollupFrame DEF ProcessSteps, Places
<1>4. ASSUME NEW p \in Generators, Begins(p)
      PROVE  Places'
  <2>1. CASE EndRun(p)
    BY <2>1 DEF EndRun, Places, locals
  <2>2. ASSUME NEW f \in Refreshes, NEW s \in Sources, p = <<f, s, upsets + 1>>,
               RetryOutput(f, s)
        PROVE  Places'
    <3>1. todo' = [todo EXCEPT ![p] = {s}] /\ {s} \in SUBSET (Sources \cup Groups)
            /\ UNCHANGED source
      BY <2>2 DEF RetryOutput
    <3>2. todo' \in [Procs -> SUBSET (Sources \cup Groups)]
      BY ONLY <1>0, <3>1, Written
    <3> QED BY <3>1, <3>2 DEF Places
  <2> QED BY <1>4, <2>1, <2>2 DEF Begins
<1>5. ASSUME NEW c \in Cancels, NEW f \in Refreshes,
             BeginCancel(c, f) \/ \E s \in Sources : CancelOutput(c, f, s)
      PROVE  Places'
  <2>1. /\ UNCHANGED todo
        /\ UNCHANGED source \/ \E s \in Sources : source' = [source EXCEPT ![c] = s]
    BY <1>5 DEF BeginCancel, CancelOutput
  <2> QED BY <2>1, Written DEF Places
<1>6. CASE (\E f \in Refreshes : TimePasses(f))
             \/ UNCHANGED vars
  BY <1>6 DEF TimePasses, vars, locals, Places
<1>7. CASE Restart
  BY <1>7 DEF Restart, Places
<1> QED BY <1>3, <1>4, <1>5, <1>6, <1>7, NextCases

-----------------------------------------------------------------------------
(* Launches, requests and the ways of a rollup.                            *)

LEMMA LaunchesKept ==
  ASSUME Launches, UNCHANGED <<owed, linked>>,
         \A p \in Runs : run'[p] = "none" <=> run[p] = "none"
  PROVE  Launches'
BY GroupRun DEF Launches

LEMMA LaunchesNext ==
  ASSUME IInv, Places, Launches, Fresh, [Next]_vars
  PROVE  Launches'
<1>1. ASSUME NEW h \in Requests, NEW g \in Groups, Launch(h, g) PROVE Launches'
  <2>1. /\ owed \in [Refreshes -> [Sources -> {"wait", "link", "fail", "none"}]]
        /\ run \in [Runs -> {"none", "active", "success", "failure", "cancelled"}]
        /\ h \in Refreshes /\ <<h, g>> \in Runs /\ UNCHANGED linked
    BY <1>1, Tables, Names DEF Runs, Launch
  <2>2. run[<<h, g>>] = "none"
    BY <1>1, Names DEF Launch, Launches, SourcesOf
  <2>3. \A s \in SourcesOf(g) : owed[h][s] \in {"wait", "none"}
    <3>1. PICK w \in SourcesOf(g) : owed[h][w] = "wait"
      BY <1>1 DEF Launch
    <3> QED BY <2>1, <2>2, <3>1 DEF Launches, SourcesOf
  <2>4. PICK created \in BOOLEAN :
          /\ run' = IF created THEN [run EXCEPT ![<<h, g>>] = "active"] ELSE run
          /\ owed' = [owed EXCEPT ![h] = [s \in Sources |->
                        IF s \in SourcesOf(g) /\ owed[h][s] = "wait"
                          THEN IF created THEN "link" ELSE "fail" ELSE owed[h][s]]]
    BY <1>1, <2>1 DEF Launch
  <2>5. \A f \in Refreshes : \A s \in Sources :
          /\ f # h \/ s \notin SourcesOf(g) => owed'[f][s] = owed[f][s]
          /\ f = h /\ s \in SourcesOf(g) =>
               owed'[f][s] \in {IF created THEN "link" ELSE "fail", "none"}
    BY <2>1, <2>3, <2>4
  <2>6. \A f \in Refreshes : \A s \in Sources :
          /\ f # h \/ s \notin SourcesOf(g) => run'[<<f, GroupOf[s]>>] = run[<<f, GroupOf[s]>>]
          /\ f = h /\ s \in SourcesOf(g) =>
               run'[<<f, GroupOf[s]>>] = IF created THEN "active" ELSE "none"
    BY <2>1, <2>2, <2>4, GroupRun DEF SourcesOf
  <2> QED
    <3> SUFFICES ASSUME NEW f \in Refreshes, NEW s \in Sources
        PROVE /\ owed'[f][s] \in {"wait", "fail"} => run'[<<f, GroupOf[s]>>] = "none"
              /\ owed'[f][s] = "link" \/ s \in linked[f] => run'[<<f, GroupOf[s]>>] # "none"
              /\ owed'[f][s] = "fail" =>
                   \A u \in SourcesOf(GroupOf[s]) : owed'[f][u] # "wait"
      BY <2>1 DEF Launches
    <3>1. CASE f # h \/ s \notin SourcesOf(g)
      BY <2>5, <2>6, <3>1 DEF Launches, SourcesOf
    <3>2. CASE f = h /\ s \in SourcesOf(g)
      BY <2>2, <2>5, <2>6, <3>2 DEF Launches, SourcesOf
    <3> QED BY <3>1, <3>2
<1>2. ASSUME NEW h \in Requests, InsertRefresh(h) PROVE Launches'
  <2>1. CASE ~MayInsert(h)
    BY <1>2, <2>1, LaunchesKept DEF InsertRefresh
  <2>2. CASE MayInsert(h)
    <3>1. /\ owed \in [Refreshes -> [Sources -> {"wait", "link", "fail", "none"}]]
          /\ h \in Refreshes /\ UNCHANGED <<linked, run>>
      BY <1>2, Tables, Names DEF InsertRefresh
    <3>2. \A s \in Sources : run[<<h, GroupOf[s]>>] = "none"
      <4>1. refresh[h] = "none"
        BY <1>2 DEF InsertRefresh, Fresh
      <4>2. \A g : <<h, g>> \in Runs => run[<<h, g>>] = "none"
        BY <4>1 DEF IInv, Work, Followed, Existing
      <4> QED BY <4>2, <3>1, GroupRun
    <3>3. \A f \in Refreshes : \A s \in Sources :
            /\ f # h => owed'[f][s] = owed[f][s]
            /\ f = h => owed'[f][s] \in {"wait", "none"}
      BY <1>2, <2>2, <3>1 DEF InsertRefresh
    <3> QED BY <3>1, <3>2, <3>3 DEF Launches, SourcesOf
  <2> QED BY <2>1, <2>2
<1>3. ASSUME NEW h \in Requests, NEW s \in Sources, SaveLaunch(h, s) PROVE Launches'
  <2>1. /\ owed \in [Refreshes -> [Sources -> {"wait", "link", "fail", "none"}]]
        /\ linked \in [Refreshes -> SUBSET Sources] /\ h \in Refreshes /\ UNCHANGED run
    BY <1>3, Tables, Names DEF SaveLaunch
  <2>2. \A f \in Refreshes : \A u \in Sources :
          owed'[f][u] = owed[f][u] \/ owed'[f][u] = "none"
    BY <1>3, <2>1 DEF SaveLaunch
  <2>3. \A f \in Refreshes : \A u \in linked'[f] :
          u \in linked[f] \/ owed[f][u] = "link"
    BY <1>3, <2>1 DEF SaveLaunch
  <2> QED BY <2>1, <2>2, <2>3 DEF Launches, SourcesOf
<1>4. ASSUME NEW h \in Requests, StartSteps(h) PROVE Launches'
  <2>1. CASE Start(h) \/ CheckFirst(h) \/ AllLaunched(h)
    BY <2>1, LaunchesKept DEF Start, CheckFirst, AllLaunched, database, locals
  <2> QED BY <1>1, <1>2, <1>3, <1>4, <2>1 DEF StartSteps
<1>5. ASSUME NEW c \in Cancels, CancelSteps(c) PROVE Launches'
  <2>1. ASSUME NEW g \in Groups, CancelRun(c, g)
        PROVE  \A p \in Runs : run'[p] = "none" <=> run[p] = "none"
    BY <2>1, Tables DEF CancelRun
  <2> QED BY <1>5, <2>1, CancelFrame, LaunchesKept
<1>6. ASSUME NEW p \in Procs, ProcessSteps(p) PROVE Launches'
  BY <1>4, <1>5, <1>6, ReconcileFrame, GenerateFrame, RollupFrame, LaunchesKept
  DEF ProcessSteps
<1>7. ASSUME NEW p \in Generators, Begins(p)
      PROVE  Launches'
  <2>1. \A q \in Runs : run'[q] = "none" <=> run[q] = "none"
    BY <1>7, Tables DEF Begins, EndRun, RetryOutput
  <2> QED BY <1>7, <2>1, LaunchesKept DEF Begins, EndRun, RetryOutput, locals
<1>8. CASE (\E c \in Cancels, f \in Refreshes :
                BeginCancel(c, f) \/ \E s \in Sources : CancelOutput(c, f, s))
               \/ (\E f \in Refreshes : TimePasses(f)) \/ UNCHANGED vars
  BY <1>8, LaunchesKept
  DEF BeginCancel, CancelOutput, TimePasses, vars, database, locals
<1>9. CASE Restart
  <2>1. UNCHANGED <<run, linked>> /\ owed' = [f \in Refreshes |-> NoRows]
    BY <1>9 DEF Restart, database
  <2> QED BY <2>1 DEF Launches, NoRows
<1> QED BY <1>6, <1>7, <1>8, <1>9, NextCases

\* A refresh comes to be by its own request's insertion.
LEMMA FreshNext ==
  ASSUME IInv, Places, Fresh, Routed, [Next]_vars
  PROVE  Fresh'
<1>1. ASSUME NEW p \in Procs, RollupSteps(p) PROVE Fresh'
  <2>1. \A f \in Refreshes : refresh[f] = "none" => refresh'[f] = "none"
    <3>1. pc[p] \notin Resting
      BY <1>1 DEF RollupSteps, Tally, TallyRequired, Settle, Resting
    <3> QED BY <1>1, <3>1, Working, Tables DEF RollupSteps, Tally, TallyRequired, Settle, database
  <2>2. \A h \in Requests :
          pc'[h] \in {"idle", "check", "insert"} => pc[h] = pc'[h]
    BY <1>1, Tables, Names, EndType DEF RollupSteps, Tally, TallyRequired, Settle, Goto, Routed, End
  <2>3. UNCHANGED update
    BY <1>1, RollupFrame
  <2> QED BY <2>1, <2>2, <2>3, Names DEF Fresh
<1>2. ASSUME NEW h \in Requests, StartSteps(h) PROVE Fresh'
  <2>1. CASE Start(h)
    <3>1. PICK S \in SUBSET Sources, queued \in SUBSET Sources :
             update' = [update EXCEPT ![h] = Planned(S, queued)]
      BY <2>1 DEF Start
    <3>2. \A s \in Sources : Planned(S, queued)[s] \in {"none", "queued", "skipped"}
      BY DEF Planned
    <3>3. \A k \in Requests : k # h => pc'[k] = pc[k] /\ update'[k] = update[k]
      BY <2>1, <3>1, Tables, Names DEF Start, Goto
    <3>4. pc[h] = "idle" /\ update'[h] = Planned(S, queued) /\ UNCHANGED refresh
      BY <2>1, <3>1, Tables, Names DEF Start, database
    <3> QED BY <3>2, <3>3, <3>4 DEF Fresh
  <2>2. CASE CheckFirst(h)
    BY <2>2, Tables, Names DEF CheckFirst, Goto, database, locals, Fresh
  <2>3. CASE InsertRefresh(h)
    <3>1. \A k \in Requests : k # h =>
             pc'[k] = pc[k] /\ update'[k] = update[k] /\ refresh'[k] = refresh[k]
      BY <2>3, Tables, Names DEF InsertRefresh, Goto
    <3>2. pc'[h] \in {"done", "tally", "launch"}
      BY <2>3, Tables, Names DEF InsertRefresh, Goto
    <3> QED BY <3>1, <3>2 DEF Fresh
  <2>4. CASE AllLaunched(h)
    BY <2>4, Tables, Names DEF AllLaunched, Goto, database, locals, Fresh
  <2>5. CASE (\E g \in Groups : Launch(h, g)) \/ (\E s \in Sources : SaveLaunch(h, s))
    <3>1. UNCHANGED <<refresh, pc, update>>
      BY <2>5 DEF Launch, SaveLaunch
    <3> QED BY <3>1 DEF Fresh
  <2> QED BY <1>2, <2>1, <2>2, <2>3, <2>4, <2>5 DEF StartSteps
<1>3. ASSUME NEW p \in Requests \cup Readers, ReconcileSteps(p) PROVE Fresh'
  <2>1. \A h \in Requests : h # p => pc'[h] = pc[h] /\ update'[h] = update[h]
    BY <1>3, OwnSteps, Names DEF ProcessSteps, Local
  <2>2. pc'[p] \in {"done", "timeout", "rows", "write", "tally"}
    <3>1. \E to \in {"done", "timeout", "rows", "write", "tally"} :
            pc' = [pc EXCEPT ![p] = to]
      BY <1>3, Names
      DEF ReconcileSteps, Reconcile, ReadRefresh, TimeOutRows, ReadRows, WriteRow, Goto, End
    <3>2. p \in Procs /\ pc \in [Procs -> Labels]
      BY Tables, Names
    <3> QED BY <3>1, <3>2
  <2> QED BY <1>3, <2>1, <2>2, ReconcileFrame DEF Fresh
<1>4. ASSUME NEW p \in Generators, GenerateSteps(p) PROVE Fresh'
  <2>1. \A h \in Requests : h # p /\ pc'[h] = pc[h] /\ update'[h] = update[h]
    BY <1>4, OwnSteps, Names DEF ProcessSteps, Local
  <2> QED BY <1>4, <2>1, GenerateFrame DEF Fresh
<1>5. ASSUME NEW c \in Cancels, CancelSteps(c) PROVE Fresh'
  <2>1. \A h \in Requests : h # c /\ pc'[h] = pc[h] /\ update'[h] = update[h]
    BY <1>5, OwnSteps, Names, RefreshAssumption DEF ProcessSteps, Local, RefreshAssumption
  <2>2. \A f \in Refreshes : refresh[f] = "none" => refresh'[f] = "none"
    <3>1. CASE CancelRefresh(c)
      <4>1. pc[c] \notin Resting
        BY <3>1 DEF CancelRefresh, Resting
      <4> QED BY <3>1, <4>1, Working, Tables, Names DEF CancelRefresh
    <3>2. CASE UNCHANGED refresh
      BY <3>2
    <3> QED BY <1>5, <3>1, <3>2
      DEF CancelSteps, CollectRuns, CancelOutputs, CancelRows, CancelRun, MarkCancelled, Mark,
          database
  <2> QED BY <2>1, <2>2, Names DEF Fresh
<1>6. ASSUME NEW p \in Procs, ProcessSteps(p) PROVE Fresh'
  BY <1>1, <1>2, <1>3, <1>4, <1>5, <1>6 DEF ProcessSteps
<1>7. ASSUME NEW p \in Generators, Begins(p)
      PROVE  Fresh'
  <2>1. \A h \in Requests : pc'[h] = pc[h]
    <3>1. \E to \in Labels : pc' = [pc EXCEPT ![p] = to]
      BY <1>7 DEF Begins, EndRun, RetryOutput, Goto, Labels
    <3>2. pc \in [Procs -> Labels] /\ p \notin Requests
      BY Tables, Names
    <3> QED BY <3>1, <3>2, Names
  <2>2. UNCHANGED <<refresh, update>>
    BY <1>7 DEF Begins, EndRun, RetryOutput, locals
  <2> QED BY <2>1, <2>2 DEF Fresh
<1>8. ASSUME NEW c \in Cancels, NEW f \in Refreshes,
             BeginCancel(c, f) \/ \E s \in Sources : CancelOutput(c, f, s)
      PROVE  Fresh'
  <2>1. \A h \in Requests : pc'[h] = pc[h]
    BY <1>8, Tables, Names, RefreshAssumption
    DEF BeginCancel, CancelOutput, Goto, RefreshAssumption
  <2> QED BY <1>8, <2>1 DEF BeginCancel, CancelOutput, database, Fresh
<1>9. CASE (\E f \in Refreshes : TimePasses(f))
             \/ UNCHANGED vars
  <2>1. UNCHANGED <<refresh, pc, update>>
    BY <1>9 DEF TimePasses, vars, database, locals
  <2> QED BY <2>1 DEF Fresh
<1>10. CASE Restart
  <2>1. \A h \in Requests : /\ pc'[h] = pc[h] \/ pc'[h] \in {"off", "done"}
                            /\ update'[h] = NoRows
    BY <1>10, Names, EndType DEF Restart
  <2>2. UNCHANGED refresh /\ \A s \in Sources : NoRows[s] = "none"
    BY <1>10 DEF Restart, database, NoRows
  <2> QED BY <2>1, <2>2 DEF Fresh
<1> QED BY <1>6, <1>7, <1>8, <1>9, <1>10, NextCases

\* Where a rollup goes back to.
Returns == {"launch", "off", "done", "generate", "finish", "claim", "none"}

LEMMA MarkGoes ==
  ASSUME IInv, Places, NEW p \in Procs, NEW from, NEW status, NEW to, Mark(p, from, status, to)
  PROVE  pc'[p] \in {"tally", to} /\ after'[p] \in {after[p], to}
BY Tables DEF Mark, Goto

LEMMA RoutedNext ==
  ASSUME IInv, Places, Launches, Routed, [Next]_vars
  PROVE  Routed'
<1> DEFINE Route(p) ==
      /\ pc[p] = "timeout" => about[p] \in overdue
      /\ after[p] \in Returns
      /\ verdict[p] # "cancelled"
<1>0. /\ overdue \subseteq overdue' /\ \A p \in Procs : Route(p)
      /\ pc \in [Procs -> Labels] /\ after \in [Procs -> Labels]
      /\ about \in [Procs -> Refreshes \cup {"none"}]
      /\ verdict \in [Procs -> RefreshStatus \cup {"none"}]
  BY Lasting, Tables DEF Routed, Returns
<1>1. ASSUME NEW p \in Procs, UNCHANGED <<pc[p], about[p], verdict[p], after[p]>>
      PROVE  Route(p)'
  BY <1>0, <1>1
<1>2. ASSUME NEW p \in Requests, StartSteps(p) PROVE Route(p)'
  <2>1. p \in Procs /\ verdict' = verdict
    BY <1>2, Names, StartFrame
  <2>2. pc'[p] # "timeout" /\ after'[p] \in {after[p], "launch"}
    <3>1. CASE Start(p) \/ CheckFirst(p) \/ AllLaunched(p)
      BY <1>0, <2>1, <3>1 DEF Start, CheckFirst, AllLaunched, Goto, locals
    <3>2. CASE InsertRefresh(p)
      BY <1>0, <2>1, <3>2 DEF InsertRefresh, Goto
    <3>3. CASE (\E g \in Groups : Launch(p, g)) \/ (\E s \in Sources : SaveLaunch(p, s))
      BY <1>0, <2>1, <3>3 DEF Launch, SaveLaunch
    <3> QED BY <1>2, <3>1, <3>2, <3>3 DEF StartSteps
  <2> QED BY <1>0, <2>1, <2>2 DEF Returns
<1>3. ASSUME NEW p \in Requests \cup Readers, ReconcileSteps(p) PROVE Route(p)'
  <2>1. p \in Procs /\ p \notin Generators
    BY Names
  <2>2. UNCHANGED <<overdue, verdict>>
    BY <1>3, ReconcileFrame
  <2>3. CASE Reconcile(p)
    <3>1. UNCHANGED after
      BY <2>3 DEF Reconcile, ReadRefresh
    <3>2. PICK f : ReadRefresh(p, f)
      BY <2>3 DEF Reconcile
    <3>3. pc'[p] = "timeout" => about'[p] \in overdue
      BY <1>0, <2>1, <3>2 DEF ReadRefresh, Goto, End
    <3> QED BY <1>0, <2>1, <2>2, <3>1, <3>3
  <2>4. CASE TimeOutRows(p) \/ \E s \in Sources : WriteRow(p, s)
    <3>1. UNCHANGED after /\ pc'[p] \in {"rows", "tally", "write"}
      BY <1>0, <2>1, <2>4 DEF TimeOutRows, WriteRow, Goto, locals
    <3> QED BY <1>0, <2>1, <2>2, <3>1
  <2>5. CASE ReadRows(p)
    <3>1. pc'[p] \in {"tally", "write"} /\ after'[p] = "done"
      BY <1>0, <2>1, <2>5 DEF ReadRows, Goto, End
    <3> QED BY <1>0, <2>1, <2>2, <3>1 DEF Returns
  <2> QED BY <1>3, <2>3, <2>4, <2>5 DEF ReconcileSteps
<1>4. ASSUME NEW p \in Generators, GenerateSteps(p) PROVE Route(p)'
  <2>1. p \in Procs /\ UNCHANGED verdict
    BY <1>4, Names, GenerateFrame
  <2>2. pc'[p] # "timeout" /\ after'[p] \in Returns
    <3>1. CASE MarkGenerating(p)
      BY <1>0, <2>1, <3>1, MarkGoes DEF MarkGenerating, Returns
    <3>2. CASE MarkPublished(p) \/ MarkSkipped(p)
      BY <1>0, <2>1, <3>2, MarkGoes DEF MarkPublished, MarkSkipped, Returns
    <3>3. CASE MarkFailed(p)
      BY <1>0, <2>1, <3>3, MarkGoes DEF MarkFailed, NextItem, Returns
    <3>4. CASE Prepare(p) \/ Generate(p) \/ Publish(p) \/ PublishFails(p)
      BY <1>0, <2>1, <3>4
      DEF Prepare, Generate, Publish, PublishFails, Advance, NextItem, Goto, locals
    <3>5. CASE (\E s \in Sources : Claim(p, s)) \/ FailOutput(p) \/ FinishOutput(p)
      BY <1>0, <2>1, <3>5
      DEF Claim, FailOutput, FinishOutput, CloseOutput, Advance, NextItem, Goto
    <3> QED BY <1>4, <3>1, <3>2, <3>3, <3>4, <3>5 DEF GenerateSteps
  <2> QED BY <1>0, <2>1, <2>2
<1>5. ASSUME NEW p \in Cancels, CancelSteps(p) PROVE Route(p)'
  <2>1. p \in Procs /\ p \notin Generators /\ UNCHANGED verdict
    BY <1>5, Names, CancelFrame
  <2>2. pc'[p] # "timeout" /\ after'[p] \in Returns
    <3>1. CASE MarkCancelled(p)
      BY <1>0, <2>1, <3>1, MarkGoes DEF MarkCancelled, End, Returns
    <3>2. CASE CollectRuns(p) \/ CancelOutputs(p) \/ CancelRows(p) \/ CancelRefresh(p)
      BY <1>0, <2>1, <3>2
      DEF CollectRuns, CancelOutputs, CancelRows, CancelRefresh, Goto, locals
    <3>3. CASE \E g \in Groups : CancelRun(p, g)
      BY <1>0, <2>1, <3>3 DEF CancelRun
    <3> QED BY <1>5, <3>1, <3>2, <3>3 DEF CancelSteps
  <2> QED BY <1>0, <2>1, <2>2
<1>6. ASSUME NEW p \in Procs, RollupSteps(p) PROVE Route(p)'
  <2>1. CASE Tally(p)
    BY <1>0, <2>1, RollupType DEF Tally, Goto
  <2>2. CASE TallyRequired(p)
    BY <1>0, <2>2, RollupType DEF TallyRequired, Goto
  <2>3. CASE Settle(p)
    BY <1>0, <2>3 DEF Settle, Goto, End, Returns
  <2> QED BY <1>6, <2>1, <2>2, <2>3 DEF RollupSteps
<1>7. ASSUME NEW p \in Procs, ProcessSteps(p), NEW q \in Procs PROVE Route(q)'
  <2>1. CASE q # p
    <3>1. UNCHANGED Local(q)
      BY <1>7, <2>1, OwnSteps
    <3> QED BY <1>1, <3>1 DEF Local
  <2>2. CASE q = p
    BY <1>2, <1>3, <1>4, <1>5, <1>6, <1>7, <2>2 DEF ProcessSteps
  <2> QED BY <2>1, <2>2
<1>8. ASSUME NEW p \in Generators, Begins(p),
             NEW q \in Procs
      PROVE  Route(q)'
  <2>1. /\ UNCHANGED <<about, verdict, after>>
        /\ \E to \in {"prepare", "claim"} : pc' = [pc EXCEPT ![p] = to]
    BY <1>8 DEF Begins, EndRun, RetryOutput, locals, Goto
  <2> QED BY <1>0, <2>1, Names
<1>9. ASSUME NEW c \in Cancels, NEW f \in Refreshes, NEW q \in Procs,
             BeginCancel(c, f) \/ \E s \in Sources : CancelOutput(c, f, s)
      PROVE  Route(q)'
  <2>1. /\ UNCHANGED <<verdict, after>> /\ about' = [about EXCEPT ![c] = f]
        /\ \E to \in {"collect", "dropped"} : pc' = [pc EXCEPT ![c] = to]
    BY <1>9 DEF BeginCancel, CancelOutput, Goto
  <2> QED BY <1>0, <2>1, Names
<1>10. ASSUME NEW q \in Procs,
             (\E f \in Refreshes : TimePasses(f))
             \/ UNCHANGED vars
       PROVE Route(q)'
  <2>1. UNCHANGED <<pc, about, verdict, after>>
    BY <1>10 DEF TimePasses, vars, locals
  <2> QED BY <1>1, <2>1
<1>11. ASSUME NEW q \in Procs, Restart PROVE Route(q)'
  BY <1>11, EndType DEF Restart, Returns
<1>12. \A q \in Procs : Route(q)'
  <2> SUFFICES ASSUME NEW q \in Procs PROVE Route(q)'
    OBVIOUS
  <2> HIDE DEF Route
  <2> QED BY <1>7, <1>8, <1>9, <1>10, <1>11, NextCases
<1> QED BY <1>12 DEF Routed, Returns

-----------------------------------------------------------------------------
(* The generators.                                                         *)

LEMMA HandlesKept ==
  ASSUME IInv, Places, Launches, [Next]_vars, NEW p \in Generators, Handles(p),
         UNCHANGED <<pc[p], after[p], source[p], todo[p]>>
  PROVE  Handles(p)'
<1>1. p[1] \in Refreshes
  BY Names
<1>2. \A s \in Sources :
        run[<<p[1], GroupOf[s]>>] \notin {"none", "active"} =>
          run'[<<p[1], GroupOf[s]>>] \notin {"none", "active"}
  BY <1>1, Lasting, GroupRun DEF RunsOn
<1>3. published[p[1]] \subseteq published'[p[1]] /\ passed[p[1]] \subseteq passed'[p[1]]
  BY <1>1, Lasting DEF ShownOn
<1>4. p \in Runs /\ run[p] \notin {"none", "active"} => run'[p] \notin {"none", "active"}
  BY Lasting DEF RunsOn
<1> QED BY <1>2, <1>3, <1>4 DEF Handles, At, Shown, Ended

LEMMA MarkHandles ==
  ASSUME IInv, Places, NEW p \in Generators, Handles(p), NEW from \in Handling, NEW status,
         NEW to,
         Mark(p, from, status, to), GenerateSteps(p),
         \/ to \in {"generate", "off", "claim"}
         \/ to = "finish" /\ from \in {"published", "skipped"}
  PROVE  Handles(p)'
<1>1. p \in Procs /\ pc \in [Procs -> Labels] /\ after \in [Procs -> Labels]
  BY Names, Tables
<1>2. UNCHANGED <<source, todo, run, published, passed>>
  BY GenerateFrame DEF Mark
<1>3. pc[p] = from /\ \/ pc'[p] = "tally" /\ after'[p] = to
                      \/ pc'[p] = to
  BY <1>1 DEF Mark, Goto
<1>4. source[p] \in Sources /\ Ended(p[1], source[p])
  BY <1>3 DEF Handles, At, Handling
<1>5. to = "finish" => Shown(p[1], source[p])
  BY <1>3 DEF Handles, At
<1>6. pc'[p] # "prepare"
  BY <1>3
<1> QED BY <1>2, <1>3, <1>4, <1>5, <1>6 DEF Handles, At, Handling, Shown, Ended

LEMMA GenerateHandles ==
  ASSUME IInv, Places, Launches, NEW p \in Generators, Handles(p), GenerateSteps(p)
  PROVE  Handles(p)'
<1>1. /\ p \in Procs /\ pc \in [Procs -> Labels] /\ after \in [Procs -> Labels]
      /\ source \in [Procs -> Sources \cup {"none"}]
      /\ todo \in [Procs -> SUBSET (Sources \cup Groups)]
      /\ published \in [Refreshes -> SUBSET Sources] /\ p[1] \in Refreshes
      /\ passed \in [Refreshes -> SUBSET Sources]
  BY Names, Tables
<1>2. UNCHANGED run /\ (UNCHANGED <<published, passed>> \/ Publish(p))
  BY GenerateFrame
<1>3. CASE Prepare(p)
  <2>1. PICK items \in SUBSET SourcesOf(p[2]) :
          todo'[p] = items /\ pc'[p] \in {"off", "claim"}
    BY <1>1, <1>3 DEF Prepare, Goto
  <2>2. p \in Runs /\ run[p] \notin {"none", "active"}
    BY <1>3 DEF Prepare, Handles
  <2>3. \A s \in items : s \in Sources /\ run[<<p[1], GroupOf[s]>>] \notin {"none", "active"}
    BY <2>2, Names DEF SourcesOf
  <2> QED BY <1>2, <2>1, <2>3 DEF Handles, At, Handling, Ended
<1>4. ASSUME NEW s \in Sources, Claim(p, s) PROVE Handles(p)'
  <2>1. pc[p] = "claim" /\ s \in todo[p] /\ todo'[p] \subseteq todo[p]
    BY <1>1, <1>4 DEF Claim, Advance
  <2>2. \/ pc'[p] = "claimed" /\ source'[p] = s
        \/ pc'[p] \in {"off", "claim"}
    BY <1>1, <1>4 DEF Claim, Advance, NextItem, Goto
  <2> QED BY <1>2, <2>1, <2>2 DEF Handles, At, Handling, Ended
<1>5. CASE Generate(p)
  <2>1. pc[p] = "generate" /\ todo'[p] \subseteq todo[p]
    BY <1>1, <1>5 DEF Generate, Advance
  <2>2. \/ pc'[p] \in {"publish", "failing"} /\ source'[p] = source[p]
        \/ pc'[p] \in {"off", "claim"}
    BY <1>1, <1>5 DEF Generate, Advance, NextItem, Goto
  <2> QED BY <1>2, <2>1, <2>2 DEF Handles, At, Handling, Ended
<1>6. CASE Publish(p)
  <2>1. pc[p] = "publish" /\ UNCHANGED <<todo, source>> /\ pc'[p] \in {"published", "skipped"}
    BY <1>1, <1>6 DEF Publish, Goto, locals
  <2>2. source[p] \in published'[p[1]] \cup passed'[p[1]]
    BY <1>1, <1>6 DEF Publish
  <2> QED BY <1>2, <2>1, <2>2 DEF Handles, At, Handling, Shown, Ended
<1>7. CASE PublishFails(p)
  <2>1. pc[p] = "publish" /\ UNCHANGED <<todo, source>> /\ pc'[p] = "failing"
    BY <1>1, <1>7 DEF PublishFails, Goto, locals
  <2> QED BY <1>2, <2>1 DEF Handles, At, Handling, Ended
<1>8. CASE MarkGenerating(p)
  BY <1>8, MarkHandles DEF MarkGenerating, Handling
<1>9. CASE MarkPublished(p) \/ MarkSkipped(p)
  BY <1>9, MarkHandles DEF MarkPublished, MarkSkipped, Handling
<1>10. CASE MarkFailed(p)
  BY <1>10, MarkHandles DEF MarkFailed, NextItem, Handling
<1>11. CASE FailOutput(p)
  <2>1. /\ pc[p] = "failing" /\ UNCHANGED source /\ pc'[p] = "failed"
        /\ todo'[p] \subseteq todo[p]
    BY <1>1, <1>11 DEF FailOutput, CloseOutput, Goto
  <2> QED BY <1>2, <2>1 DEF Handles, At, Handling, Ended
<1>12. CASE FinishOutput(p)
  <2>1. /\ pc[p] = "finish" /\ pc'[p] \in {"off", "claim"}
        /\ todo'[p] \subseteq todo[p]
    BY <1>1, <1>12 DEF FinishOutput, CloseOutput, Advance, NextItem, Goto
  <2> QED BY <1>2, <2>1 DEF Handles, At, Handling, Ended
<1> QED BY <1>3, <1>4, <1>5, <1>6, <1>7, <1>8, <1>9, <1>10, <1>11, <1>12 DEF GenerateSteps

LEMMA RollupHandles ==
  ASSUME IInv, Places, Routed, NEW p \in Generators, Handles(p), RollupSteps(p)
  PROVE  Handles(p)'
<1>1. p \in Procs /\ pc \in [Procs -> Labels] /\ after \in [Procs -> Labels]
  BY Names, Tables
<1>2. UNCHANGED <<source, todo, run, published, passed>>
  BY <1>1, RollupFrame DEF history
<1>2a. pc'[p] # "prepare"
  BY <1>1 DEF RollupSteps, Tally, TallyRequired, Settle, Goto, Routed, End
<1>3. \A label \in Handling : At(p, label)' => At(p, label)
  <2>1. CASE Tally(p)
    BY <1>1, <2>1 DEF Tally, Goto, At, Handling
  <2>2. CASE TallyRequired(p)
    BY <1>1, <2>2 DEF TallyRequired, Goto, At, Handling
  <2>3. CASE Settle(p)
    BY <1>1, <2>3 DEF Settle, Goto, At, Handling, Routed
  <2> QED BY <2>1, <2>2, <2>3 DEF RollupSteps
<1>4. {"published", "skipped", "finish"} \subseteq Handling
  BY DEF Handling
<1> HIDE DEF Handling
<1>5. (\E label \in Handling : At(p, label)') =>
        source[p] \in Sources /\ Ended(p[1], source[p])
  BY <1>3 DEF Handles
<1>6. At(p, "published")' \/ At(p, "skipped")' \/ At(p, "finish")' => Shown(p[1], source[p])
  BY <1>3, <1>4 DEF Handles
<1> QED BY <1>2, <1>2a, <1>5, <1>6 DEF Handles, Shown, Handling, Ended

LEMMA HandledNext ==
  ASSUME IInv, Places, Launches, Routed, Outputs, Handled, [Next]_vars
  PROVE  Handled'
<1> SUFFICES ASSUME NEW p \in Generators PROVE Handles(p)'
  BY DEF Handled
<1>1. Handles(p) /\ p \in Procs /\ p[1] \in Refreshes /\ pc \in [Procs -> Labels]
        /\ todo \in [Procs -> SUBSET (Sources \cup Groups)]
  BY Names, Tables DEF Handled
<1>2. ASSUME NEW q \in Procs, ProcessSteps(q) PROVE Handles(p)'
  <2>1. CASE q # p
    BY <1>1, <1>2, <2>1, OwnSteps, HandlesKept DEF Local
  <2>2. CASE q = p
    <3>1. GenerateSteps(p) \/ RollupSteps(p)
      BY <1>2, <2>2, Names DEF ProcessSteps
    <3> QED BY <1>1, <3>1, GenerateHandles, RollupHandles
  <2> QED BY <2>1, <2>2
<1>3. ASSUME NEW q \in Runs, EndRun(q) PROVE Handles(p)'
  <2>1. UNCHANGED <<after, source, todo, published, passed>>
    BY <1>3 DEF EndRun, locals, history
  <2>2. CASE q # p
    BY <1>1, <1>3, <2>1, <2>2, HandlesKept DEF EndRun, Goto
  <2>3. CASE q = p
    <3>1. /\ pc'[p] = "prepare" /\ run'[p] \notin {"none", "active"}
          /\ \A r \in Runs : run[r] \notin {"none", "active"} => run'[r] \notin {"none", "active"}
      BY <1>1, <1>3, <2>3, Tables DEF EndRun, Goto
    <3>2. \A s \in todo[p] : s \in Sources /\ run'[<<p[1], GroupOf[s]>>] \notin {"none", "active"}
      BY <1>1, <3>1, GroupRun DEF Handles, Ended
    <3> QED BY <1>3, <2>1, <2>3, <3>1, <3>2 DEF Handles, At, Handling, Ended
  <2> QED BY <2>2, <2>3
<1>4. ASSUME NEW q \in Generators, NEW f \in Refreshes, NEW s \in Sources,
             q = <<f, s, upsets + 1>>, RetryOutput(f, s)
      PROVE  Handles(p)'
  <2>1. UNCHANGED <<after, source, run, published, passed>>
    BY <1>4 DEF RetryOutput
  <2>2. CASE q # p
    BY <1>1, <1>4, <2>1, <2>2, HandlesKept DEF RetryOutput, Goto
  <2>3. CASE q = p
    <3>1. pc'[p] = "claim" /\ todo'[p] = {s} /\ p[1] = f
      BY <1>1, <1>4, <2>3 DEF RetryOutput, Goto
    <3>2. Ended(f, s)
      BY <1>4 DEF RetryOutput, Outputs
    <3> QED BY <1>1, <2>1, <3>1, <3>2 DEF Handles, At, Handling, Ended
  <2> QED BY <2>2, <2>3
<1>5. ASSUME NEW c \in Cancels, NEW f \in Refreshes,
             BeginCancel(c, f) \/ \E s \in Sources : CancelOutput(c, f, s)
      PROVE  Handles(p)'
  <2>1. c # p /\ source \in [Procs -> Sources \cup {"none"}]
    BY Names, Tables
  <2>2. UNCHANGED <<pc[p], source[p], after[p], todo[p]>>
    BY <1>1, <1>5, <2>1 DEF BeginCancel, CancelOutput, Goto
  <2> QED BY <1>1, <2>2, HandlesKept
<1>6. CASE (\E f \in Refreshes : TimePasses(f))
             \/ UNCHANGED vars
  <2>1. UNCHANGED <<pc, source, todo, after>>
    BY <1>6 DEF TimePasses, vars, locals
  <2> QED BY <1>1, <2>1, HandlesKept
<1>7. CASE Restart
  <2>1. pc'[p] = "off" \/ (pc'[p] = "idle" /\ pc[p] = "idle")
    BY <1>1, <1>7 DEF Restart, End
  <2>2. todo'[p] = {} /\ UNCHANGED run
    BY <1>1, <1>7 DEF Restart, database
  <2> QED BY <1>1, <2>1, <2>2 DEF Handles, At, Handling
<1> QED BY <1>2, <1>3, <1>4, <1>5, <1>6, <1>7, NextCases DEF Begins

-----------------------------------------------------------------------------
(* Outputs, plans and rows.                                                *)

LEMMA OutputMoves ==
  ASSUME IInv, Places, Handled, Outputs, [Next]_vars, NEW f \in Refreshes, NEW s \in Sources
  PROVE  \/ output'[f][s] = output[f][s]
         \/ /\ Ended(f, s)
            /\ output'[f][s] = "success" => Shown(f, s)
<1> DEFINE Moves == \/ output'[f][s] = output[f][s]
                    \/ /\ Ended(f, s)
                       /\ output'[f][s] = "success" => Shown(f, s)
<1>1. output \in [Refreshes -> [Sources -> OutputStatus]]
  BY Tables
<1>2. ASSUME NEW p \in Generators, NEW u \in SourcesOf(p[2]), pc[p] = "prepare"
      PROVE  Ended(p[1], u)
  BY <1>2, Names DEF Handled, Handles, SourcesOf, Ended
<1>3. ASSUME NEW p \in Generators, GenerateSteps(p) PROVE Moves
  <2>1. Handles(p)
    BY DEF Handled
  <2>2. CASE UNCHANGED output
    BY <2>2
  <2>3. CASE Prepare(p)
    <3>1. PICK items \in SUBSET SourcesOf(p[2]) :
            output' = [output EXCEPT ![p[1]] =
                         [u \in Sources |-> IF u \in items THEN "pending" ELSE output[p[1]][u]]]
      BY <2>3, <1>1, Names DEF Prepare
    <3>2. pc[p] = "prepare"
      BY <2>3 DEF Prepare
    <3> QED BY <1>1, <1>2, <3>1, <3>2
  <2>4. ASSUME NEW u \in Sources, Claim(p, u) PROVE Moves
    <3>1. UNCHANGED output \/ output' = [output EXCEPT ![p[1]][u] = "generating"]
      BY <2>4 DEF Claim
    <3>2. Ended(p[1], u)
      BY <2>1, <2>4 DEF Claim, Handles
    <3> QED BY ONLY <1>1, <3>1, <3>2
  <2>5. ASSUME NEW from \in {"finish", "failing"}, NEW status, CloseOutput(p, from, status),
               from = "finish" \/ status # "success"
        PROVE  Moves
    <3>1. \/ output' = [output EXCEPT ![p[1]][source[p]] = status]
          \/ output' = [output EXCEPT ![p[1]][source[p]] = "cancelled"]
      BY <2>5 DEF CloseOutput
    <3>2. /\ Ended(p[1], source[p])
          /\ from = "finish" => Shown(p[1], source[p])
      BY <2>1, <2>5 DEF CloseOutput, Handles, At, Handling
    <3> QED BY ONLY <1>1, <2>5, <3>1, <3>2
  <2>6. CASE MarkGenerating(p) \/ MarkPublished(p) \/ MarkSkipped(p) \/ MarkFailed(p)
               \/ Generate(p) \/ Publish(p) \/ PublishFails(p)
    BY <2>2, <2>6 DEF MarkGenerating, MarkPublished, MarkSkipped, MarkFailed, Mark, Generate,
       Publish, PublishFails, database
  <2> QED BY <1>3, <2>3, <2>4, <2>5, <2>6 DEF GenerateSteps, FailOutput, FinishOutput
<1>4. ASSUME NEW c \in Cancels, CancelSteps(c) PROVE Moves
  <2>1. CASE UNCHANGED output
    BY <2>1
  <2>2. CASE CancelOutputs(c)
    <3>1. pc[c] \notin Resting
      BY <2>2 DEF CancelOutputs, Resting
    <3>2. about[c] \in Refreshes
      BY <3>1, Working, Names
    <3>3. CASE ~UNCHANGED output
      <4>1. output'[f][s] \in {output[f][s], "cancelled"}
              /\ (output[f][s] \in {"pending", "generating"} \/ output'[f][s] = output[f][s])
        <5>1. output' = [output EXCEPT ![about[c]] =
                           [u \in Sources |->
                              IF /\ u \in linked[about[c]] /\ row[about[c]][u] \in Live
                                 /\ output[about[c]][u] \in {"pending", "generating"}
                                THEN "cancelled" ELSE output[about[c]][u]]]
          BY <1>1, <2>2, <3>2, <3>3 DEF CancelOutputs
        <5> QED BY ONLY <1>1, <3>2, <5>1, f \in Refreshes, s \in Sources
      <4> QED BY <4>1 DEF Outputs
    <3> QED BY <2>1, <3>3
  <2> QED BY <1>4, <2>1, <2>2
    DEF CancelSteps, CollectRuns, CancelRows, CancelRun, CancelRefresh, MarkCancelled, Mark,
        database
<1>5. ASSUME NEW p \in Procs, ProcessSteps(p) PROVE Moves
  BY <1>3, <1>4, <1>5, StartFrame, ReconcileFrame, RollupFrame DEF ProcessSteps
<1>6. ASSUME NEW p \in Generators, Begins(p) PROVE Moves
  <2>1. ASSUME NEW e \in Refreshes, NEW u \in Sources, RetryOutput(e, u) PROVE Moves
    BY <1>1, <2>1 DEF RetryOutput, Outputs
  <2>2. CASE EndRun(p)
    BY <2>2 DEF EndRun
  <2> QED BY <1>6, <2>1, <2>2 DEF Begins
<1>7. ASSUME NEW c \in Cancels, NEW e \in Refreshes, NEW u \in Sources, CancelOutput(c, e, u)
      PROVE  Moves
  BY <1>1, <1>7 DEF CancelOutput, Outputs
<1>8. CASE (\E c \in Cancels, e \in Refreshes : BeginCancel(c, e))
             \/ (\E e \in Refreshes : TimePasses(e)) \/ Restart \/ UNCHANGED vars
  <2>1. UNCHANGED output
    BY <1>8 DEF BeginCancel, TimePasses, Restart, vars, database
  <2> QED BY <2>1
<1> QED BY <1>5, <1>6, <1>7, <1>8, NextCases

LEMMA OutputsNext ==
  ASSUME IInv, Places, Launches, Handled, Outputs, [Next]_vars
  PROVE  Outputs'
<1> SUFFICES ASSUME NEW f \in Refreshes, NEW s \in Sources
    PROVE  /\ output'[f][s] # "none" => Ended(f, s)'
           /\ output'[f][s] = "success" => Shown(f, s)'
  BY DEF Outputs
<1>1. (Ended(f, s) => Ended(f, s)') /\ (Shown(f, s) => Shown(f, s)')
  BY StaysEnded
<1> QED BY <1>1, OutputMoves DEF Outputs

LEMMA DroppedNext ==
  ASSUME IInv, Places, Launches, Routed, Outputs, Dropped, [Next]_vars
  PROVE  Dropped'
<1> SUFFICES ASSUME NEW c \in Cancels, pc'[c] = "dropped"
    PROVE  source'[c] \in Sources /\ Ended(about[c], source[c])'
  BY DEF Dropped
<1>1. c \in Procs /\ pc \in [Procs -> Labels] /\ after \in [Procs -> Labels]
        /\ about \in [Procs -> Refreshes \cup {"none"}]
        /\ source \in [Procs -> Sources \cup {"none"}]
  BY Names, Tables
<1>2. ASSUME pc[c] = "dropped", UNCHANGED <<about[c], source[c]>>
      PROVE  source'[c] \in Sources /\ Ended(about[c], source[c])'
  <2>1. about[c] \in Refreshes
    BY <1>1, <1>2, Working DEF Resting
  <2>2. source[c] \in Sources /\ Ended(about[c], source[c])
    BY <1>2 DEF Dropped
  <2>3. (run[<<about[c], GroupOf[source[c]]>>] \notin {"none", "active"})'
    BY <1>2, <2>1, <2>2, Lasting, GroupRun DEF Ended, RunsOn
  <2> QED BY <1>2, <2>2, <2>3 DEF Ended
<1>3. ASSUME NEW p \in Procs, ProcessSteps(p)
      PROVE  source'[c] \in Sources /\ Ended(about[c], source[c])'
  <2>1. CASE p # c
    <3>1. UNCHANGED Local(c)
      BY <1>1, <1>3, <2>1, OwnSteps
    <3> QED BY <1>2, <3>1 DEF Local
  <2>2. CASE p = c
    <3>1. CancelSteps(c) \/ RollupSteps(c)
      BY <1>3, <2>2, Names, RefreshAssumption DEF ProcessSteps, RefreshAssumption
    <3>2. CASE RollupSteps(c)
      BY <1>1, <3>2 DEF RollupSteps, Tally, TallyRequired, Settle, Goto, Routed, End
    <3>3. CASE CancelSteps(c)
      <4>1. ASSUME MarkCancelled(c) PROVE FALSE
        <5>1. pc'[c] \in {"tally", "off", "done"}
          BY <1>1, <4>1, MarkGoes, EndType DEF MarkCancelled
        <5> QED BY <5>1
      <4>2. ASSUME CollectRuns(c) \/ CancelOutputs(c) \/ CancelRows(c) \/ CancelRefresh(c)
            PROVE  FALSE
        BY <1>1, <4>2 DEF CollectRuns, CancelOutputs, CancelRows, CancelRefresh, Goto
      <4>3. ASSUME NEW g \in Groups, CancelRun(c, g) PROVE FALSE
        BY <4>3 DEF CancelRun
      <4> QED BY <3>3, <4>1, <4>2, <4>3 DEF CancelSteps
    <3> QED BY <3>1, <3>2, <3>3
  <2> QED BY <2>1, <2>2
<1>4. ASSUME NEW p \in Generators, Begins(p)
      PROVE  source'[c] \in Sources /\ Ended(about[c], source[c])'
  <2>1. /\ UNCHANGED <<about, source>>
        /\ \E to \in Labels : pc' = [pc EXCEPT ![p] = to]
    BY <1>4 DEF Begins, EndRun, RetryOutput, locals, Goto, Labels
  <2>2. c # p
    BY Names
  <2> QED BY <1>1, <1>2, <2>1, <2>2
<1>5. ASSUME NEW d \in Cancels, NEW f \in Refreshes, BeginCancel(d, f)
      PROVE  source'[c] \in Sources /\ Ended(about[c], source[c])'
  <2>1. c # d /\ pc[c] = "dropped" /\ UNCHANGED <<about[c], source[c]>>
    BY <1>1, <1>5 DEF BeginCancel, Goto
  <2> QED BY <1>2, <2>1
<1>6. ASSUME NEW d \in Cancels, NEW f \in Refreshes, NEW s \in Sources, CancelOutput(d, f, s)
      PROVE  source'[c] \in Sources /\ Ended(about[c], source[c])'
  <2>1. CASE c # d
    BY <1>1, <1>2, <1>6, <2>1 DEF CancelOutput, Goto
  <2>2. CASE c = d
    <3>1. about'[c] = f /\ source'[c] = s /\ Ended(f, s)
      BY <1>1, <1>6, <2>2 DEF CancelOutput, Outputs
    <3>2. Ended(f, s)'
      BY <3>1, StaysEnded
    <3> QED BY <3>1, <3>2 DEF Ended
  <2> QED BY <2>1, <2>2
<1>7. CASE (\E f \in Refreshes : TimePasses(f))
             \/ UNCHANGED vars
  <2>1. UNCHANGED <<pc, about, source>>
    BY <1>7 DEF TimePasses, vars, locals
  <2> QED BY <1>2, <2>1
<1>8. ASSUME Restart PROVE FALSE
  BY <1>1, <1>8, EndType DEF Restart
<1> QED BY <1>3, <1>4, <1>5, <1>6, <1>7, <1>8, NextCases

\* A reconciliation makes of the run and its output what they say.
LEMMA StatusTells ==
  ASSUME Outputs, NEW f \in Refreshes, NEW s \in Sources, NEW status \in StatusFromRun(f, s),
         status # "none"
  PROVE  Ended(f, s) /\ (status = "success" => Shown(f, s))
BY DEF StatusFromRun, Outputs, Ended

\* Only a reconciliation plans rows.
LEMMA Planning ==
  ASSUME IInv, Places, Routed, NEW p \in Procs, ProcessSteps(p), pc'[p] = "write"
  PROVE  ReadRows(p) \/ \E s \in Sources : WriteRow(p, s)
<1>1. pc \in [Procs -> Labels] /\ after \in [Procs -> Labels]
  BY Tables
<1>2. ASSUME StartSteps(p) PROVE FALSE
  <2>1. CASE Start(p) \/ CheckFirst(p) \/ AllLaunched(p)
    BY <1>1, <2>1 DEF Start, CheckFirst, AllLaunched, Goto
  <2>2. CASE InsertRefresh(p)
    BY <1>1, <2>2 DEF InsertRefresh, Goto
  <2>3. CASE (\E g \in Groups : Launch(p, g)) \/ (\E s \in Sources : SaveLaunch(p, s))
    BY <1>1, <2>3 DEF Launch, SaveLaunch
  <2> QED BY <1>2, <2>1, <2>2, <2>3 DEF StartSteps
<1>3. ASSUME Reconcile(p) \/ TimeOutRows(p) PROVE FALSE
  BY <1>1, <1>3 DEF Reconcile, ReadRefresh, TimeOutRows, Goto, End
<1>4. ASSUME p \in Generators, GenerateSteps(p) PROVE FALSE
  <2>1. CASE MarkGenerating(p) \/ MarkPublished(p) \/ MarkSkipped(p) \/ MarkFailed(p)
    BY <1>1, <2>1, MarkGoes
    DEF MarkGenerating, MarkPublished, MarkSkipped, MarkFailed, NextItem
  <2>2. CASE Prepare(p) \/ Generate(p) \/ Publish(p) \/ PublishFails(p)
    BY <1>1, <2>2 DEF Prepare, Generate, Publish, PublishFails, Advance, NextItem, Goto
  <2>3. CASE (\E s \in Sources : Claim(p, s)) \/ FailOutput(p) \/ FinishOutput(p)
    BY <1>1, <2>3 DEF Claim, FailOutput, FinishOutput, Advance, NextItem, Goto
  <2> QED BY <1>4, <2>1, <2>2, <2>3 DEF GenerateSteps
<1>5. ASSUME p \in Cancels, CancelSteps(p) PROVE FALSE
  <2>1. CASE MarkCancelled(p)
    BY <1>1, <2>1, MarkGoes, EndType DEF MarkCancelled
  <2>2. CASE CollectRuns(p) \/ CancelOutputs(p) \/ CancelRows(p) \/ CancelRefresh(p)
    BY <1>1, <2>2 DEF CollectRuns, CancelOutputs, CancelRows, CancelRefresh, Goto
  <2>3. CASE \E g \in Groups : CancelRun(p, g)
    BY <2>3 DEF CancelRun
  <2> QED BY <1>5, <2>1, <2>2, <2>3 DEF CancelSteps
<1>6. ASSUME RollupSteps(p) PROVE FALSE
  BY <1>1, <1>6 DEF RollupSteps, Tally, TallyRequired, Settle, Goto, Routed, End
<1> QED BY <1>2, <1>3, <1>4, <1>5, <1>6 DEF ProcessSteps, ReconcileSteps

LEMMA PlansNext ==
  ASSUME IInv, Places, Launches, Routed, Outputs, Plans, [Next]_vars
  PROVE  Plans'
<1> SUFFICES ASSUME NEW p \in Procs, pc'[p] = "write", NEW s \in Sources
    PROVE  /\ update'[p][s] # "none" => Ended(about[p], s)'
           /\ update'[p][s] = "success" => Shown(about[p], s)'
  BY DEF Plans
<1>1. /\ pc \in [Procs -> Labels] /\ update \in [Procs -> [Sources -> RowStatus]]
      /\ about \in [Procs -> Refreshes \cup {"none"}]
  BY Tables
<1>2. ASSUME pc[p] \notin Resting, UNCHANGED about[p],
             update'[p][s] # "none" => Ended(about[p], s),
             update'[p][s] = "success" => Shown(about[p], s)
      PROVE  /\ update'[p][s] # "none" => Ended(about[p], s)'
             /\ update'[p][s] = "success" => Shown(about[p], s)'
  <2>1. about[p] \in Refreshes
    BY <1>2, Working
  <2> DEFINE f == about[p]
  <2>2. /\ Ended(f, s) => run'[<<f, GroupOf[s]>>] \notin {"none", "active"}
        /\ Shown(f, s) => s \in published'[f] \cup passed'[f]
    BY <2>1, Lasting, GroupRun DEF Ended, Shown, RunsOn, ShownOn
  <2> QED BY <1>2, <2>2 DEF Ended, Shown
<1>3. ASSUME pc[p] = "write", UNCHANGED <<about[p], update[p]>>
      PROVE  /\ update'[p][s] # "none" => Ended(about[p], s)'
             /\ update'[p][s] = "success" => Shown(about[p], s)'
  BY <1>2, <1>3 DEF Plans, Resting
<1>4. ASSUME NEW q \in Procs, ProcessSteps(q)
      PROVE  /\ update'[p][s] # "none" => Ended(about[p], s)'
             /\ update'[p][s] = "success" => Shown(about[p], s)'
  <2>1. CASE q # p
    <3>1. UNCHANGED Local(p)
      BY <1>4, <2>1, OwnSteps
    <3> QED BY <1>3, <3>1 DEF Local
  <2>2. CASE q = p /\ ReadRows(p)
    <3>1. about[p] \in Refreshes /\ pc[p] \notin Resting /\ UNCHANGED about
      <4>1. pc[p] \notin Resting
        BY <2>2 DEF ReadRows, Resting
      <4> QED BY <2>2, <4>1, Working DEF ReadRows
    <3>2. PICK next \in [Sources -> RowStatus] :
            /\ update' = [update EXCEPT ![p] = next]
            /\ next[s] # "none" => next[s] \in StatusFromRun(about[p], s)
      BY <2>2 DEF ReadRows
    <3>3. update'[p][s] = next[s]
      BY <1>1, <3>2
    <3>4. next[s] # "none" => Ended(about[p], s) /\ (next[s] = "success" => Shown(about[p], s))
      BY <3>1, <3>2, StatusTells
    <3> QED BY <1>2, <3>1, <3>3, <3>4
  <2>3. ASSUME q = p, NEW u \in Sources, WriteRow(p, u)
        PROVE  /\ update'[p][s] # "none" => Ended(about[p], s)'
               /\ update'[p][s] = "success" => Shown(about[p], s)'
    <3>1. pc[p] = "write" /\ UNCHANGED about /\ update'[p][s] \in {update[p][s], "none"}
      BY <1>1, <2>3 DEF WriteRow
    <3> QED BY <1>2, <3>1 DEF Plans, Resting
  <2> QED BY <1>4, <2>1, <2>2, <2>3, Planning
<1>5. ASSUME NEW q \in Generators, Begins(q)
      PROVE  /\ update'[p][s] # "none" => Ended(about[p], s)'
             /\ update'[p][s] = "success" => Shown(about[p], s)'
  <2>1. /\ UNCHANGED <<about, update>>
        /\ \E to \in {"prepare", "claim"} : pc' = [pc EXCEPT ![q] = to]
    BY <1>5 DEF Begins, EndRun, RetryOutput, locals, Goto
  <2>2. pc[p] = "write"
    BY <1>1, <2>1
  <2> QED BY <1>3, <2>1, <2>2
<1>6. ASSUME NEW c \in Cancels, NEW f \in Refreshes,
             BeginCancel(c, f) \/ \E u \in Sources : CancelOutput(c, f, u)
      PROVE  /\ update'[p][s] # "none" => Ended(about[p], s)'
             /\ update'[p][s] = "success" => Shown(about[p], s)'
  <2>1. /\ UNCHANGED update /\ about' = [about EXCEPT ![c] = f]
        /\ \E to \in {"collect", "dropped"} : pc' = [pc EXCEPT ![c] = to]
    BY <1>6 DEF BeginCancel, CancelOutput, Goto
  <2>2. pc[p] = "write" /\ UNCHANGED about[p]
    BY <1>1, <2>1
  <2> QED BY <1>3, <2>1, <2>2
<1>7. CASE (\E f \in Refreshes : TimePasses(f))
             \/ UNCHANGED vars
  <2>1. UNCHANGED <<pc, about, update>>
    BY <1>7 DEF TimePasses, vars, locals
  <2> QED BY <1>3, <2>1
<1>8. ASSUME Restart PROVE FALSE
  BY <1>1, <1>8, EndType DEF Restart
<1> QED BY <1>4, <1>5, <1>6, <1>7, <1>8, NextCases

\* A step changes a row when it inserts the refresh, for a run that has ended,
\* for a launch that failed, because of the timeout, or by a cancellation.
LEMMA RowMoves ==
  ASSUME IInv, Places, Launches, Fresh, Routed, Telling, [Next]_vars,
         NEW f \in Refreshes, NEW s \in Sources
  PROVE  \/ row'[f][s] = row[f][s]
         \/ refresh[f] = "none" /\ row'[f][s] \in {"none", "queued", "skipped"}
         \/ Ended(f, s) /\ (row'[f][s] = "success" => Shown(f, s))
         \/ /\ row'[f][s] \in Bad
            /\ \/ run[<<f, GroupOf[s]>>] = "none"
               \/ f \in overdue
               \/ \E c \in Cancels : CancelRows(c) /\ about[c] = f
<1> DEFINE Moves ==
         \/ row'[f][s] = row[f][s]
         \/ refresh[f] = "none" /\ row'[f][s] \in {"none", "queued", "skipped"}
         \/ Ended(f, s) /\ (row'[f][s] = "success" => Shown(f, s))
         \/ /\ row'[f][s] \in Bad
            /\ \/ run[<<f, GroupOf[s]>>] = "none"
               \/ f \in overdue
               \/ \E c \in Cancels : CancelRows(c) /\ about[c] = f
<1>1. /\ row \in [Refreshes -> [Sources -> RowStatus]] /\ Refreshes = Requests
      /\ update \in [Procs -> [Sources -> RowStatus]]
      /\ \A p \in Requests \cup Readers \cup Cancels : p \in Procs
  BY Tables, Names
<1>2. CASE UNCHANGED row
  BY <1>2
<1>3. ASSUME NEW h \in Requests, StartSteps(h) PROVE Moves
  <2>1. CASE InsertRefresh(h)
    <3>1. pc[h] = "insert" /\ (UNCHANGED row \/ row' = [row EXCEPT ![h] = update[h]])
      BY <2>1 DEF InsertRefresh
    <3> QED BY <1>1, <3>1 DEF Fresh
  <2>2. ASSUME NEW u \in Sources, SaveLaunch(h, u) PROVE Moves
    <3>1. \/ UNCHANGED row
          \/ owed[h][u] = "fail" /\ row' = [row EXCEPT ![h][u] = "failed"]
      BY <2>2 DEF SaveLaunch
    <3>2. CASE owed[h][u] = "fail" /\ row' = [row EXCEPT ![h][u] = "failed"]
      <4>1. run[<<h, GroupOf[u]>>] = "none"
        BY <1>1, <3>2 DEF Launches
      <4> QED BY <1>1, <3>2, <4>1 DEF Bad
    <3> QED BY <1>2, <3>1, <3>2
  <2> QED BY <1>2, <1>3, <2>1, <2>2, StartFrame
<1>4. ASSUME NEW p \in Requests \cup Readers, ReconcileSteps(p) PROVE Moves
  <2>1. CASE TimeOutRows(p)
    <3>1. about[p] \in overdue /\ about[p] \in Refreshes
      <4>1. pc[p] = "timeout"
        BY <2>1 DEF TimeOutRows
      <4> QED BY <1>1, <4>1, Working DEF Routed, Resting
    <3>2. row'[f][s] = row[f][s] \/ (f = about[p] /\ row'[f][s] = "timed_out")
      BY <1>1, <2>1, <3>1 DEF TimeOutRows
    <3> QED BY <3>1, <3>2 DEF Bad
  <2>2. ASSUME NEW u \in Sources, WriteRow(p, u) PROVE Moves
    <3>1. /\ pc[p] = "write" /\ update[p][u] # "none"
          /\ row' = [row EXCEPT ![about[p]][u] = update[p][u]]
      BY <2>2 DEF WriteRow
    <3>2. Ended(about[p], u) /\ (update[p][u] = "success" => Shown(about[p], u))
      BY <1>1, <3>1 DEF Telling, Plans
    <3> QED BY <1>1, <3>1, <3>2
  <2> QED BY <1>2, <1>4, <2>1, <2>2, ReconcileFrame
<1>5. ASSUME NEW p \in Procs, NEW from, NEW status, NEW to, Mark(p, from, status, to),
             Ended(about[p], source[p]),
             status = "success" => Shown(about[p], source[p])
      PROVE  Moves
  <2>1. UNCHANGED row \/ row' = [row EXCEPT ![about[p]][source[p]] = status]
    BY <1>5 DEF Mark
  <2>2. CASE row' = [row EXCEPT ![about[p]][source[p]] = status]
    BY ONLY <1>1, <1>5, <2>2, f \in Refreshes, s \in Sources
  <2> QED BY <1>2, <2>1, <2>2
<1>6. ASSUME NEW p \in Generators, GenerateSteps(p) PROVE Moves
  <2>1. about[p] = p[1] /\ Handles(p) /\ p \in Procs
    BY Names DEF IInv, Work, Followed, Telling, Handled
  <2>2. ASSUME pc[p] \in Handling PROVE Ended(about[p], source[p])
    BY <2>1, <2>2 DEF Handles, At, Handling
  <2>3. CASE MarkGenerating(p) \/ MarkSkipped(p) \/ MarkFailed(p)
    <3>1. Ended(about[p], source[p])
      BY <2>2, <2>3 DEF MarkGenerating, MarkSkipped, MarkFailed, Mark, Handling
    <3>2. \E from, to : \E status \in {"running", "failed"} : Mark(p, from, status, to)
      BY <2>3 DEF MarkGenerating, MarkSkipped, MarkFailed
    <3> QED BY <1>5, <2>1, <3>1, <3>2
  <2>4. CASE MarkPublished(p)
    <3>1. Ended(about[p], source[p]) /\ Shown(about[p], source[p])
      BY <2>1, <2>2, <2>4 DEF MarkPublished, Mark, Handling, Handles, At
    <3> QED BY <1>5, <2>1, <2>4, <3>1 DEF MarkPublished
  <2>5. CASE Prepare(p) \/ (\E u \in Sources : Claim(p, u)) \/ Generate(p) \/ Publish(p)
               \/ PublishFails(p) \/ FailOutput(p) \/ FinishOutput(p)
    BY <1>2, <2>5 DEF Prepare, Claim, Generate, Publish, PublishFails, FailOutput,
       FinishOutput, CloseOutput, database
  <2> QED BY <1>6, <2>3, <2>4, <2>5 DEF GenerateSteps
<1>7. ASSUME NEW c \in Cancels, CancelSteps(c) PROVE Moves
  <2>1. CASE MarkCancelled(c)
    <3>1. Ended(about[c], source[c])
      BY <2>1 DEF MarkCancelled, Mark, Telling, Dropped
    <3> QED BY <1>1, <1>5, <2>1, <3>1 DEF MarkCancelled
  <2>2. CASE CancelRows(c)
    <3>1. pc[c] \notin Resting
      BY <2>2 DEF CancelRows, Resting
    <3>2. about[c] \in Refreshes
      BY <1>1, <3>1, Working
    <3>3. row'[f][s] = row[f][s] \/ (f = about[c] /\ row'[f][s] = "cancelled")
      BY <1>1, <2>2, <3>2 DEF CancelRows
    <3> QED BY <2>2, <3>3 DEF Bad
  <2>3. CASE CollectRuns(c) \/ CancelOutputs(c) \/ CancelRefresh(c)
               \/ \E g \in Groups : CancelRun(c, g)
    BY <1>2, <2>3 DEF CollectRuns, CancelOutputs, CancelRefresh, CancelRun, database
  <2> QED BY <1>7, <2>1, <2>2, <2>3 DEF CancelSteps
<1>8. ASSUME NEW p \in Procs, ProcessSteps(p) PROVE Moves
  BY <1>2, <1>3, <1>4, <1>6, <1>7, <1>8, RollupFrame DEF ProcessSteps
<1>9. CASE (\E p \in Generators : Begins(p))
             \/ (\E c \in Cancels, e \in Refreshes :
                   BeginCancel(c, e) \/ \E u \in Sources : CancelOutput(c, e, u))
             \/ (\E e \in Refreshes : TimePasses(e)) \/ Restart \/ UNCHANGED vars
  <2>1. UNCHANGED row
    BY <1>9 DEF Begins, EndRun, RetryOutput, BeginCancel, CancelOutput, TimePasses,
       Restart, vars, database
  <2> QED BY <1>2, <2>1
<1> QED BY <1>8, <1>9, NextCases

LEMMA RowsNext ==
  ASSUME IInv, Places, Launches, Fresh, Routed, Telling, [Next]_vars
  PROVE  Rows'
<1> SUFFICES ASSUME NEW f \in Refreshes, NEW s \in Sources, row'[f][s] = "success"
    PROVE  Shown(f, s)'
  BY DEF Rows
<1>1. Shown(f, s) => Shown(f, s)'
  BY StaysEnded
<1>2. Shown(f, s)
  BY RowMoves DEF Telling, Rows, Bad
<1> QED BY <1>1, <1>2

-----------------------------------------------------------------------------
(* What a cancellation of the refresh reaches.                             *)

Under == {"outputs", "rows cancel", "runs cancel"}

\* What a step does to a cancellation that has collected its runs, or will.
LEMMA CancelMoves ==
  ASSUME IInv, Places, Routed, [Next]_vars, ~Restart, NEW c \in Cancels
  PROVE  \/ UNCHANGED <<pc[c], about[c], todo[c]>>
         \/ pc[c] \notin Under /\ pc'[c] \notin Under
         \/ CollectRuns(c) \/ CancelOutputs(c) \/ CancelRows(c) \/ CancelRefresh(c)
         \/ \E g \in Groups : CancelRun(c, g)
<1> DEFINE Moves ==
         \/ UNCHANGED <<pc[c], about[c], todo[c]>>
         \/ pc[c] \notin Under /\ pc'[c] \notin Under
         \/ CollectRuns(c) \/ CancelOutputs(c) \/ CancelRows(c) \/ CancelRefresh(c)
         \/ \E g \in Groups : CancelRun(c, g)
<1>1. c \in Procs /\ c \notin Generators /\ c \notin Requests \cup Readers
        /\ pc \in [Procs -> Labels] /\ after \in [Procs -> Labels]
        /\ about \in [Procs -> Refreshes \cup {"none"}]
        /\ todo \in [Procs -> SUBSET (Sources \cup Groups)]
  BY Tables, Names, RefreshAssumption DEF RefreshAssumption
<1>2. ASSUME NEW p \in Procs, ProcessSteps(p) PROVE Moves
  <2>1. CASE p # c
    BY <1>1, <1>2, <2>1, OwnSteps DEF Local
  <2>2. CASE p = c
    <3>1. CancelSteps(c) \/ RollupSteps(c)
      BY <1>1, <1>2, <2>2 DEF ProcessSteps
    <3>2. CASE RollupSteps(c)
      BY <1>1, <3>2 DEF RollupSteps, Tally, TallyRequired, Settle, Goto, Routed, End, Under
    <3>3. CASE MarkCancelled(c)
      <4>1. pc'[c] \in {"tally", "off", "done"}
        BY <1>1, <3>3, MarkGoes, EndType DEF MarkCancelled
      <4> QED BY <3>3, <4>1 DEF MarkCancelled, Mark, Under
    <3> QED BY <3>1, <3>2, <3>3 DEF CancelSteps
  <2> QED BY <2>1, <2>2
<1>3. ASSUME NEW p \in Generators, Begins(p) PROVE Moves
  <2>1. p \in Procs /\ p # c /\ UNCHANGED about
        /\ \E to \in {"prepare", "claim"} : pc' = [pc EXCEPT ![p] = to]
    BY <1>1, <1>3, Names DEF Begins, EndRun, RetryOutput, Goto, locals
  <2>2. UNCHANGED todo \/ \E v : todo' = [todo EXCEPT ![p] = v]
    BY <1>3 DEF Begins, EndRun, RetryOutput, locals
  <2> QED BY <1>1, <2>1, <2>2
<1>4. ASSUME NEW d \in Cancels, NEW f \in Refreshes,
             BeginCancel(d, f) \/ \E s \in Sources : CancelOutput(d, f, s)
      PROVE  Moves
  <2>1. /\ UNCHANGED todo /\ pc[d] = "idle" /\ about' = [about EXCEPT ![d] = f]
        /\ \E to \in {"collect", "dropped"} : pc' = [pc EXCEPT ![d] = to]
    BY <1>4 DEF BeginCancel, CancelOutput, Goto
  <2>2. CASE d # c
    BY <1>1, <2>1, <2>2
  <2>3. CASE d = c
    BY <1>1, <2>1, <2>3 DEF Under
  <2> QED BY <2>2, <2>3
<1>5. CASE (\E f \in Refreshes : TimePasses(f))
             \/ UNCHANGED vars
  BY <1>5 DEF TimePasses, vars, locals
<1> QED BY <1>2, <1>3, <1>4, <1>5, NextCases

LEMMA ClosingBegins ==
  ASSUME IInv, Places, Routed, [Next]_vars, NEW f \in Refreshes, Closing(f)'
  PROVE  Closing(f) \/ \E c \in Cancels : CancelRows(c) /\ about[c] = f
<1>1. /\ refresh \in [Refreshes -> RefreshStatus \cup {"none"}] /\ Refreshes = Requests
      /\ pc \in [Procs -> Labels]
  BY Tables, Names
<1>2. CASE refresh'[f] = "cancelled" /\ refresh[f] # "cancelled"
  <2>1. ASSUME NEW h \in Requests, InsertRefresh(h) PROVE FALSE
    BY <1>1, <1>2, <2>1 DEF InsertRefresh
  <2>2. ASSUME NEW p \in Procs, Settle(p) PROVE FALSE
    BY <1>1, <1>2, <2>2 DEF Settle, Routed
  <2>3. ASSUME NEW c \in Cancels, CancelRefresh(c) PROVE Closing(f)
    BY <1>1, <1>2, <2>3 DEF CancelRefresh, Closing
  <2>4. ~UNCHANGED refresh
    BY <1>2
  <2>5. ASSUME NEW p \in Procs, ProcessSteps(p)
        PROVE  \/ \E h \in Requests : InsertRefresh(h)
               \/ \E q \in Procs : Settle(q)
               \/ \E c \in Cancels : CancelRefresh(c)
    <3>1. ASSUME p \in Requests, StartSteps(p) PROVE InsertRefresh(p)
      BY <2>4, <3>1 DEF StartSteps, Start, CheckFirst, AllLaunched, Launch, SaveLaunch, database
    <3>2. ASSUME p \in Cancels, CancelSteps(p) PROVE CancelRefresh(p)
      BY <2>4, <3>2 DEF CancelSteps, CollectRuns, CancelOutputs, CancelRows, CancelRun,
         MarkCancelled, Mark, database
    <3>3. ASSUME RollupSteps(p) PROVE Settle(p)
      BY <2>4, <3>3 DEF RollupSteps, Tally, TallyRequired, database
    <3> QED BY <2>4, <2>5, <3>1, <3>2, <3>3, ReconcileFrame, GenerateFrame DEF ProcessSteps
  <2>6. ASSUME NEW p \in Procs, ProcessSteps(p) PROVE Closing(f)
    BY <2>1, <2>2, <2>3, <2>5, <2>6
  <2>7. ASSUME (\E p \in Generators : Begins(p))
                 \/ (\E c \in Cancels, e \in Refreshes :
                       BeginCancel(c, e) \/ \E u \in Sources : CancelOutput(c, e, u))
                 \/ (\E e \in Refreshes : TimePasses(e)) \/ Restart \/ UNCHANGED vars
        PROVE  FALSE
    BY <2>4, <2>7 DEF Begins, EndRun, RetryOutput, BeginCancel, CancelOutput, TimePasses,
       Restart, vars, database
  <2> QED BY <2>6, <2>7, NextCases
<1>3. ASSUME NEW c \in Cancels, pc'[c] = "runs cancel", about'[c] = f
      PROVE  Closing(f) \/ (CancelRows(c) /\ about[c] = f)
  <2>1. c \in Procs
    BY Names
  <2>2. ASSUME Restart PROVE FALSE
    <3>1. pc'[c] = "idle" \/ pc'[c] = End(c)
      BY <2>1, <2>2 DEF Restart
    <3> QED BY <1>3, <3>1 DEF End
  <2>3. ASSUME CollectRuns(c) \/ CancelOutputs(c) \/ CancelRefresh(c) PROVE FALSE
    BY <1>1, <1>3, <2>1, <2>3 DEF CollectRuns, CancelOutputs, CancelRefresh, Goto
  <2>4. CASE (\E g \in Groups : CancelRun(c, g)) \/ UNCHANGED <<pc[c], about[c], todo[c]>>
    BY <1>3, <2>4 DEF CancelRun, Closing
  <2>5. CASE CancelRows(c)
    BY <1>3, <2>5 DEF CancelRows, locals
  <2>6. CASE pc[c] \notin Under /\ pc'[c] \notin Under
    BY <1>3, <2>6 DEF Under
  <2> QED BY <2>2, <2>3, <2>4, <2>5, <2>6, CancelMoves
<1> QED BY <1>2, <1>3 DEF Closing

LEMMA ClosedNext ==
  ASSUME IInv, Places, Launches, Fresh, Routed, Telling, Closed, [Next]_vars
  PROVE  Closed'
<1> SUFFICES ASSUME NEW f \in Refreshes, Closing(f)', NEW s \in Sources, row'[f][s] \in Live
    PROVE  Ended(f, s)'
  BY DEF Closed
<1>1. Ended(f, s) => Ended(f, s)'
  BY StaysEnded
<1>2. ASSUME NEW c \in Cancels, CancelRows(c), about[c] = f PROVE FALSE
  <2>1. row'[f] = [u \in Sources |-> IF row[f][u] \in Live THEN "cancelled" ELSE row[f][u]]
    BY <1>2, Tables DEF CancelRows
  <2> QED BY <2>1 DEF Live
<1>3. CASE Closing(f)
  <2>1. refresh[f] # "none"
    <3>1. ASSUME NEW c \in Cancels, pc[c] = "runs cancel", about[c] = f
          PROVE  refresh[f] # "none"
      BY <3>1, Working, Names DEF Resting
    <3> QED BY <1>3, <3>1 DEF Closing
  <2>2. Live \cap Bad = {}
    BY DEF Live, Bad
  <2>3. row[f][s] \in Live => Ended(f, s)
    BY <1>3 DEF Closed
  <2>4. Ended(f, s)
    <3>1. \/ row'[f][s] = row[f][s]
          \/ Ended(f, s) \/ row'[f][s] \in Bad
      BY <2>1, RowMoves
    <3> QED BY <2>2, <2>3, <3>1
  <2> QED BY <1>1, <2>4
<1> QED BY <1>2, <1>3, ClosingBegins

LEMMA LinkedStays ==
  ASSUME IInv, Places, [Next]_vars, NEW f \in Refreshes
  PROVE  linked[f] \subseteq linked'[f]
<1>1. ASSUME NEW h \in Requests, NEW s \in Sources, SaveLaunch(h, s)
      PROVE  linked[f] \subseteq linked'[f]
  <2>1. linked' = linked \/ linked' = [linked EXCEPT ![h] = linked[h] \cup {s}]
    BY <1>1 DEF SaveLaunch
  <2>2. linked \in [Refreshes -> SUBSET Sources]
    BY Tables
  <2> QED BY ONLY <2>1, <2>2, f \in Refreshes
<1>2. ASSUME NEW p \in Procs, ProcessSteps(p) PROVE linked[f] \subseteq linked'[f]
  BY <1>1, <1>2, StartFrame, ReconcileFrame, GenerateFrame, CancelFrame, RollupFrame
  DEF ProcessSteps
<1>3. CASE (\E p \in Generators : Begins(p))
             \/ (\E c \in Cancels, e \in Refreshes :
                   BeginCancel(c, e) \/ \E u \in Sources : CancelOutput(c, e, u))
             \/ (\E e \in Refreshes : TimePasses(e)) \/ Restart \/ UNCHANGED vars
  BY <1>3 DEF Begins, EndRun, RetryOutput, BeginCancel, CancelOutput, TimePasses,
     Restart, vars, database
<1> QED BY <1>2, <1>3, NextCases

\* A run whose cancellation is at hand stays so until it is cancelled.
LEMMA StoppingStays ==
  ASSUME IInv, Places, Routed, [Next]_vars, ~Restart, NEW p \in Runs, Stopping(p),
         run'[p] = "active", p \in early'
  PROVE  Stopping(p)'
<1>1. PICK c \in Cancels : about[c] = p[1] /\ pc[c] = "runs cancel" /\ p[2] \in todo[c]
  BY DEF Stopping
<1>2. CASE UNCHANGED <<pc[c], about[c], todo[c]>>
  BY <1>1, <1>2 DEF Stopping
<1>3. ASSUME NEW g \in Groups, CancelRun(c, g) PROVE Stopping(p)'
  <2>1. c \in Procs /\ p = <<p[1], p[2]>>
    BY Names
  <2>2. g # p[2]
    <3>1. CASE run' = [run EXCEPT ![<<about[c], g>>] = IF @ = "active" THEN "cancelled" ELSE @]
      BY <1>1, <2>1, <3>1, Tables
    <3>2. CASE early' = early \ {<<about[c], g>>}
      BY <1>1, <2>1, <3>2
    <3> QED BY <1>3, <3>1, <3>2 DEF CancelRun
  <2>3. p[2] \in todo'[c] /\ UNCHANGED <<pc, about>>
    BY <1>1, <1>3, <2>1, <2>2, Tables DEF CancelRun
  <2> QED BY <1>1, <2>3 DEF Stopping
<1>4. ASSUME CollectRuns(c) \/ CancelOutputs(c) \/ CancelRows(c) \/ CancelRefresh(c)
      PROVE  FALSE
  BY <1>1, <1>4 DEF CollectRuns, CancelOutputs, CancelRows, CancelRefresh
<1> QED BY <1>1, <1>2, <1>3, <1>4, CancelMoves DEF Under

LEMMA InSightStays ==
  ASSUME IInv, Places, Launches, Fresh, Routed, Telling, [Next]_vars, ~Restart,
         NEW p \in Runs, InSight(p), run[p] = "active", p[1] \notin overdue
  PROVE  InSight(p)' \/ Stopping(p)'
<1> DEFINE f == p[1]
<1>1. f \in Refreshes /\ p = <<f, p[2]>>
  BY Names
<1>2. PICK s \in linked[f] : GroupOf[s] = p[2] /\ row[f][s] \in Live
  BY DEF InSight
<1>3. s \in Sources /\ s \in linked'[f]
  BY <1>1, <1>2, LinkedStays, Tables
<1>4. ASSUME NEW c \in Cancels, CancelRows(c), about[c] = f PROVE Stopping(p)'
  <2>1. c \in Procs /\ pc'[c] = "runs cancel" /\ UNCHANGED <<about, todo>>
        /\ pc[c] = "rows cancel"
    BY <1>4, Names, Tables DEF CancelRows, Goto, locals
  <2>2. p[2] \in todo[c]
    BY <1>4, <2>1 DEF InSight
  <2> QED BY <1>4, <2>1, <2>2 DEF Stopping
<1>5. CASE ~\E c \in Cancels : CancelRows(c) /\ about[c] = f
  <2>1. row'[f][s] \in Live
    <3>1. ~Ended(f, s) /\ run[<<f, GroupOf[s]>>] # "none"
      BY <1>1, <1>2 DEF Ended
    <3>2. refresh[f] # "none"
      BY <1>1 DEF IInv, Work, Followed, Existing
    <3> QED BY <1>1, <1>2, <1>3, <1>5, <3>1, <3>2, RowMoves
  <2>2. ASSUME NEW c \in Cancels, about'[c] = f, pc'[c] \in {"outputs", "rows cancel"}
        PROVE  p[2] \in todo'[c]
    <3>1. c \in Procs /\ pc \in [Procs -> Labels]
          /\ todo \in [Procs -> SUBSET (Sources \cup Groups)]
      BY Names, Tables
    <3>2. CASE UNCHANGED <<pc[c], about[c], todo[c]>>
      BY <2>2, <3>2 DEF InSight
    <3>3. CASE CollectRuns(c)
      <4>1. todo'[c] = ActiveGroups(about[c]) /\ about[c] = f
        BY <2>2, <3>1, <3>3 DEF CollectRuns
      <4> QED BY <1>2, <4>1 DEF ActiveGroups
    <3>4. CASE CancelOutputs(c)
      <4>1. pc[c] = "outputs" /\ UNCHANGED <<about, todo>>
        BY <3>4 DEF CancelOutputs, locals
      <4> QED BY <2>2, <4>1 DEF InSight
    <3>5. ASSUME CancelRows(c) \/ CancelRefresh(c) PROVE FALSE
      BY <2>2, <3>1, <3>5 DEF CancelRows, CancelRefresh, Goto
    <3>6. ASSUME NEW g \in Groups, CancelRun(c, g) PROVE FALSE
      BY <2>2, <3>6 DEF CancelRun
    <3> QED BY <2>2, <3>2, <3>3, <3>4, <3>5, <3>6, CancelMoves DEF Under
  <2> QED BY <1>2, <1>3, <2>1, <2>2 DEF InSight
<1> QED BY <1>4, <1>5

LEMMA ReachedNext ==
  ASSUME IInv, Places, Launches, Fresh, Routed, Telling, Reached, [Next]_vars
  PROVE  Reached'
<1> SUFFICES ASSUME NEW p \in early'
    PROVE  /\ run'[p] # "none"
           /\ p[1] \notin overdue' /\ run'[p] = "active" => InSight(p)' \/ Stopping(p)'
  BY DEF Reached
<1>1. early \subseteq Runs
  BY Tables
<1>2. ASSUME p \in early PROVE run'[p] # "none"
  BY <1>1, <1>2, Lasting DEF Reached, RunsOn
<1>3. ASSUME p \in early, ~Restart, p[1] \notin overdue', run'[p] = "active"
      PROVE  InSight(p)' \/ Stopping(p)'
  <2>1. p \in Runs /\ p[1] \notin overdue /\ run[p] = "active"
    BY <1>1, <1>3, Lasting, Tables DEF Reached, RunsOn
  <2>2. InSight(p) \/ Stopping(p)
    BY <1>3, <2>1 DEF Reached
  <2> QED BY <1>3, <2>1, <2>2, InSightStays, StoppingStays
<1>4. CASE Restart
  <2>1. /\ p \in early /\ ~Stopping(p) /\ UNCHANGED <<row, linked, run, overdue>>
        /\ \A c \in Cancels : pc'[c] \notin {"outputs", "rows cancel"}
    BY <1>4, Names, EndType DEF Restart, database
  <2>2. p[1] \notin overdue /\ run[p] = "active" => InSight(p)
    BY <2>1 DEF Reached
  <2>3. InSight(p) => InSight(p)'
    BY <2>1 DEF InSight
  <2> QED BY <1>2, <2>1, <2>2, <2>3
<1>5. ASSUME p \notin early, ~Restart
      PROVE  run'[p] # "none" /\ InSight(p)'
  <2>1. PICK c \in Cancels, f \in Refreshes : BeginCancel(c, f)
    <3>1. ASSUME NEW q \in Procs, ProcessSteps(q) PROVE early' \subseteq early
      BY <3>1, StartFrame, ReconcileFrame, GenerateFrame, CancelFrame, RollupFrame
      DEF ProcessSteps, history, CancelRun
    <3>2. ASSUME (\E q \in Generators : Begins(q))
                   \/ (\E c \in Cancels, e \in Refreshes : \E u \in Sources :
                         CancelOutput(c, e, u))
                   \/ (\E e \in Refreshes : TimePasses(e)) \/ UNCHANGED vars
          PROVE  UNCHANGED early
      BY <3>2 DEF Begins, EndRun, RetryOutput, CancelOutput, TimePasses, vars, history
    <3> QED BY <1>5, <3>1, <3>2, NextCases
  <2>2. PICK s \in linked[f] :
          p = <<f, GroupOf[s]>> /\ row[f][s] \in Live /\ ~Gathered(f)
    BY <1>5, <2>1 DEF BeginCancel
  <2>3. UNCHANGED <<row, linked, run>>
    BY <2>1 DEF BeginCancel, database
  <2>4. s \in Sources
    BY <2>2, Tables
  <2>5. run[p] # "none"
    BY <2>2, <2>4 DEF Launches
  <2>6. ASSUME NEW d \in Cancels, about'[d] = f, pc'[d] \in {"outputs", "rows cancel"}
        PROVE  FALSE
    <3>1. d \in Procs /\ pc \in [Procs -> Labels] /\ about \in [Procs -> Refreshes \cup {"none"}]
      BY Names, Tables
    <3>2. d # c /\ pc'[d] = pc[d] /\ about'[d] = about[d]
      BY <2>1, <2>6, <3>1 DEF BeginCancel, Goto
    <3> QED BY <2>2, <2>6, <3>2 DEF Gathered
  <2> QED BY <2>2, <2>3, <2>5, <2>6 DEF InSight
<1> QED BY <1>2, <1>3, <1>4, <1>5

LEMMA NextRInv == IInv /\ RInv /\ [Next]_vars => RInv'
<1> SUFFICES ASSUME IInv, RInv, [Next]_vars PROVE RInv'
  OBVIOUS
<1>1. /\ Places /\ Launches /\ Fresh /\ Routed /\ Telling /\ Closed /\ Reached
      /\ Handled /\ Dropped /\ Outputs /\ Plans /\ Rows
  BY DEF RInv, Telling
<1>2. Telling'
  BY <1>1, HandledNext, DroppedNext, OutputsNext, PlansNext, RowsNext DEF Telling
<1> QED
  BY <1>1, <1>2, PlacesNext, LaunchesNext, FreshNext, RoutedNext, ClosedNext, ReachedNext
  DEF RInv

LEMMA RInvHolds == Spec => [](IInv /\ RInv)
<1>1. RInv => Publishing
  BY DEF RInv, Telling, Handled, Handles, At, Handling, Publishing
<1> QED BY <1>1, InitIInv, NextIInv, InitRInv, NextRInv, PTL DEF Spec

\* The stored tables stay what the schema of refreshes, rows and outputs
\* allows, whatever a handler writes from what it read before.
THEOREM Typed == Spec => []TypeOK
<1>1. IInv => TypeOK
  BY DEF IInv, Types
<1> QED
  BY <1>1, RInvHolds, PTL

\* One refresh of the dashboard runs at a time, though the check, the
\* insertion and the rollups that may reopen an ended refresh are steps of
\* different handlers (doc/dashboards.md).
THEOREM OneRefreshRuns == Spec => []OneRunning
<1>1. IInv => OneRunning
  <2> SUFFICES ASSUME Single PROVE OneRunning
    BY DEF IInv
  <2>1. CASE RunningRefreshes = {}
    BY <2>1, FS_EmptySet DEF OneRunning
  <2>2. CASE RunningRefreshes # {}
    <3>1. PICK f : RunningRefreshes = {f}
      BY <2>2 DEF Single
    <3>2. Cardinality(RunningRefreshes) = 1
      BY <3>1, FS_Singleton
    <3> QED BY <3>2 DEF OneRunning
  <2> QED BY <2>1, <2>2
<1> QED
  BY <1>1, RInvHolds, PTL

\* A key names one refresh, whether the requests with it arrive together or
\* after the refresh has ended (doc/dashboards.md).
THEOREM KeyNamesOne == Spec => []KeyUsedOnce
<1>1. IInv => KeyUsedOnce
  BY DEF IInv
<1> QED
  BY <1>1, RInvHolds, PTL
\* A source is successful only once its output has been through publication:
\* the refresh's run has published it, or it went by without an error, having
\* given way to a later run's or found no binding of its scope.  So it is
\* through the item, the query that reads it and the rows that reconciliations
\* write late (doc/dashboards.md).
THEOREM SuccessIsPublished == Spec => []SuccessPublished
<1>1. IInv /\ RInv => SuccessPublished
  BY DEF IInv, Types, TypeOK, RInv, Telling, Rows, Shown, SuccessPublished
<1> QED BY <1>1, RInvHolds, PTL

\* A refresh that says cancelled has stopped, or is about to stop, the runs its
\* live rows named when a cancellation began, those aside that a failed call
\* has kept it from, however many cancellations, reconciliations and generators
\* write its rows meanwhile.
THEOREM CancellationReaches == Spec => []CancelStopsRuns
<1>1. IInv /\ RInv => CancelStopsRuns
  <2> SUFFICES ASSUME IInv, RInv, NEW p \in early, refresh[p[1]] = "cancelled",
                      p[1] \notin overdue, run[p] = "active"
      PROVE  Stopping(p)
    BY DEF CancelStopsRuns
  <2>1. p \in Runs /\ p = <<p[1], p[2]>> /\ p[1] \in Refreshes
        /\ linked[p[1]] \subseteq Sources
    BY Names DEF IInv, Types, TypeOK
  <2>2. ~InSight(p)
    BY <2>1 DEF RInv, Closed, Closing, InSight, Ended
  <2> QED BY <2>2 DEF RInv, Reached
<1> QED BY <1>1, RInvHolds, PTL
=============================================================================
