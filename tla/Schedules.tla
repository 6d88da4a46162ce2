----------------------------- MODULE Schedules -----------------------------
(***************************************************************************)
(* Schedules: rows that start a pipeline at one time, or at the times of a *)
(* cron expression.                                                        *)
(*                                                                         *)
(* Every replica of the control plane polls the table.  It locks the rows  *)
(* that are due, disarms or advances them, commits, and only then starts   *)
(* their runs, one after the other, from the rows as it read them.  The    *)
(* handlers and the configuration sync decide what to write from the clock *)
(* and from the row before they wait for its lock.                         *)
(*                                                                         *)
(* There are many clocks.  What is due is decided by the database's; every *)
(* next time is worked out from the clock of the replica at work, which    *)
(* may be behind or ahead of it.                                           *)
(*                                                                         *)
(* Time is a counter.  A schedule is known by its path and name, where the *)
(* code has an id: here a late write also finds a row that was deleted and *)
(* made anew.  An update does not rename.  Whether a run is accepted, and  *)
(* what a row and a run remember of each other (schedule_id, last_run_id,  *)
(* last_status), is left out: nothing that follows depends on it, and so   *)
(* is run-now, which starts a run and leaves the row's times alone.        *)
(***************************************************************************)
EXTENDS Naturals, FiniteSets

CONSTANTS
    Names,          \* of schedules
    Workers,        \* one schedule worker for every replica
    Editors,        \* handlers and configuration syncs at work
    Times,          \* at which a schedule can run
    CronTimes,      \* those the cron expression matches
    Requested,      \* definitions a request may carry
    Revisions,      \* of the repository: the definitions of the files it has
    BatchSize,      \* rows a poll claims
    MaxTime,        \* bound: the database's clock
    MaxSkew,        \* how far a replica's clock may be from it
    MaxEdits,       \* bound: writes begun
    MaxCrashes      \* bound: replicas that stop, transactions that fail

Kinds == {"once", "cron"}
Definitions == [kind : Kinds, at : Times, enabled : BOOLEAN]

\* c is the first time of the cron expression after t.
IsNextCron(c, t) == c > t /\ \A b \in CronTimes : b > t => c <= b

\* A cron expression always has a next time: one without is refused when it
\* is written.
ASSUME ScheduleAssumption ==
    /\ Times \subseteq Nat \ {0} /\ CronTimes \subseteq Times
    /\ MaxTime \in Nat /\ MaxSkew \in Nat /\ MaxEdits \in Nat /\ MaxCrashes \in Nat
    /\ \A t \in 0..(MaxTime + MaxSkew) : \E c \in CronTimes : IsNextCron(c, t)
    /\ Requested \subseteq Definitions
    /\ Revisions \subseteq UNION {[files -> Definitions] : files \in SUBSET Names}
    /\ BatchSize \in Nat \ {0}

Never == 0      \* next_run_at IS NULL
NoRow == [kind |-> "none"]
NoDraft == [op |-> "none"]
Free == "free"
ASSUME FreeAssumption == Free \notin Workers

VARIABLES
    now,        \* the database's clock
    row,        \* pipeline_schedules
    lock,       \* the worker whose transaction has the row
    stage,      \* of a worker: "idle", "claiming", "launching"
    due,        \* of a worker: the rows it has claimed, with their time
    draft,      \* of an editor: what it is about to write
    \* history, of a row and a time since a writer last armed it
    fate,       \* what became of the time
    again,      \* the times claimed a second time
    behind,     \* those claimed, and a replica whose clock had not reached
                \* them has advanced the row
    edits, crashes

history == <<fate, again, behind>>
vars == <<now, row, lock, stage, due, draft, history, edits, crashes>>

Inputs == [kind : Kinds, at : Times, enabled : BOOLEAN, next : Times \cup {Never}]
Rows == [kind : Kinds, at : Times, enabled : BOOLEAN, next : Times \cup {Never},
         managed : BOOLEAN]
Ops == {"create", "update", "switch", "delete", "sync"}
Drafts == [op : Ops, inputs : UNION {[names -> Inputs \cup {NoRow}] : names \in SUBSET Names}]
Claims == Names \X Times
Fates == {"none", "claimed", "launched", "lost", "skipped"}
Taken == {"claimed", "launched", "lost"}

Exists(s) == row[s] # NoRow
Armed(r) == r # NoRow /\ r.enabled /\ r.next # Never
Due(s) == Armed(row[s]) /\ row[s].next <= now

\* What the clock of a replica may say.
Readings == {l \in 0..(MaxTime + MaxSkew) : l <= now + MaxSkew /\ now <= l + MaxSkew}

Unlocked(names) == \A s \in names : lock[s] = Free

-----------------------------------------------------------------------------
Init ==
    /\ now = 0
    /\ row = [s \in Names |-> NoRow]
    /\ lock = [s \in Names |-> Free]
    /\ stage = [w \in Workers |-> "idle"]
    /\ due = [w \in Workers |-> {}]
    /\ draft = [e \in Editors |-> NoDraft]
    /\ fate = [s \in Names |-> [t \in Times |-> "none"]]
    /\ again = [s \in Names |-> {}] /\ behind = [s \in Names |-> {}]
    /\ edits = 0 /\ crashes = 0

Tick ==
    /\ now < MaxTime
    /\ now' = now + 1
    /\ UNCHANGED <<row, lock, stage, due, draft, history, edits, crashes>>

-----------------------------------------------------------------------------
(* What a schedule is given to run at, by a clock that says l.             *)

NextCron(l) == CHOOSE c \in CronTimes : IsNextCron(c, l)

\* Mutant: any run_at will do.
AcceptedAny(d, l) == TRUE

\* An enabled one-time schedule must lie ahead.
Accepted(d, l) == d.kind = "once" /\ d.enabled => d.at > l

NextRunAt(d, l) == IF d.kind = "cron" THEN NextCron(l)
                   ELSE IF d.at > l THEN d.at ELSE Never

Normalized(d, l) == [kind |-> d.kind, at |-> d.at, enabled |-> d.enabled,
                     next |-> NextRunAt(d, l)]

Single(s, i) == [n \in {s} |-> i]

-----------------------------------------------------------------------------
(* The editors: first what they decide, then what they write.              *)

Begin(e, op, inputs) ==
    /\ draft[e] = NoDraft /\ edits < MaxEdits
    /\ draft' = [draft EXCEPT ![e] = [op |-> op, inputs |-> inputs]]
    /\ edits' = edits + 1
    /\ UNCHANGED <<now, row, lock, stage, due, history, crashes>>

RequestCreate(e, s) ==
    \E d \in Requested, l \in Readings :
        /\ Accepted(d, l)
        /\ Begin(e, "create", Single(s, Normalized(d, l)))

RequestUpdate(e, s) ==
    \E d \in Requested, l \in Readings :
        /\ Exists(s) /\ Accepted(d, l)
        /\ Begin(e, "update", Single(s, Normalized(d, l)))

\* Enabling works the time out again, disabling keeps the one it has read.
Switched(r, enabled, l) ==
    [kind |-> r.kind, at |-> r.at, enabled |-> enabled,
     next |-> IF enabled THEN NextRunAt(r, l) ELSE r.next]

RequestSwitch(e, s) ==
    \E enabled \in BOOLEAN, l \in Readings :
        /\ Exists(s)
        /\ enabled /\ row[s].kind = "once" => row[s].at > l
        /\ Begin(e, "switch", Single(s, Switched(row[s], enabled, l)))

RequestDelete(e, s) ==
    /\ Exists(s)
    /\ Begin(e, "delete", Single(s, NoRow))

\* One definition that is refused fails the whole sync.
ParseFiles(e) ==
    \E files \in Revisions, l \in Readings :
        /\ \A s \in DOMAIN files : Accepted(files[s], l)
        /\ Begin(e, "sync", [s \in DOMAIN files |-> Normalized(files[s], l)])

\* Access is refused, or the client goes away.
GiveUp(e) ==
    /\ draft[e] # NoDraft
    /\ draft' = [draft EXCEPT ![e] = NoDraft]
    /\ UNCHANGED <<now, row, lock, stage, due, history, edits, crashes>>

\* A time a write arms.
Arms(r, t) == Armed(r) /\ r.next = t

\* A write waits for the rows it changes.  A time that was due and no worker
\* had claimed is skipped; a time that is armed is owed again.
Store(e, names, new) ==
    /\ Unlocked(names)
    /\ row' = [s \in Names |-> IF s \in names THEN new[s] ELSE row[s]]
    /\ fate' = [s \in Names |-> [t \in Times |->
                  IF s \notin names THEN fate[s][t]
                  ELSE IF Arms(new[s], t) THEN "none"
                  ELSE IF Due(s) /\ row[s].next = t THEN "skipped"
                  ELSE fate[s][t]]]
    /\ again' = [s \in Names |-> IF s \notin names THEN again[s]
                                ELSE {t \in again[s] : ~Arms(new[s], t)}]
    /\ behind' = [s \in Names |-> IF s \notin names THEN behind[s]
                                 ELSE {t \in behind[s] : ~Arms(new[s], t)}]
    /\ draft' = [draft EXCEPT ![e] = NoDraft]
    /\ UNCHANGED <<now, lock, stage, due, edits, crashes>>

Stored(i, managed) == [kind |-> i.kind, at |-> i.at, enabled |-> i.enabled,
                       next |-> i.next, managed |-> managed]

Named(e) == DOMAIN draft[e].inputs

\* Path and name are unique; the other writes find no row to change.
CreateSchedule(e) ==
    /\ draft[e].op = "create"
    /\ Store(e, {s \in Named(e) : ~Exists(s)},
             [s \in Named(e) |-> Stored(draft[e].inputs[s], FALSE)])

UpdateSchedule(e) ==
    /\ draft[e].op = "update"
    /\ Store(e, {s \in Named(e) : Exists(s)},
             [s \in Named(e) |-> Stored(draft[e].inputs[s], FALSE)])

\* Of the draft only the switch and the time are written.
SetScheduleEnabled(e) ==
    /\ draft[e].op = "switch"
    /\ LET names == {s \in Named(e) : Exists(s)} IN
       Store(e, names,
             [s \in names |-> [kind |-> row[s].kind, at |-> row[s].at,
                               enabled |-> draft[e].inputs[s].enabled,
                               next |-> draft[e].inputs[s].next,
                               managed |-> FALSE]])

DeleteSchedule(e) ==
    /\ draft[e].op = "delete"
    /\ Store(e, {s \in Named(e) : Exists(s)}, [s \in Named(e) |-> NoRow])

\* A sync writes the rows of its files, whoever wrote them last, and deletes
\* the rows it manages and has no file for.
ApplySync(e) ==
    /\ draft[e].op = "sync"
    /\ LET stale == {s \in Names \ Named(e) : Exists(s) /\ row[s].managed} IN
       Store(e, Named(e) \cup stale,
             [s \in Named(e) \cup stale |->
                IF s \in stale THEN NoRow ELSE Stored(draft[e].inputs[s], TRUE)])

-----------------------------------------------------------------------------
(* The workers.                                                            *)

\* Mutant: the rows are read without FOR UPDATE SKIP LOCKED.
BatchUnlocked(b) ==
    LET free == {s \in Names : Due(s)} IN
    /\ b \subseteq free
    /\ Cardinality(b) <= BatchSize /\ (b = free \/ Cardinality(b) = BatchSize)

\* The earliest unlocked rows that are due, as many as a poll takes.
Batch(b) ==
    LET free == {s \in Names : Due(s) /\ lock[s] = Free} IN
    /\ b \subseteq free
    /\ Cardinality(b) <= BatchSize /\ (b = free \/ Cardinality(b) = BatchSize)
    /\ \A s \in b : \A r \in free \ b : row[s].next <= row[r].next

Claim(w) ==
    /\ stage[w] = "idle"
    /\ \E b \in SUBSET Names \ {{}} :
        /\ Batch(b)
        /\ lock' = [s \in Names |-> IF s \in b THEN w ELSE lock[s]]
        /\ due' = [due EXCEPT ![w] = {<<s, row[s].next>> : s \in b}]
    /\ stage' = [stage EXCEPT ![w] = "claiming"]
    /\ UNCHANGED <<now, row, draft, history, edits, crashes>>

Claimed(w) == {c[1] : c \in due[w]}

\* Mutant: the transaction is left open.
ReleasedNone(w) == lock

Released(w) == [s \in Names |-> IF lock[s] = w THEN Free ELSE lock[s]]

\* A one-time schedule is done; a recurring one goes on from the present, as
\* the replica's clock has it.
Advanced(r, l) ==
    IF r.kind = "once" THEN [r EXCEPT !.enabled = FALSE, !.next = Never]
    ELSE [r EXCEPT !.next = NextCron(l)]

Commit(w) ==
    /\ stage[w] = "claiming"
    /\ fate' = [s \in Names |-> [t \in Times |->
                  IF <<s, t>> \in due[w] THEN "claimed" ELSE fate[s][t]]]
    /\ again' = [s \in Names |-> again[s] \cup
                  {t \in Times : <<s, t>> \in due[w] /\ fate[s][t] \in Taken}]
    /\ \E l \in Readings :
        /\ row' = [s \in Names |->
                     IF s \in Claimed(w) THEN Advanced(row[s], l) ELSE row[s]]
        /\ behind' = [s \in Names |-> behind[s] \cup
                        {t \in Times : s \in Claimed(w) /\ fate'[s][t] \in Taken /\ l < t}]
    /\ lock' = Released(w)
    /\ stage' = [stage EXCEPT ![w] = "launching"]
    /\ UNCHANGED <<now, due, draft, edits, crashes>>

\* The history of a claim that ends: unless the time has been armed anew.
Ended(claims, as) ==
    [s \in Names |-> [t \in Times |->
        IF <<s, t>> \in claims /\ fate[s][t] = "claimed" THEN as ELSE fate[s][t]]]

\* Mutant: the first run that is refused ends the batch.
LaunchUntilRefused(w) ==
    /\ stage[w] = "launching"
    /\ \E c \in due[w] :
        /\ \A b \in due[w] : c[2] <= b[2]
        /\ fate' = Ended({c}, "launched")
        /\ \E refused \in BOOLEAN :
            due' = [due EXCEPT ![w] = IF refused THEN {} ELSE @ \ {c}]
    /\ stage' = IF due'[w] = {} THEN [stage EXCEPT ![w] = "idle"] ELSE stage
    /\ UNCHANGED <<now, row, lock, draft, again, behind, edits, crashes>>

\* Runs are asked for one by one, earliest first, whatever has become of the
\* schedules meanwhile; one that is refused is logged and passed over.
Launch(w) ==
    /\ stage[w] = "launching"
    /\ \E c \in due[w] :
        /\ \A b \in due[w] : c[2] <= b[2]
        /\ fate' = Ended({c}, "launched")
        /\ due' = [due EXCEPT ![w] = @ \ {c}]
    /\ stage' = IF due'[w] = {} THEN [stage EXCEPT ![w] = "idle"] ELSE stage
    /\ UNCHANGED <<now, row, lock, draft, again, behind, edits, crashes>>

\* Before the commit this is a rollback.
Crash(w) ==
    /\ stage[w] # "idle" /\ crashes < MaxCrashes
    /\ crashes' = crashes + 1
    /\ fate' = IF stage[w] = "launching" THEN Ended(due[w], "lost") ELSE fate
    /\ lock' = Released(w)
    /\ due' = [due EXCEPT ![w] = {}]
    /\ stage' = [stage EXCEPT ![w] = "idle"]
    /\ UNCHANGED <<now, row, draft, again, behind, edits>>

Edit(e) ==
    \/ \E s \in Names : \/ RequestCreate(e, s) \/ RequestUpdate(e, s)
                       \/ RequestSwitch(e, s) \/ RequestDelete(e, s)
    \/ ParseFiles(e) \/ GiveUp(e)
    \/ CreateSchedule(e) \/ UpdateSchedule(e) \/ SetScheduleEnabled(e)
    \/ DeleteSchedule(e) \/ ApplySync(e)

Work(w) == Claim(w) \/ Commit(w) \/ Launch(w)

Next ==
    \/ Tick
    \/ \E e \in Editors : Edit(e)
    \/ \E w \in Workers : Work(w) \/ Crash(w)

Spec == Init /\ [][Next]_vars

\* The ticker polls for ever, and a worker goes on with what it has begun.
FairSpec == Spec /\ \A w \in Workers : WF_vars(Work(w))

-----------------------------------------------------------------------------
\* Rows, claims and drafts are well formed, and a lock belongs to a worker
\* that is claiming an existing row (dispatchDueSchedules).
TypeOK ==
    /\ now \in 0..MaxTime
    /\ row \in [Names -> Rows \cup {NoRow}]
    /\ lock \in [Names -> Workers \cup {Free}]
    /\ stage \in [Workers -> {"idle", "claiming", "launching"}]
    /\ due \in [Workers -> SUBSET Claims]
    /\ \A s \in Names : lock[s] # Free =>
          stage[lock[s]] = "claiming" /\ s \in Claimed(lock[s]) /\ Exists(s)
    /\ draft \in [Editors -> Drafts \cup {NoDraft}]
    /\ fate \in [Names -> [Times -> Fates]]
    /\ again \in [Names -> SUBSET Times] /\ behind \in [Names -> SUBSET Times]
    /\ edits \in 0..MaxEdits /\ crashes \in 0..MaxCrashes

\* Until somebody writes the row again, no time of a schedule is claimed
\* twice, whichever replicas poll (FOR UPDATE SKIP LOCKED, the row advanced in
\* the same transaction), with one exception: a replica whose clock was still
\* behind that time had claimed it, or a later one, and worked it out again.
ClaimedOnce == \A s \in Names : again[s] \subseteq behind[s]

\* No schedule is switched on and forgotten: whoever wrote the row last, a
\* handler with what it had read, a sync or a worker, an enabled row has a
\* time to run at.
EnabledIsPlanned == \A s \in Names : Exists(s) /\ row[s].enabled => row[s].next # Never

\* A time that comes due is launched, unless a writer moved the schedule
\* first or the replica that had claimed it stopped.
DueRuns ==
    \A s \in Names : \A t \in Times :
        (Due(s) /\ row[s].next = t) ~> fate[s][t] \in {"launched", "lost", "skipped"}
=============================================================================
