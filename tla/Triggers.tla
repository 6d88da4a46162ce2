------------------------------ MODULE Triggers ------------------------------
(***************************************************************************)
(* Triggers: requests from outside that start runs.                        *)
(*                                                                         *)
(* An external trigger is invoked with an optional idempotency key; a git  *)
(* webhook source delivers events, each with a delivery id, and an event   *)
(* may match several pipelines.  Both record the request in a table of     *)
(* their own, hold it against a limit of requests a minute, start runs     *)
(* through handleRunPipeline and write into the row what came of it.       *)
(*                                                                         *)
(* The handlers' statements run under the context of the request, with     *)
(* few exceptions: once its sender has hung up they have no effect.        *)
(*                                                                         *)
(* One trigger, one caller and one source; nobody deletes them.  Why a     *)
(* request is refused (disabled, caller, permission, schema, mapping) is a *)
(* choice.  A webhook that is not authentic, ignored or not allowed leaves *)
(* no row and does not arrive here.  A row is stamped when it is inserted. *)
(* A run that was handed to the launcher is the concern of RunLifecycle.   *)
(***************************************************************************)
EXTENDS Naturals, FiniteSets

CONSTANTS
    Invocations,        \* requests to the trigger
    Deliveries,         \* requests to the source
    Pipelines,          \* that events may match
    Target,             \* the pipeline of the trigger
    Keys, Key,          \* of a request: its idempotency key or delivery id
    NoKey,              \* an invocation's, when it gives none
    Limit,              \* per_minute; 0 for no limit
    Minute,             \* ticks of the clock
    MaxTime,            \* bound: the clock
    MaxUpsets           \* bound: senders that hang up, restarts and lost updates

Requests == Invocations \cup Deliveries

ASSUME TriggersAssumption ==
    /\ IsFiniteSet(Requests) /\ Invocations \cap Deliveries = {}
    /\ Target \in Pipelines /\ NoKey \notin Keys
    /\ Key \in [Requests -> Keys \cup {NoKey}]
    /\ \A q \in Deliveries : Key[q] # NoKey
    /\ Limit \in Nat /\ Minute \in Nat \ {0} /\ MaxTime \in Nat /\ MaxUpsets \in Nat

VARIABLES
    now,
    pc,         \* where a request's handler is
    present,    \* the sender is waiting: r.Context() is not cancelled
    row,        \* external_trigger_invocations and git_webhook_deliveries
    todo,       \* of a handler: the pipelines it has yet to start
    outcomes,   \* of a handler: what has come of the others, "started" and "refused"
    current,    \* of a handler: the pipeline it is starting
    run,        \* pipeline_runs: what each request made of each pipeline
    reply,      \* what the handler answered
    upsets,
    \* history
    admitted,   \* the requests that passed the limit
    started,    \* by request and pipeline: the runs handed to the launcher
    disowned    \* those whose request was refused when they had been handed
                \* over, or were left to the recovery sweep

handler == <<todo, outcomes, current>>
launches == <<started, disowned>>
vars == <<now, pc, present, row, handler, run, reply, upsets, admitted, launches>>

NoRow == [status |-> "none"]
Stages == {"idle", "find", "insert", "limit", "match", "create", "prepare",
           "refused", "launch", "record", "fail", "done"}
Statuses == {"pending", "queued", "processed", "partial", "no_match", "failed"}
Rows == [status : Statuses, at : 0..MaxTime, linked : BOOLEAN]
\* "none": not made, or deleted.
Runs == {"none", "pending", "failure", "launched"}
Replies == {"none", "accepted", "original", "conflict", "duplicate", "error"}

Recorded(q) == row[q] # NoRow
Busy(q) == pc[q] \notin {"idle", "done"}
Table(q) == IF q \in Invocations THEN Invocations ELSE Deliveries
SameKey(o, q) == Table(o) = Table(q) /\ Key[o] = Key[q] /\ Key[q] # NoKey

Goto(q, stage) == pc' = [pc EXCEPT ![q] = stage]
Answer(q, what) ==
    /\ Goto(q, "done")
    /\ reply' = [reply EXCEPT ![q] = what]

-----------------------------------------------------------------------------
Init ==
    /\ now = 0
    /\ pc = [q \in Requests |-> "idle"]
    /\ present = [q \in Requests |-> TRUE]
    /\ row = [q \in Requests |-> NoRow]
    /\ todo = [q \in Requests |-> {}]
    /\ outcomes = [q \in Requests |-> {}]
    /\ current = [q \in Requests |-> Target]
    /\ run = [q \in Requests |-> [p \in Pipelines |-> "none"]]
    /\ reply = [q \in Requests |-> "none"]
    /\ upsets = 0
    /\ admitted = {} /\ started = {} /\ disowned = {}

Tick ==
    /\ now < MaxTime
    /\ now' = now + 1
    /\ UNCHANGED <<pc, present, row, handler, run, reply, admitted, upsets, launches>>

Arrive(q) ==
    /\ pc[q] = "idle"
    /\ Goto(q, IF q \in Invocations /\ Key[q] # NoKey THEN "find" ELSE "insert")
    /\ UNCHANGED <<now, present, row, handler, run, reply, admitted, upsets, launches>>

-----------------------------------------------------------------------------
(* The row of a request.                                                   *)

\* Mutant: a row reserves its key once it is queued.
ReservesWhenQueued(o) == row[o].status = "queued"

\* The rows the lookup and the partial unique index are about.
Reserves(o) == row[o].status \in {"pending", "queued"}

\* Nothing is found: go on.  A queued row with its run: answer with that run.
\* Anything else is taken for an attempt in progress.
FindInvocation(q) ==
    /\ pc[q] = "find"
    /\ LET found == {o \in Invocations : SameKey(o, q) /\ Reserves(o)}
       IN \/ present[q] /\ found = {} /\ Goto(q, "insert") /\ UNCHANGED reply
          \/ \E o \in found : present[q] /\
                Answer(q, IF row[o].status = "queued" /\ row[o].linked
                          THEN "original" ELSE "conflict")
          \/ ~present[q] /\ Answer(q, "error")
    /\ UNCHANGED <<now, present, row, handler, run, admitted, upsets, launches>>

NewRow == [status |-> "pending", at |-> now, linked |-> FALSE]

\* A sender that hangs up while the row is inserted leaves it or not.
AddRow(q) ==
    \/ present[q] /\ row' = [row EXCEPT ![q] = NewRow] /\ Goto(q, "limit") /\ UNCHANGED reply
    \/ ~present[q] /\ row' \in {row, [row EXCEPT ![q] = NewRow]} /\ Answer(q, "error")

\* The unique index refuses a second row that reserves the key.
InsertInvocation(q) ==
    /\ q \in Invocations /\ pc[q] = "insert"
    /\ IF \E o \in Invocations : SameKey(o, q) /\ Reserves(o)
       THEN Answer(q, "error") /\ UNCHANGED row
       ELSE AddRow(q)
    /\ UNCHANGED <<now, present, handler, run, admitted, upsets, launches>>

\* ON CONFLICT DO NOTHING: a delivery id is taken whatever came of it.
InsertDelivery(q) ==
    /\ q \in Deliveries /\ pc[q] = "insert"
    /\ IF \E o \in Deliveries : SameKey(o, q) /\ Recorded(o)
       THEN Answer(q, IF present[q] THEN "duplicate" ELSE "error") /\ UNCHANGED row
       ELSE AddRow(q)
    /\ UNCHANGED <<now, present, handler, run, admitted, upsets, launches>>

\* Any check of an invocation but the limit fails, before or after it.
Refuse(q) ==
    /\ q \in Invocations /\ pc[q] \in {"limit", "match"}
    /\ Goto(q, "fail")
    /\ UNCHANGED <<now, present, row, handler, run, reply, admitted, upsets, launches>>

\* Mutant: only what has been dealt with counts.
RecentSettled(q) ==
    {o \in Table(q) : Recorded(o) /\ row[o].status # "pending" /\ row[o].at + Minute > now}

\* The rows of the last minute, refused ones and the request's own included.
Recent(q) == {o \in Table(q) : Recorded(o) /\ row[o].at + Minute > now}

CheckLimit(q) ==
    /\ pc[q] = "limit"
    /\ \/ /\ present[q]
          /\ Limit > 0 => Cardinality(Recent(q)) <= Limit
          /\ Goto(q, "match") /\ admitted' = admitted \cup {q}
       \/ /\ present[q] => Limit > 0 /\ Cardinality(Recent(q)) > Limit
          /\ Goto(q, "fail") /\ UNCHANGED admitted
    /\ UNCHANGED <<now, present, row, handler, run, reply, upsets, launches>>

-----------------------------------------------------------------------------
(* The runs of a request.                                                  *)

\* An event that matches nothing, or whose trigger cannot be used, ends here.
Match(q) ==
    /\ pc[q] = "match"
    /\ \E matched \in IF q \in Invocations THEN {{Target}} ELSE SUBSET Pipelines :
         /\ todo' = [todo EXCEPT ![q] = matched]
         /\ Goto(q, IF matched = {} THEN "record" ELSE "create")
    /\ UNCHANGED <<now, present, row, outcomes, current, run, reply, admitted, upsets, launches>>

SetRun(q, p, status) == run' = [run EXCEPT ![q][p] = status]

\* The handler is done with pipeline p: an invocation fails with it, a
\* delivery goes on to the next.
GoOn(q, p, failed) ==
    /\ todo' = [todo EXCEPT ![q] = @ \ {p}]
    /\ outcomes' = [outcomes EXCEPT ![q] = @ \cup {IF failed THEN "refused" ELSE "started"}]
    /\ Goto(q, IF failed /\ q \in Invocations THEN "fail"
               ELSE IF todo[q] = {p} THEN "record" ELSE "create")

\* handleRunPipeline up to the run's row: refused, or a pending run.  A
\* sender that hangs up meanwhile fails the insert, which may have happened.
CreateRun(q) ==
    /\ pc[q] = "create"
    /\ \E p \in todo[q] :
         /\ current' = [current EXCEPT ![q] = p]
         /\ \/ present[q] /\ SetRun(q, p, "pending") /\ Goto(q, "prepare") /\ UNCHANGED <<todo, outcomes>>
            \/ GoOn(q, p, TRUE) /\ UNCHANGED run
            \/ ~present[q] /\ SetRun(q, p, "pending") /\ GoOn(q, p, TRUE)
    /\ UNCHANGED <<now, present, row, reply, admitted, upsets, launches>>

Prepare(q) ==
    /\ pc[q] = "prepare"
    /\ \/ present[q] /\ Goto(q, "launch")
       \/ Goto(q, "refused")
    /\ UNCHANGED <<now, present, row, handler, run, reply, admitted, upsets, launches>>

Disown(q, p) == disowned' = disowned \cup {<<q, p>>}

\* failRun, whatever has become of the run; its answer is an error.  An update
\* that fails is logged.
FailRun(q) ==
    /\ pc[q] = "refused"
    /\ LET p == current[q]
           effective == present[q] /\ run[q][p] \in {"pending", "launched"}
       IN /\ \/ /\ IF effective THEN SetRun(q, p, "failure") ELSE UNCHANGED run
                /\ IF <<q, p>> \in started THEN Disown(q, p) ELSE UNCHANGED disowned
                /\ UNCHANGED upsets
             \/ /\ effective /\ upsets < MaxUpsets
                /\ upsets' = upsets + 1 /\ Disown(q, p) /\ UNCHANGED run
          /\ GoOn(q, p, TRUE)
    /\ UNCHANGED <<now, present, row, current, reply, admitted, started>>

HandOver(q, p) == SetRun(q, p, "launched") /\ started' = started \cup {<<q, p>>}

\* The timeout is parsed last; one that does not parse is answered with an
\* error and the run stays pending.  The rest no longer needs the sender.
Launch(q) ==
    /\ pc[q] = "launch"
    /\ LET p == current[q]
       IN \/ /\ IF run[q][p] = "pending" THEN HandOver(q, p) ELSE UNCHANGED <<run, started>>
             /\ GoOn(q, p, FALSE) /\ UNCHANGED disowned
          \/ /\ GoOn(q, p, TRUE) /\ Disown(q, p)
             /\ UNCHANGED <<run, started>>
    /\ UNCHANGED <<now, present, row, current, reply, admitted, upsets>>

-----------------------------------------------------------------------------
(* What came of it.                                                        *)

SetRow(q, status, linked) ==
    row' = [row EXCEPT ![q] = [status |-> status, at |-> @.at, linked |-> linked]]

\* Mutant: the update does not look whether the run still exists.
RecordLinked(q) ==
    /\ q \in Invocations /\ pc[q] = "record"
    /\ IF present[q] THEN SetRow(q, "queued", TRUE) ELSE UNCHANGED row
    /\ Answer(q, "accepted")
    /\ UNCHANGED <<now, present, handler, run, admitted, upsets, launches>>

\* The row refers to its run: the update fails when that was deleted.  A
\* failed update is logged, and the request answered as accepted.
RecordInvocation(q) ==
    /\ q \in Invocations /\ pc[q] = "record"
    /\ IF present[q] /\ run[q][Target] # "none"
       THEN SetRow(q, "queued", TRUE) ELSE UNCHANGED row
    /\ Answer(q, "accepted")
    /\ UNCHANGED <<now, present, handler, run, admitted, upsets, launches>>

DeliveryStatuses(q) ==
    CASE outcomes[q] = {} -> {"no_match", "failed"}
      [] outcomes[q] = {"started"} -> {"processed"}
      [] outcomes[q] = {"refused"} -> {"failed"}
      [] OTHER -> {"partial"}

RecordDelivery(q) ==
    /\ q \in Deliveries /\ pc[q] = "record"
    /\ \E status \in DeliveryStatuses(q) :
         /\ IF present[q] THEN SetRow(q, status, FALSE) ELSE UNCHANGED row
         /\ Answer(q, IF status = "failed" THEN "error" ELSE "accepted")
    /\ UNCHANGED <<now, present, handler, run, admitted, upsets, launches>>

\* failInvocation, and a delivery over the limit.
Fail(q) ==
    /\ pc[q] = "fail"
    /\ IF present[q] THEN SetRow(q, "failed", FALSE) ELSE UNCHANGED row
    /\ Answer(q, "error")
    /\ UNCHANGED <<now, present, handler, run, admitted, upsets, launches>>

-----------------------------------------------------------------------------
(* Everything around the handlers.                                         *)

\* The recovery sweep launches a run that has been pending for a while, which
\* its request may still be preparing.
Sweep(q, p) ==
    /\ run[q][p] = "pending"
    /\ HandOver(q, p)
    /\ UNCHANGED <<now, pc, present, row, handler, reply, admitted, upsets, disowned>>

\* A deleted run leaves the invocation's row without one (ON DELETE SET NULL).
DeleteRun(q, p) ==
    /\ run[q][p] # "none"
    /\ SetRun(q, p, "none")
    /\ IF Recorded(q) /\ q \in Invocations THEN SetRow(q, row[q].status, FALSE) ELSE UNCHANGED row
    /\ UNCHANGED <<now, pc, present, handler, reply, admitted, upsets, launches>>

\* The sender hangs up or its time for an answer is over.
HangUp(q) ==
    /\ Busy(q) /\ present[q] /\ upsets < MaxUpsets
    /\ present' = [present EXCEPT ![q] = FALSE]
    /\ upsets' = upsets + 1
    /\ UNCHANGED <<now, pc, row, handler, run, reply, admitted, launches>>

\* The control plane stops: its handlers end where they are.
Restart ==
    /\ \E q \in Requests : Busy(q)
    /\ upsets < MaxUpsets
    /\ pc' = [q \in Requests |-> IF Busy(q) THEN "done" ELSE pc[q]]
    /\ upsets' = upsets + 1
    /\ UNCHANGED <<now, present, row, handler, run, reply, admitted, launches>>

Next ==
    \/ Tick \/ Restart
    \/ \E q \in Requests :
         \/ Arrive(q) \/ FindInvocation(q) \/ InsertInvocation(q) \/ InsertDelivery(q)
         \/ Refuse(q) \/ CheckLimit(q) \/ Match(q)
         \/ CreateRun(q) \/ Prepare(q) \/ FailRun(q) \/ Launch(q)
         \/ RecordInvocation(q) \/ RecordDelivery(q) \/ Fail(q) \/ HangUp(q)
         \/ \E p \in Pipelines : Sweep(q, p) \/ DeleteRun(q, p)

Spec == Init /\ [][Next]_vars

-----------------------------------------------------------------------------
(* Properties.                                                             *)

\* Every row, run and handler has a state of the code's; an invocation refers
\* to a run when it is queued and then only.
TypeOK ==
    /\ now \in 0..MaxTime /\ upsets \in 0..MaxUpsets
    /\ pc \in [Requests -> Stages]
    /\ present \in [Requests -> BOOLEAN]
    /\ row \in [Requests -> Rows \cup {NoRow}]
    /\ todo \in [Requests -> SUBSET Pipelines]
    /\ outcomes \in [Requests -> SUBSET {"started", "refused"}]
    /\ current \in [Requests -> Pipelines]
    /\ run \in [Requests -> [Pipelines -> Runs]]
    /\ reply \in [Requests -> Replies]
    /\ admitted \subseteq Requests
    /\ started \subseteq Requests \X Pipelines /\ disowned \subseteq Requests \X Pipelines
    /\ \A q \in Requests : Recorded(q) /\ row[q].linked =>
         /\ q \in Invocations /\ row[q].status = "queued"
         /\ run[q][Target] # "none"

\* Retries with one key (handleInvokeExternalTrigger) or of one delivery
\* (handleGitWebhookDelivery) start a pipeline at most once, whoever hangs up,
\* restarts, deletes runs or is launched by the recovery sweep after all.  The
\* one exception is an invocation that was refused, and so gave its key back,
\* with a run the sweep had started under its hands or was left to start: its
\* timeout did not parse (run_handlers.go:614) or failRun's update was lost.
KeyStartsOnce ==
    \A a, b \in started :
        a # b /\ a[2] = b[2] /\ SameKey(a[1], b[1]) =>
            a[1] \in Invocations /\ {a, b} \cap disowned # {}

\* However requests overlap, of those that came in within a minute no more
\* than the limit are let through (externalTriggerRateLimitExceeded,
\* gitWebhookRateLimitExceeded count after the insert and without a lock).
LimitRespected ==
    Limit > 0 => \A q \in Requests : Cardinality(Recent(q) \cap admitted) <= Limit
=============================================================================
