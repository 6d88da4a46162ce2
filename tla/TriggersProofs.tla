--------------------------- MODULE TriggersProofs ---------------------------
(***************************************************************************)
(* What holds of requests from outside for any number of them, of keys, of *)
(* pipelines and of upsets: the limit of a minute is kept however they     *)
(* overlap, and requests with one key start a pipeline once.               *)
(***************************************************************************)
EXTENDS Triggers, FiniteSetTheorems, TLAPS

\* Where a request's row is pending: inserted and not yet settled.
Working == {"limit", "match", "create", "prepare", "refused", "launch", "record", "fail"}

Types ==
    /\ now \in 0..MaxTime /\ upsets \in 0..MaxUpsets
    /\ pc \in [Requests -> Stages]
    /\ present \in [Requests -> BOOLEAN]
    /\ row \in [Requests -> Rows \cup {NoRow}]
    /\ todo \in [Requests -> SUBSET Pipelines]
    /\ outcomes \in [Requests -> SUBSET {"started", "refused"}]
    /\ current \in [Requests -> Pipelines]
    /\ run \in [Requests -> [Pipelines -> Runs]]
    /\ reply \in [Requests -> Replies]
    /\ admitted \subseteq Requests

\* A request has a row while it is worked on and no run before it.
RowOf(q) ==
    /\ pc[q] \in {"idle", "find", "insert"} => ~Recorded(q)
    /\ pc[q] \in Working => Recorded(q) /\ row[q].status = "pending"
    /\ ~Recorded(q) => \A p \in Pipelines : run[q][p] = "none"
RowFirst == \A q \in Requests : RowOf(q)

LinkOf(q) ==
    Recorded(q) /\ row[q].linked =>
        /\ q \in Invocations /\ row[q].status = "queued"
        /\ run[q][Target] # "none"
Linked == \A q \in Requests : LinkOf(q)

\* Only a request that was let through is in the history.
EntryOf(q) == pc[q] \in {"idle", "find", "insert", "limit"} => q \notin admitted
Entered == \A q \in Requests : EntryOf(q)

\* Only what a recorded request asked for is started.
Launched ==
    /\ started \subseteq Requests \X Pipelines
    /\ disowned \subseteq Requests \X Pipelines
    /\ \A q \in Requests : \A p \in Pipelines : <<q, p>> \in started => Recorded(q)

IInv == Types /\ RowFirst /\ Linked /\ Entered /\ LimitRespected /\ Launched

-----------------------------------------------------------------------------
(* The helpers, and the initial state.                                     *)

LEMMA SetRowIs ==
  ASSUME Types, NEW q \in Requests, NEW status \in Statuses, NEW linked \in BOOLEAN,
         Recorded(q), SetRow(q, status, linked)
  PROVE  /\ row' \in [Requests -> Rows \cup {NoRow}]
         /\ row'[q] = [status |-> status, at |-> row[q].at, linked |-> linked]
         /\ \A o \in Requests \ {q} : row'[o] = row[o]
         /\ Recorded(q)'
         /\ row'[q].at = row[q].at
<1>1. row[q] \in Rows
  BY DEF Types, Recorded
<1>2. row'[q] = [status |-> status, at |-> row[q].at, linked |-> linked]
  BY DEF Types, SetRow
<1>3. row'[q] \in Rows
  BY <1>1, <1>2 DEF Rows
<1>4. Recorded(q)'
  BY <1>3 DEF Recorded, Rows, NoRow
<1> QED
  BY <1>2, <1>3, <1>4 DEF Types, SetRow

LEMMA NewRowIs ==
  ASSUME Types
  PROVE  /\ NewRow \in Rows /\ NewRow # NoRow /\ NewRow.status = "pending"
         /\ NewRow.linked = FALSE /\ NewRow.at = now
BY DEF Types, NewRow, Rows, Statuses, NoRow

LEMMA SetRunIs ==
  ASSUME Types, NEW q \in Requests, NEW p \in Pipelines, NEW status \in Runs,
         SetRun(q, p, status)
  PROVE  /\ run' \in [Requests -> [Pipelines -> Runs]]
         /\ run'[q][p] = status
         /\ \A r \in Pipelines \ {p} : run'[q][r] = run[q][r]
         /\ \A o \in Requests \ {q} : run'[o] = run[o]
<1>1. run' = [run EXCEPT ![q] = [run[q] EXCEPT ![p] = status]]
  BY DEF SetRun
<1>2. run[q] \in [Pipelines -> Runs]
  BY DEF Types
<1>3. run'[q] = [run[q] EXCEPT ![p] = status]
  BY <1>1 DEF Types
<1> QED
  BY <1>1, <1>2, <1>3 DEF Types

LEMMA InitIInv == Init => IInv
<1> SUFFICES ASSUME Init PROVE IInv
  OBVIOUS
<1>1. Types
  BY TriggersAssumption DEF Init, Types, TriggersAssumption, Stages, Runs, Replies
<1>2. \A q \in Requests : ~Recorded(q) /\ pc[q] = "idle" /\ \A p \in Pipelines : run[q][p] = "none"
  BY DEF Init, Recorded
<1>3. RowFirst /\ Linked
  BY <1>2 DEF RowFirst, RowOf, Linked, LinkOf, Working
<1>4. Entered
  BY DEF Init, Entered, EntryOf
<1>5. LimitRespected
  <2>1. \A q \in Requests : Recent(q) \cap admitted = {}
    BY DEF Init
  <2>2. Cardinality({}) = 0
    BY FS_EmptySet
  <2> QED
    BY <2>1, <2>2, TriggersAssumption DEF LimitRespected, TriggersAssumption
<1>6. Launched
  BY DEF Init, Launched
<1> QED
  BY <1>1, <1>3, <1>4, <1>5, <1>6 DEF IInv

-----------------------------------------------------------------------------
(* Types, rows and links: every step is about one request.                 *)

Basis == Types /\ RowFirst /\ Linked

LEMMA OneRequest ==
  ASSUME Basis, NEW q \in Requests, Types', RowOf(q)', LinkOf(q)',
         \A o \in Requests \ {q} : pc'[o] = pc[o] /\ row'[o] = row[o] /\ run'[o] = run[o]
  PROVE  Basis'
<1>1. \A o \in Requests \ {q} : RowOf(o)' /\ LinkOf(o)'
  BY DEF Basis, RowFirst, Linked, RowOf, LinkOf, Recorded
<1> QED
  BY <1>1 DEF Basis, RowFirst, Linked

\* A step within the handler, before or after the row was inserted.
LEMMA BasisMoves ==
  ASSUME Basis, NEW q \in Requests, NEW stage \in Stages,
         Types', pc' = [pc EXCEPT ![q] = stage], UNCHANGED <<row, run>>,
         stage \in {"idle", "find", "insert"} => ~Recorded(q),
         stage \in Working => pc[q] \in Working
  PROVE  Basis'
<1>1. pc'[q] = stage /\ \A o \in Requests \ {q} : pc'[o] = pc[o]
  BY DEF Basis, Types
<1>2. RowOf(q)' /\ LinkOf(q)'
  BY <1>1 DEF Basis, RowFirst, Linked, RowOf, LinkOf, Recorded
<1> QED
  BY <1>1, <1>2, OneRequest

LEMMA BasisArrive ==
  ASSUME Basis, NEW q \in Requests, Arrive(q)
  PROVE  Basis'
<1>1. Types'
  BY DEF Basis, Types, Arrive, Goto, handler, Stages
<1>2. PICK stage \in {"find", "insert"} : pc' = [pc EXCEPT ![q] = stage]
  BY DEF Arrive, Goto
<1>3. ~Recorded(q)
  BY DEF Basis, RowFirst, RowOf, Arrive
<1> QED
  BY <1>1, <1>2, <1>3, BasisMoves DEF Arrive, Stages, Working

LEMMA BasisFind ==
  ASSUME Basis, NEW q \in Requests, FindInvocation(q)
  PROVE  Basis'
<1>1. Types'
  BY DEF Basis, Types, FindInvocation, Goto, Answer, handler, Stages, Replies
<1>2. PICK stage \in {"insert", "done"} : pc' = [pc EXCEPT ![q] = stage]
  BY DEF FindInvocation, Goto, Answer
<1>3. ~Recorded(q)
  BY DEF Basis, RowFirst, RowOf, FindInvocation
<1> QED
  BY <1>1, <1>2, <1>3, BasisMoves DEF FindInvocation, Stages, Working

\* An insert leaves the row as it was, or adds one.
LEMMA InsertIs ==
  ASSUME Basis, NEW q \in Requests, InsertInvocation(q) \/ InsertDelivery(q)
  PROVE  /\ pc[q] = "insert"
         /\ UNCHANGED <<now, present, handler, run, admitted, upsets>>
         /\ \/ row' = row /\ pc' = [pc EXCEPT ![q] = "done"]
            \/ /\ row' = [row EXCEPT ![q] = NewRow]
               /\ \/ pc' = [pc EXCEPT ![q] = "limit"] \/ pc' = [pc EXCEPT ![q] = "done"]
               /\ q \in Invocations => ~\E o \in Invocations : SameKey(o, q) /\ Reserves(o)
               /\ q \in Deliveries => ~\E o \in Deliveries : SameKey(o, q) /\ Recorded(o)
         /\ reply' \in [Requests -> Replies]
BY TriggersAssumption DEF Basis, Types, InsertInvocation, InsertDelivery, AddRow, Goto, Answer, Replies, TriggersAssumption

LEMMA BasisInsert ==
  ASSUME Basis, NEW q \in Requests, InsertInvocation(q) \/ InsertDelivery(q)
  PROVE  Basis'
<1>1. pc[q] = "insert" /\ ~Recorded(q)
  BY InsertIs DEF Basis, RowFirst, RowOf
<1>2. NewRow \in Rows /\ NewRow # NoRow /\ NewRow.status = "pending" /\ NewRow.linked = FALSE
  BY NewRowIs DEF Basis
<1>3. Types'
  <2>1. PICK new \in {row[q], NewRow}, stage \in {"limit", "done"} :
          row' = [row EXCEPT ![q] = new] /\ pc' = [pc EXCEPT ![q] = stage]
    BY InsertIs DEF Basis, Types
  <2>2. UNCHANGED <<now, present, todo, outcomes, current, run, admitted, upsets>>
    BY InsertIs DEF handler
  <2>3. row' \in [Requests -> Rows \cup {NoRow}] /\ pc' \in [Requests -> Stages]
    BY <1>2, <2>1 DEF Basis, Types, Stages
  <2> QED
    BY <2>2, <2>3, InsertIs DEF Basis, Types
<1>4. CASE row' = row /\ pc' = [pc EXCEPT ![q] = "done"]
  BY <1>1, <1>3, <1>4, InsertIs, BasisMoves DEF Stages, Working
<1>5. CASE row' = [row EXCEPT ![q] = NewRow]
  <2>1. row'[q] = NewRow /\ \A o \in Requests \ {q} : row'[o] = row[o] /\ pc'[o] = pc[o] /\ run'[o] = run[o]
    BY <1>5, InsertIs DEF Basis, Types
  <2>2. pc'[q] \in {"limit", "done"}
    BY <1>5, InsertIs DEF Basis, Types
  <2>3. RowOf(q)' /\ LinkOf(q)'
    BY <1>2, <2>1, <2>2 DEF RowOf, LinkOf, Recorded
  <2> QED
    BY <1>3, <2>1, <2>3, OneRequest
<1> QED
  BY <1>4, <1>5, InsertIs

\* Between the insert and the answer only the stage, or the run, changes.
LEMMA BasisDecides ==
  ASSUME Basis, NEW q \in Requests, Refuse(q) \/ CheckLimit(q) \/ Match(q) \/ Prepare(q)
  PROVE  Basis'
<1>1. pc[q] \in Working
  BY DEF Refuse, CheckLimit, Match, Prepare, Working
<1>2. PICK stage \in {"fail", "match", "record", "create", "launch", "refused"} :
        pc' = [pc EXCEPT ![q] = stage]
  BY DEF Refuse, CheckLimit, Match, Prepare, Goto
<1>3. UNCHANGED <<now, present, row, outcomes, current, run, reply, upsets>>
  BY DEF Refuse, CheckLimit, Match, Prepare, handler
<1>4. todo' \in [Requests -> SUBSET Pipelines] /\ admitted' \subseteq Requests
  <2>1. CASE Match(q)
    <3>1. PICK matched \in SUBSET Pipelines : todo' = [todo EXCEPT ![q] = matched]
      BY <2>1, TriggersAssumption DEF Match, TriggersAssumption
    <3> QED
      BY <2>1, <3>1 DEF Match, Basis, Types
  <2>2. CASE Refuse(q) \/ CheckLimit(q) \/ Prepare(q)
    BY <2>2 DEF Basis, Types, Refuse, CheckLimit, Prepare, handler
  <2> QED
    BY <2>1, <2>2
<1>5. Types'
  BY <1>2, <1>3, <1>4 DEF Basis, Types, Stages
<1>6. stage \in Stages /\ stage \notin {"idle", "find", "insert"}
  BY <1>2 DEF Stages
<1> QED
  BY <1>1, <1>2, <1>3, <1>5, <1>6, BasisMoves

LEMMA GoOnIs ==
  ASSUME Basis, NEW q \in Requests, NEW p \in Pipelines, NEW failed \in BOOLEAN,
         GoOn(q, p, failed)
  PROVE  /\ todo' \in [Requests -> SUBSET Pipelines]
         /\ outcomes' \in [Requests -> SUBSET {"started", "refused"}]
         /\ \E stage \in {"fail", "record", "create"} : pc' = [pc EXCEPT ![q] = stage]
<1>1. todo'  \in [Requests -> SUBSET Pipelines]
  BY DEF GoOn, Basis, Types
<1>2. outcomes' \in [Requests -> SUBSET {"started", "refused"}]
  BY DEF GoOn, Basis, Types
<1>3. \E stage \in {"fail", "record", "create"} : pc' = [pc EXCEPT ![q] = stage]
  BY DEF GoOn, Goto
<1> QED
  BY <1>1, <1>2, <1>3

\* A step that makes, ends or hands over a run of a request being handled.
LEMMA BasisRuns ==
  ASSUME Basis, NEW q \in Requests, NEW p \in Pipelines, NEW stage \in {"fail", "record", "create", "prepare"},
         Types', pc[q] \in Working, pc' = [pc EXCEPT ![q] = stage], row' = row,
         run' = run \/ \E status \in {"pending", "failure", "launched"} : SetRun(q, p, status)
  PROVE  Basis'
<1>1. pc'[q] = stage /\ \A o \in Requests \ {q} : pc'[o] = pc[o]
  BY DEF Basis, Types
<1>2. Recorded(q) /\ row[q].status = "pending"
  BY DEF Basis, RowFirst, RowOf
<1>3. Recorded(q)' /\ row'[q].status = "pending"
  BY <1>2 DEF Recorded
<1>4. RowOf(q)' /\ LinkOf(q)'
  BY <1>1, <1>2, <1>3 DEF Basis, Linked, RowOf, LinkOf, Working
<1>5. \A o \in Requests \ {q} : run'[o] = run[o]
  BY SetRunIs DEF Basis, Runs
<1> QED
  BY <1>1, <1>4, <1>5, OneRequest

LEMMA BasisCreate ==
  ASSUME Basis, NEW q \in Requests, CreateRun(q)
  PROVE  Basis'
<1>1. PICK p \in todo[q] :
         /\ current' = [current EXCEPT ![q] = p]
         /\ \/ present[q] /\ SetRun(q, p, "pending") /\ Goto(q, "prepare") /\ UNCHANGED <<todo, outcomes>>
            \/ GoOn(q, p, TRUE) /\ UNCHANGED run
            \/ ~present[q] /\ SetRun(q, p, "pending") /\ GoOn(q, p, TRUE)
  BY DEF CreateRun
<1>2. p \in Pipelines /\ pc[q] = "create"
  BY <1>1 DEF Basis, Types, CreateRun
<1>3. PICK stage \in {"fail", "record", "create", "prepare"} : pc' = [pc EXCEPT ![q] = stage]
  BY <1>1, <1>2, GoOnIs DEF Goto
<1>4. todo' \in [Requests -> SUBSET Pipelines] /\ outcomes' \in [Requests -> SUBSET {"started", "refused"}]
  BY <1>1, <1>2, GoOnIs DEF Basis, Types
<1>5. run' \in [Requests -> [Pipelines -> Runs]]
  BY <1>1, <1>2, SetRunIs DEF Basis, Types, Runs
<1>6. Types'
  BY <1>1, <1>2, <1>3, <1>4, <1>5 DEF Basis, Types, CreateRun, Stages
<1>7. run' = run \/ SetRun(q, p, "pending")
  BY <1>1
<1> QED
  BY <1>2, <1>3, <1>6, <1>7, BasisRuns DEF CreateRun, Working

LEMMA BasisLaunch ==
  ASSUME Basis, NEW q \in Requests, FailRun(q) \/ Launch(q)
  PROVE  Basis'
<1> DEFINE p == current[q]
<1>1. p \in Pipelines /\ pc[q] \in {"refused", "launch"}
  BY DEF Basis, Types, FailRun, Launch
<1>2. PICK failed \in BOOLEAN : GoOn(q, p, failed)
  BY DEF FailRun, Launch
<1>3. run' = run \/ \E status \in {"pending", "failure", "launched"} : SetRun(q, p, status)
  BY DEF FailRun, Launch, HandOver
<1>4. PICK stage \in {"fail", "record", "create", "prepare"} : pc' = [pc EXCEPT ![q] = stage]
  BY <1>1, <1>2, GoOnIs
<1>5. todo' \in [Requests -> SUBSET Pipelines] /\ outcomes' \in [Requests -> SUBSET {"started", "refused"}]
  BY <1>1, <1>2, GoOnIs
<1>6. run' \in [Requests -> [Pipelines -> Runs]]
  BY <1>1, <1>3, SetRunIs DEF Basis, Types, Runs
<1>7. UNCHANGED <<now, present, row, current, reply, admitted>>
  BY DEF FailRun, Launch
<1>8. Types'
  <2>1. \/ upsets' = upsets
        \/ upsets < MaxUpsets /\ upsets' = upsets + 1
    BY DEF FailRun, Launch
  <2>2. upsets' \in 0..MaxUpsets
    BY <2>1, TriggersAssumption DEF Basis, Types, TriggersAssumption
  <2> QED
    BY <1>4, <1>5, <1>6, <1>7, <2>2 DEF Basis, Types, Stages
<1>9. pc[q] \in Working /\ row' = row
  BY <1>1, <1>7 DEF Working
<1> HIDE DEF p
<1> QED
  BY <1>1, <1>3, <1>4, <1>8, <1>9, BasisRuns

\* The row of a request that is answered is settled, or left as it is.
LEMMA BasisRecord ==
  ASSUME Basis, NEW q \in Requests, RecordInvocation(q) \/ RecordDelivery(q) \/ Fail(q)
  PROVE  Basis'
<1>1. pc[q] \in Working
  BY DEF RecordInvocation, RecordDelivery, Fail, Working
<1>2. Recorded(q)
  BY <1>1 DEF Basis, RowFirst, RowOf
<1>3. pc' = [pc EXCEPT ![q] = "done"] /\ reply' \in [Requests -> Replies]
  BY DEF Basis, Types, RecordInvocation, RecordDelivery, Fail, Answer, Goto, Replies
<1>4. UNCHANGED <<now, present, todo, outcomes, current, run, admitted, upsets>>
  BY DEF RecordInvocation, RecordDelivery, Fail, handler
<1>5. \/ row' = row
      \/ \E status \in Statuses : SetRow(q, status, FALSE)
      \/ /\ SetRow(q, "queued", TRUE)
         /\ q \in Invocations /\ run[q][Target] # "none"
  <2>1. CASE RecordDelivery(q)
    <3>1. DeliveryStatuses(q) \subseteq Statuses
      BY DEF DeliveryStatuses, Statuses
    <3> QED
      BY <2>1, <3>1 DEF RecordDelivery
  <2>2. CASE RecordInvocation(q) \/ Fail(q)
    BY <2>2 DEF RecordInvocation, Fail, Statuses
  <2> QED
    BY <2>1, <2>2
<1>6. pc'[q] = "done" /\ \A o \in Requests \ {q} : pc'[o] = pc[o] /\ run'[o] = run[o]
  BY <1>3, <1>4 DEF Basis, Types
<1>7. CASE row' = row
  <2>1. Types'
    BY <1>3, <1>4, <1>7 DEF Basis, Types, Stages
  <2> QED
    BY <1>3, <1>4, <1>7, <2>1, BasisMoves DEF Stages, Working
<1>8. ASSUME NEW status \in Statuses, NEW linked \in BOOLEAN, SetRow(q, status, linked),
             linked => status = "queued" /\ q \in Invocations /\ run[q][Target] # "none"
      PROVE  Basis'
  <2>1. /\ row' \in [Requests -> Rows \cup {NoRow}]
        /\ row'[q] = [status |-> status, at |-> row[q].at, linked |-> linked]
        /\ \A o \in Requests \ {q} : row'[o] = row[o]
        /\ Recorded(q)'
    BY <1>2, <1>8, SetRowIs DEF Basis
  <2>2. Types'
    BY <1>3, <1>4, <2>1 DEF Basis, Types, Stages
  <2>3. RowOf(q)' /\ LinkOf(q)'
    BY <1>4, <1>6, <1>8, <2>1 DEF RowOf, LinkOf, Working
  <2> QED
    BY <1>6, <2>1, <2>2, <2>3, OneRequest
<1> QED
  BY <1>5, <1>7, <1>8 DEF Statuses

\* What happens around the handlers.
LEMMA BasisAround ==
  ASSUME Basis, Tick \/ Restart \/ \E q \in Requests : HangUp(q)
  PROVE  Basis'
<1>1. UNCHANGED <<row, run, todo, outcomes, current, reply, admitted>>
  BY DEF Tick, Restart, HangUp, handler
<1>2. pc' = pc \/ pc' = [q \in Requests |-> IF Busy(q) THEN "done" ELSE pc[q]]
  BY DEF Tick, Restart, HangUp
<1>3. \A q \in Requests : pc'[q] \in {pc[q], "done"}
  BY <1>2
<1>4. pc' \in [Requests -> Stages]
  BY <1>2 DEF Basis, Types, Stages
<1>5. now' \in 0..MaxTime /\ upsets' \in 0..MaxUpsets /\ present' \in [Requests -> BOOLEAN]
  <2>1. now' \in 0..MaxTime
    BY TriggersAssumption DEF Basis, Types, Tick, Restart, HangUp, TriggersAssumption
  <2>2. upsets' \in 0..MaxUpsets
    BY TriggersAssumption DEF Basis, Types, Tick, Restart, HangUp, TriggersAssumption
  <2>3. present' \in [Requests -> BOOLEAN]
    BY DEF Basis, Types, Tick, Restart, HangUp
  <2> QED
    BY <2>1, <2>2, <2>3
<1>6. Types'
  BY <1>1, <1>4, <1>5 DEF Basis, Types
<1>7. RowFirst' /\ Linked'
  BY <1>1, <1>3 DEF Basis, RowFirst, RowOf, Linked, LinkOf, Recorded, Working
<1> QED
  BY <1>6, <1>7 DEF Basis

LEMMA BasisSweep ==
  ASSUME Basis, NEW q \in Requests, NEW p \in Pipelines, Sweep(q, p)
  PROVE  Basis'
<1>1. SetRun(q, p, "launched") /\ run[q][p] = "pending"
  BY DEF Sweep, HandOver
<1>2. /\ run' \in [Requests -> [Pipelines -> Runs]]
      /\ run'[q][p] = "launched"
      /\ \A r \in Pipelines \ {p} : run'[q][r] = run[q][r]
      /\ \A o \in Requests \ {q} : run'[o] = run[o]
  BY <1>1, SetRunIs DEF Basis, Runs
<1>3. UNCHANGED <<now, pc, present, row, todo, outcomes, current, reply, admitted, upsets>>
  BY DEF Sweep, handler
<1>4. Types'
  BY <1>2, <1>3 DEF Basis, Types
<1>5. Recorded(q)
  BY <1>1 DEF Basis, RowFirst, RowOf
<1>6. RowOf(q)' /\ LinkOf(q)'
  BY <1>2, <1>3, <1>5, TriggersAssumption
     DEF Basis, RowFirst, RowOf, Linked, LinkOf, Recorded, TriggersAssumption
<1> QED
  BY <1>2, <1>3, <1>4, <1>6, OneRequest

\* A run that is deleted takes the link of its row with it.
LEMMA BasisDelete ==
  ASSUME Basis, NEW q \in Requests, NEW p \in Pipelines, DeleteRun(q, p)
  PROVE  Basis'
<1>1. SetRun(q, p, "none") /\ run[q][p] # "none"
  BY DEF DeleteRun
<1>2. /\ run' \in [Requests -> [Pipelines -> Runs]]
      /\ \A o \in Requests \ {q} : run'[o] = run[o]
  BY <1>1, SetRunIs DEF Basis, Runs
<1>3. Recorded(q)
  BY <1>1 DEF Basis, RowFirst, RowOf
<1>4. UNCHANGED <<now, pc, present, todo, outcomes, current, reply, admitted, upsets>>
  BY DEF DeleteRun, handler
<1>5. row[q] \in Rows
  BY <1>3 DEF Basis, Types, Recorded
<1>6. /\ row' \in [Requests -> Rows \cup {NoRow}]
      /\ \A o \in Requests \ {q} : row'[o] = row[o]
      /\ Recorded(q)' /\ row'[q].status = row[q].status
      /\ q \in Invocations => row'[q].linked = FALSE
  <2>1. CASE q \in Invocations
    <3>1. SetRow(q, row[q].status, FALSE)
      BY <1>3, <2>1 DEF DeleteRun
    <3>2. row[q].status \in Statuses
      BY <1>5 DEF Rows
    <3>3. /\ row' \in [Requests -> Rows \cup {NoRow}]
          /\ row'[q] = [status |-> row[q].status, at |-> row[q].at, linked |-> FALSE]
          /\ \A o \in Requests \ {q} : row'[o] = row[o]
          /\ Recorded(q)'
      BY <1>3, <3>1, <3>2, SetRowIs DEF Basis
    <3> QED
      BY <3>3
  <2>2. CASE q \notin Invocations
    BY <1>3, <2>2 DEF DeleteRun, Basis, Types, Recorded
  <2> QED
    BY <2>1, <2>2
<1>7. Types'
  BY <1>2, <1>4, <1>6 DEF Basis, Types
<1>8. RowOf(q)'
  BY <1>3, <1>4, <1>6 DEF Basis, RowFirst, RowOf
<1>9. LinkOf(q)'
  <2>1. CASE q \in Invocations
    BY <1>6, <2>1 DEF LinkOf
  <2>2. CASE q \notin Invocations
    BY <1>3, <2>2 DEF LinkOf, Basis, Linked, DeleteRun, Recorded
  <2> QED
    BY <2>1, <2>2
<1> QED
  BY <1>2, <1>4, <1>6, <1>7, <1>8, <1>9, OneRequest

LEMMA BasisStep == Basis /\ [Next]_vars => Basis'
<1> SUFFICES ASSUME Basis, [Next]_vars PROVE Basis'
  OBVIOUS
<1>1. CASE UNCHANGED vars
  BY <1>1 DEF vars, handler, Basis, Types, RowFirst, RowOf, Linked, LinkOf, Recorded
<1>2. CASE Tick \/ Restart \/ \E q \in Requests : HangUp(q)
  BY <1>2, BasisAround
<1>3. ASSUME NEW q \in Requests, Arrive(q) \/ FindInvocation(q)
      PROVE  Basis'
  BY <1>3, BasisArrive, BasisFind
<1>4. ASSUME NEW q \in Requests, InsertInvocation(q) \/ InsertDelivery(q)
      PROVE  Basis'
  BY <1>4, BasisInsert
<1>5. ASSUME NEW q \in Requests, Refuse(q) \/ CheckLimit(q) \/ Match(q) \/ Prepare(q)
      PROVE  Basis'
  BY <1>5, BasisDecides
<1>6. ASSUME NEW q \in Requests, CreateRun(q) \/ FailRun(q) \/ Launch(q)
      PROVE  Basis'
  BY <1>6, BasisCreate, BasisLaunch
<1>7. ASSUME NEW q \in Requests, RecordInvocation(q) \/ RecordDelivery(q) \/ Fail(q)
      PROVE  Basis'
  BY <1>7, BasisRecord
<1>8. ASSUME NEW q \in Requests, NEW p \in Pipelines, Sweep(q, p) \/ DeleteRun(q, p)
      PROVE  Basis'
  BY <1>8, BasisSweep, BasisDelete
<1> QED
  BY <1>1, <1>2, <1>3, <1>4, <1>5, <1>6, <1>7, <1>8 DEF Next

-----------------------------------------------------------------------------
(* The limit.                                                              *)

LEMMA EnteredStep ==
  ASSUME Basis, Entered, [Next]_vars
  PROVE  Entered'
<1>1. CASE UNCHANGED vars \/ Tick \/ Restart
  BY <1>1 DEF vars, Tick, Restart, Entered, EntryOf
<1>2. ASSUME NEW q \in Requests, Arrive(q) \/ FindInvocation(q)
      PROVE  Entered'
  BY <1>2 DEF Arrive, FindInvocation, Goto, Answer, Basis, Types, Entered, EntryOf
<1>3. ASSUME NEW q \in Requests, InsertInvocation(q) \/ InsertDelivery(q)
      PROVE  Entered'
  BY <1>3, InsertIs DEF Basis, Types, Entered, EntryOf
<1>4. ASSUME NEW q \in Requests, CheckLimit(q)
      PROVE  Entered'
  BY <1>4 DEF CheckLimit, Goto, Basis, Types, Entered, EntryOf
<1>5. ASSUME NEW q \in Requests, HangUp(q) \/ \E p \in Pipelines : Sweep(q, p) \/ DeleteRun(q, p)
      PROVE  Entered'
  BY <1>5 DEF HangUp, Sweep, DeleteRun, Entered, EntryOf
<1>6. ASSUME NEW q \in Requests, admitted' = admitted,
             NEW stage \in {"fail", "match", "record", "create", "prepare", "launch", "refused", "done"},
             pc' = [pc EXCEPT ![q] = stage]
      PROVE  Entered'
  BY <1>6 DEF Basis, Types, Entered, EntryOf
<1>7. ASSUME NEW q \in Requests, Refuse(q) \/ Match(q) \/ Prepare(q)
      PROVE  Entered'
  BY <1>6, <1>7 DEF Refuse, Match, Prepare, Goto
<1>8. ASSUME NEW q \in Requests, CreateRun(q) \/ FailRun(q) \/ Launch(q)
      PROVE  Entered'
  BY <1>6, <1>8 DEF CreateRun, FailRun, Launch, GoOn, Goto
<1>9. ASSUME NEW q \in Requests, RecordInvocation(q) \/ RecordDelivery(q) \/ Fail(q)
      PROVE  Entered'
  BY <1>6, <1>9 DEF RecordInvocation, RecordDelivery, Fail, Answer, Goto
<1> QED
  BY <1>1, <1>2, <1>3, <1>4, <1>5, <1>7, <1>8, <1>9 DEF Next

\* A row keeps the time it was stamped with, and the clock does not go back.
LEMMA StampKept ==
  ASSUME Basis, Entered, [Next]_vars
  PROVE  /\ now' >= now /\ now \in Nat /\ now' \in Nat
         /\ \A o \in Requests : Recorded(o) => Recorded(o)' /\ row'[o].at = row[o].at
         /\ \A o \in Requests : ~Recorded(o) /\ Recorded(o)' => pc[o] = "insert"
<1>1. now' >= now /\ now \in Nat /\ now' \in Nat
  <2>1. now' = now \/ now' = now + 1
    BY DEF Next, vars, Tick, Restart, Arrive, FindInvocation, InsertInvocation, InsertDelivery,
           Refuse, CheckLimit, Match, CreateRun, Prepare, FailRun, Launch, RecordInvocation,
           RecordDelivery, Fail, HangUp, Sweep, DeleteRun
  <2>2. now \in Nat
    BY TriggersAssumption DEF Basis, Types, TriggersAssumption
  <2> QED
    BY <2>1, <2>2
<1>2. ASSUME row' = row
      PROVE  \A o \in Requests : Recorded(o)' = Recorded(o) /\ row'[o].at = row[o].at
  BY <1>2 DEF Recorded
<1>3. ASSUME NEW q \in Requests, InsertInvocation(q) \/ InsertDelivery(q)
      PROVE  /\ \A o \in Requests : Recorded(o) => Recorded(o)' /\ row'[o].at = row[o].at
             /\ \A o \in Requests : ~Recorded(o) /\ Recorded(o)' => pc[o] = "insert"
  <2>1. pc[q] = "insert" /\ ~Recorded(q) /\ \A o \in Requests \ {q} : row'[o] = row[o]
    BY <1>3, InsertIs DEF Basis, Types, RowFirst, RowOf
  <2> QED
    BY <2>1 DEF Recorded
<1>4. ASSUME NEW q \in Requests, NEW status \in Statuses, NEW linked \in BOOLEAN,
             Recorded(q), SetRow(q, status, linked)
      PROVE  \A o \in Requests : Recorded(o)' = Recorded(o) /\ row'[o].at = row[o].at
  BY <1>4, SetRowIs DEF Basis, Recorded
<1>5. ASSUME NEW q \in Requests, RecordInvocation(q) \/ RecordDelivery(q) \/ Fail(q)
      PROVE  \A o \in Requests : Recorded(o)' = Recorded(o) /\ row'[o].at = row[o].at
  <2>1. Recorded(q)
    BY <1>5 DEF RecordInvocation, RecordDelivery, Fail, Basis, RowFirst, RowOf, Working
  <2>2. DeliveryStatuses(q) \subseteq Statuses /\ {"queued", "failed"} \subseteq Statuses
    BY DEF DeliveryStatuses, Statuses
  <2> QED
    BY <1>2, <1>4, <1>5, <2>1, <2>2 DEF RecordInvocation, RecordDelivery, Fail
<1>6. ASSUME NEW q \in Requests, NEW p \in Pipelines, DeleteRun(q, p)
      PROVE  \A o \in Requests : Recorded(o)' = Recorded(o) /\ row'[o].at = row[o].at
  <2>1. Recorded(q) => row[q].status \in Statuses
    BY DEF Basis, Types, Recorded, Rows
  <2> QED
    BY <1>2, <1>4, <1>6, <2>1 DEF DeleteRun
<1>7. \/ row' = row
      \/ \E q \in Requests :
            \/ InsertInvocation(q) \/ InsertDelivery(q)
            \/ RecordInvocation(q) \/ RecordDelivery(q) \/ Fail(q)
            \/ \E p \in Pipelines : DeleteRun(q, p)
  BY DEF Next, vars, Tick, Restart, Arrive, FindInvocation, Refuse, CheckLimit, Match,
         CreateRun, Prepare, FailRun, Launch, HangUp, Sweep
<1> QED
  BY <1>1, <1>2, <1>3, <1>5, <1>6, <1>7

LEMMA FewLetThrough ==
  ASSUME Basis, Entered, LimitRespected, [Next]_vars
  PROVE  LimitRespected'
<1> SUFFICES ASSUME Limit > 0, NEW x \in Requests
             PROVE  Cardinality((Recent(x) \cap admitted)') <= Limit
  BY DEF LimitRespected
<1> DEFINE Now == Recent(x) \cap admitted
           Then == (Recent(x) \cap admitted)'
<1>1. \A q \in Requests : IsFiniteSet(Recent(q)) /\ Recent(q) \subseteq Requests
  <2>1. \A q \in Requests : Recent(q) \subseteq Requests
    BY DEF Recent, Table, Requests
  <2> QED
    BY <2>1, FS_Subset, TriggersAssumption DEF TriggersAssumption
<1>2. ASSUME NEW S, IsFiniteSet(S), Cardinality(S) <= Limit, Then \subseteq S
      PROVE  Cardinality(Then) <= Limit
  <2>1. Cardinality(Then) <= Cardinality(S) /\ Cardinality(Then) \in Nat /\ Cardinality(S) \in Nat
    BY <1>2, FS_Subset, FS_CardinalityType
  <2> QED
    BY <1>2, <2>1, TriggersAssumption DEF TriggersAssumption
<1>3. Minute \in Nat /\ Limit \in Nat
  BY TriggersAssumption DEF TriggersAssumption
<1>4. \A o \in Requests : o \in Recent(x)' =>
        \/ o \in Recent(x)
        \/ pc[o] = "insert" /\ o \notin admitted
  <2> SUFFICES ASSUME NEW o \in Requests, o \in Recent(x)', o \notin Recent(x)
               PROVE  pc[o] = "insert" /\ o \notin admitted
    OBVIOUS
  <2>1. o \in Table(x) /\ Recorded(o)' /\ row'[o].at + Minute > now'
    BY DEF Recent, Table
  <2>2. CASE Recorded(o)
    <3>1. row[o].at \in Nat /\ row'[o].at = row[o].at
      BY <2>2, StampKept, TriggersAssumption DEF Basis, Types, Recorded, Rows, TriggersAssumption
    <3>2. row[o].at + Minute > now
      BY <1>3, <2>1, <3>1, StampKept
    <3> QED
      BY <2>1, <2>2, <3>2 DEF Recent
  <2>3. CASE ~Recorded(o)
    BY <2>1, <2>3, StampKept DEF Entered, EntryOf
  <2> QED
    BY <2>2, <2>3
<1>5. CASE admitted' = admitted
  <2>1. Then \subseteq Now
    BY <1>1, <1>4, <1>5 DEF Basis, Types
  <2>2. IsFiniteSet(Now)
    BY <1>1, FS_Subset
  <2>3. Cardinality(Now) <= Limit
    BY DEF LimitRespected
  <2> QED
    BY <1>2, <2>1, <2>2, <2>3
<1>6. ASSUME NEW q \in Requests, CheckLimit(q), admitted' # admitted
      PROVE  Cardinality(Then) <= Limit
  <2>1. admitted' = admitted \cup {q} /\ Cardinality(Recent(q)) <= Limit
    BY <1>6 DEF CheckLimit
  <2>2. UNCHANGED <<row, now>>
    BY <1>6 DEF CheckLimit
  <2>3. Recent(x)' = Recent(x)
    BY <2>2 DEF Recent, Recorded, Table
  <2>4. CASE Table(x) = Table(q)
    <3>1. Recent(x) = Recent(q)
      BY <2>4 DEF Recent
    <3> QED
      BY <1>1, <1>2, <2>1, <2>3, <3>1
  <2>5. CASE Table(x) # Table(q)
    <3>1. q \notin Recent(x)
      BY <2>5, TriggersAssumption DEF Recent, Table, Requests, TriggersAssumption
    <3>2. Then \subseteq Now
      BY <2>1, <2>3, <3>1
    <3>3. IsFiniteSet(Now) /\ Cardinality(Now) <= Limit
      BY <1>1, FS_Subset DEF LimitRespected
    <3> QED
      BY <1>2, <3>2, <3>3
  <2> QED
    BY <2>4, <2>5
<1>7. admitted' = admitted \/ \E q \in Requests : CheckLimit(q)
  BY DEF Next, vars, Tick, Restart, Arrive, FindInvocation, InsertInvocation, InsertDelivery,
         Refuse, Match, CreateRun, Prepare, FailRun, Launch, RecordInvocation,
         RecordDelivery, Fail, HangUp, Sweep, DeleteRun
<1> QED
  BY <1>5, <1>6, <1>7

-----------------------------------------------------------------------------
(* One key, one start.                                                     *)

\* The request whose row stands for its key.
Claims(q) == IF q \in Deliveries THEN Recorded(q) ELSE Reserves(q)
Unique == \A o, q \in Requests : o # q /\ SameKey(o, q) => ~(Claims(o) /\ Claims(q))

\* What an invocation may leave behind that gives its key back: a run that has
\* not been started and will not be, or one that was disowned.
Clean(q) ==
    \/ <<q, Target>> \in disowned
    \/ <<q, Target>> \notin started /\ run[q][Target] # "pending"

\* An invocation makes one run, and gives its key back only without it.
OwnRun(q) ==
    /\ Recorded(q) => row[q].status \in {"pending", "queued", "failed"}
    /\ pc[q] \in {"create", "prepare", "refused", "launch"} => todo[q] = {Target}
    /\ pc[q] \in {"prepare", "refused", "launch"} => current[q] = Target
    /\ \A p \in Pipelines : p # Target => run[q][p] = "none" /\ <<q, p>> \notin started
    /\ pc[q] \in {"limit", "match", "create"} =>
         run[q][Target] = "none" /\ <<q, Target>> \notin started
    /\ pc[q] = "fail" /\ present[q] => Clean(q)
    /\ Recorded(q) /\ row[q].status = "failed" => Clean(q)
Owned == \A q \in Invocations : OwnRun(q)

SameLaunches(o) ==
    \A p \in Pipelines : /\ <<o, p>> \in started' <=> <<o, p>> \in started
                         /\ <<o, p>> \in disowned' <=> <<o, p>> \in disowned

Elsewhere(q) ==
    \A o \in Requests \ {q} :
        /\ pc'[o] = pc[o] /\ row'[o] = row[o] /\ run'[o] = run[o]
        /\ todo'[o] = todo[o] /\ current'[o] = current[o] /\ present'[o] = present[o]
        /\ SameLaunches(o)

LEMMA OneOwner ==
  ASSUME Owned, NEW q \in Requests, Elsewhere(q), q \in Invocations => OwnRun(q)'
  PROVE  Owned'
<1>1. ASSUME NEW o \in Invocations, o # q
      PROVE  OwnRun(o)'
  <2>1. o \in Requests
    BY DEF Requests
  <2> QED
    BY <1>1, <2>1, TriggersAssumption
       DEF Owned, OwnRun, Clean, Elsewhere, SameLaunches, Recorded, TriggersAssumption
<1> QED
  BY <1>1 DEF Owned

LEMMA InvocationIs ==
  ASSUME Basis, Owned, NEW q \in Invocations
  PROVE  q \in Requests /\ q \notin Deliveries /\ OwnRun(q) /\ RowOf(q) /\ Target \in Pipelines
BY TriggersAssumption DEF Basis, RowFirst, Owned, Requests, TriggersAssumption

LEMMA OwnedBefore ==
  ASSUME Basis, Owned, NEW q \in Requests,
         Arrive(q) \/ FindInvocation(q) \/ Refuse(q) \/ CheckLimit(q) \/ Match(q) \/ Prepare(q) \/ HangUp(q)
  PROVE  Owned'
<1>1. UNCHANGED <<row, run, current, started, disowned>>
  BY DEF Arrive, FindInvocation, Refuse, CheckLimit, Match, Prepare, HangUp, handler, launches
<1>2. Elsewhere(q)
  BY <1>1 DEF Elsewhere, SameLaunches, Basis, Types, Arrive, FindInvocation, Refuse, CheckLimit, Match, Prepare,
              HangUp, handler, Goto, Answer
<1>3. ASSUME q \in Invocations
      PROVE  OwnRun(q)'
  <2>1. OwnRun(q) /\ RowOf(q) /\ q \notin Deliveries
    BY <1>3, InvocationIs
  <2>2. CASE Arrive(q) \/ FindInvocation(q) \/ HangUp(q)
    <3>1. pc'[q] \in {"find", "insert", "done", pc[q]} /\ todo' = todo /\ (present'[q] => present[q])
      BY <2>2 DEF Basis, Types, Arrive, FindInvocation, HangUp, Goto, Answer, handler
    <3> QED
      BY <1>1, <2>1, <3>1 DEF OwnRun, Clean, Recorded
  <2>3. CASE Refuse(q) \/ CheckLimit(q)
    <3>1. pc[q] \in {"limit", "match"} /\ pc'[q] \in {"match", "fail"} /\ todo' = todo /\ present' = present
      BY <2>3 DEF Basis, Types, Refuse, CheckLimit, Goto, handler
    <3> QED
      BY <1>1, <2>1, <3>1 DEF OwnRun, Clean, Recorded
  <2>4. CASE Match(q)
    <3>1. todo' = [todo EXCEPT ![q] = {Target}] /\ pc' = [pc EXCEPT ![q] = "create"]
      BY <1>3, <2>4 DEF Match, Goto
    <3>2. todo'[q] = {Target} /\ pc'[q] = "create" /\ pc[q] = "match"
      BY <2>4, <3>1 DEF Match, Basis, Types
    <3> QED
      BY <1>1, <2>1, <3>2 DEF OwnRun, Clean, Recorded
  <2>5. CASE Prepare(q)
    <3>1. pc[q] = "prepare" /\ pc'[q] \in {"launch", "refused"} /\ todo' = todo /\ present' = present
      BY <2>5 DEF Basis, Types, Prepare, Goto, handler
    <3> QED
      BY <1>1, <2>1, <3>1 DEF OwnRun, Clean, Recorded
  <2> QED
    BY <2>2, <2>3, <2>4, <2>5
<1> QED
  BY <1>2, <1>3, OneOwner

LEMMA OwnedInsert ==
  ASSUME Basis, Owned, Launched, NEW q \in Requests, InsertInvocation(q) \/ InsertDelivery(q)
  PROVE  Owned'
<1>1. UNCHANGED <<run, current, todo, present, started, disowned>> /\ pc[q] = "insert"
  BY InsertIs DEF handler, launches, InsertInvocation, InsertDelivery
<1>2. Elsewhere(q)
  BY <1>1, InsertIs DEF Elsewhere, SameLaunches, Basis, Types
<1>3. pc'[q] \in {"limit", "done"} /\ row'[q] \in {row[q], NewRow}
  BY InsertIs DEF Basis, Types
<1>4. NewRow.status = "pending"
  BY NewRowIs DEF Basis
<1>5. ~Recorded(q) /\ \A p \in Pipelines : run[q][p] = "none" /\ <<q, p>> \notin started
  BY <1>1 DEF Basis, RowFirst, RowOf, Launched
<1>6. ASSUME q \in Invocations
      PROVE  OwnRun(q)'
  <2>1. \A p \in Pipelines : run'[q][p] = "none" /\ <<q, p>> \notin started'
    BY <1>1, <1>5
  <2>2. Recorded(q)' => row'[q].status = "pending"
    BY <1>3, <1>4, <1>5 DEF Recorded
  <2>3. Target \in Pipelines
    BY <1>6, InvocationIs
  <2> QED
    BY <1>3, <2>1, <2>2, <2>3 DEF OwnRun
<1> QED
  BY <1>2, <1>6, OneOwner

LEMMA OwnedCreate ==
  ASSUME Basis, Owned, NEW q \in Requests, CreateRun(q)
  PROVE  Owned'
<1>1. PICK p \in todo[q] :
         /\ current' = [current EXCEPT ![q] = p]
         /\ \/ present[q] /\ SetRun(q, p, "pending") /\ Goto(q, "prepare") /\ UNCHANGED <<todo, outcomes>>
            \/ GoOn(q, p, TRUE) /\ UNCHANGED run
            \/ ~present[q] /\ SetRun(q, p, "pending") /\ GoOn(q, p, TRUE)
  BY DEF CreateRun
<1>2. p \in Pipelines /\ pc[q] = "create" /\ UNCHANGED <<row, present, started, disowned>>
  BY <1>1 DEF Basis, Types, CreateRun, launches
<1>3. run' = run \/ SetRun(q, p, "pending")
  BY <1>1
<1>4. \A o \in Requests \ {q} : run'[o] = run[o]
  BY <1>2, <1>3, SetRunIs DEF Basis, Runs
<1>5. Elsewhere(q)
  BY <1>1, <1>2, <1>4 DEF Elsewhere, SameLaunches, GoOn, Goto, Basis, Types
<1>6. ASSUME q \in Invocations
      PROVE  OwnRun(q)'
  <2>1. OwnRun(q) /\ RowOf(q) /\ Target \in Pipelines
    BY <1>6, InvocationIs
  <2>2. p = Target /\ todo[q] = {Target} /\ <<q, Target>> \notin started'
    BY <1>1, <1>2, <2>1 DEF OwnRun
  <2>3. current'[q] = Target
    BY <1>1, <2>2 DEF Basis, Types
  <2>4. \A r \in Pipelines : r # Target => run'[q][r] = "none" /\ <<q, r>> \notin started'
    BY <1>2, <1>3, <2>1, <2>2, SetRunIs DEF Basis, Runs, OwnRun
  <2>5. Recorded(q)' /\ row'[q].status = "pending"
    BY <1>2, <2>1 DEF RowOf, Working, Recorded
  <2>6. CASE SetRun(q, p, "pending") /\ Goto(q, "prepare") /\ UNCHANGED todo
    <3>1. pc'[q] = "prepare" /\ todo'[q] = {Target}
      BY <1>2, <2>2, <2>6 DEF Goto, Basis, Types
    <3> QED
      BY <2>3, <2>4, <2>5, <3>1 DEF OwnRun
  <2>7. CASE GoOn(q, p, TRUE) /\ (run' = run \/ ~present[q])
    <3>1. pc'[q] = "fail"
      BY <1>6, <2>7 DEF GoOn, Goto, Basis, Types
    <3>2. present'[q] => run'[q][Target] = "none"
      BY <1>2, <2>1, <2>7 DEF OwnRun
    <3>3. present'[q] => Clean(q)'
      BY <2>2, <3>2 DEF Clean
    <3> QED
      BY <2>4, <2>5, <3>1, <3>3 DEF OwnRun
  <2> QED
    BY <1>1, <2>6, <2>7
<1> QED
  BY <1>5, <1>6, OneOwner

\* A run that is failed, or refused with its timeout, is clean; one that is
\* handed over keeps the key.
LEMMA OwnedLaunch ==
  ASSUME Basis, Owned, NEW q \in Requests, FailRun(q) \/ Launch(q)
  PROVE  Owned'
<1> DEFINE p == current[q]
<1>1. p \in Pipelines /\ pc[q] \in {"refused", "launch"} /\ UNCHANGED <<row, present, current>>
  BY DEF Basis, Types, FailRun, Launch
<1>2. PICK failed \in BOOLEAN :
        /\ GoOn(q, p, failed)
        /\ failed => \/ FailRun(q)
                     \/ disowned' = disowned \cup {<<q, p>>}
  BY DEF FailRun, Launch, Disown
<1>3. run' = run \/ \E status \in {"failure", "launched"} : SetRun(q, p, status)
  BY DEF FailRun, Launch, HandOver
<1>4. \A o \in Requests \ {q} : run'[o] = run[o]
  BY <1>1, <1>3, SetRunIs DEF Basis, Runs
<1>5. /\ started' = started \/ started' = started \cup {<<q, p>>}
      /\ disowned' = disowned \/ disowned' = disowned \cup {<<q, p>>}
  BY DEF FailRun, Launch, HandOver, Disown
<1>6. \A o \in Requests \ {q} : SameLaunches(o)
  BY <1>5 DEF SameLaunches
<1>7. Elsewhere(q)
  BY <1>1, <1>2, <1>4, <1>6 DEF Elsewhere, GoOn, Goto, Basis, Types
<1>8. ASSUME q \in Invocations
      PROVE  OwnRun(q)'
  <2>1. OwnRun(q) /\ RowOf(q) /\ Target \in Pipelines
    BY <1>8, InvocationIs
  <2>2. p = Target /\ todo[q] = {Target}
    BY <1>1, <2>1 DEF OwnRun
  <2>3. \A r \in Pipelines : r # Target => run'[q][r] = "none" /\ <<q, r>> \notin started'
    BY <1>1, <1>3, <1>5, <2>1, <2>2, SetRunIs DEF Basis, Runs, OwnRun
  <2>4. Recorded(q)' /\ row'[q].status = "pending"
    BY <1>1, <2>1 DEF RowOf, Working, Recorded
  <2>5. CASE failed
    <3>1. pc'[q] = "fail"
      BY <1>2, <1>8, <2>5 DEF GoOn, Goto, Basis, Types
    <3>2. ASSUME FailRun(q), present[q], <<q, Target>> \notin disowned'
          PROVE  <<q, Target>> \notin started' /\ run'[q][Target] # "pending"
      <4>1. /\ <<q, Target>> \notin started /\ started' = started
            /\ IF run[q][Target] \in {"pending", "launched"}
               THEN SetRun(q, Target, "failure") ELSE UNCHANGED run
        BY <2>2, <3>2 DEF FailRun, Disown
      <4>2. run'[q][Target] # "pending"
        BY <2>1, <4>1, SetRunIs DEF Basis, Runs
      <4> QED
        BY <4>1, <4>2
    <3>3. present'[q] => Clean(q)'
      BY <1>1, <1>2, <2>2, <2>5, <3>2 DEF Clean
    <3> QED
      BY <2>3, <2>4, <3>1, <3>3 DEF OwnRun
  <2>6. CASE ~failed
    <3>1. pc'[q] = "record"
      BY <1>2, <2>2, <2>6 DEF GoOn, Goto, Basis, Types
    <3> QED
      BY <2>3, <2>4, <3>1 DEF OwnRun
  <2> QED
    BY <2>5, <2>6
<1> HIDE DEF p
<1> QED
  BY <1>7, <1>8, OneOwner

\* What an answer, or the deletion of a run, makes of the row.
LEMMA RowsSet ==
  ASSUME Basis, NEW q \in Requests,
         \/ RecordInvocation(q) \/ RecordDelivery(q) \/ Fail(q)
         \/ \E p \in Pipelines : DeleteRun(q, p)
  PROVE  /\ Recorded(q) /\ Recorded(q)'
         /\ \A o \in Requests \ {q} : row'[o] = row[o]
         /\ \/ row'[q].status = row[q].status
            \/ RecordInvocation(q) /\ row'[q].status = "queued"
            \/ RecordDelivery(q)
            \/ Fail(q) /\ present[q] /\ row'[q].status = "failed"
<1>1. Recorded(q)
  BY DEF RecordInvocation, RecordDelivery, Fail, DeleteRun, Basis, RowFirst, RowOf, Working
<1>2. row[q].status \in Statuses /\ {"queued", "failed"} \subseteq Statuses
  BY <1>1 DEF Basis, Types, Recorded, Rows, Statuses
<1>3. ASSUME NEW status \in Statuses, NEW linked \in BOOLEAN, SetRow(q, status, linked)
      PROVE  Recorded(q)' /\ row'[q].status = status /\ \A o \in Requests \ {q} : row'[o] = row[o]
  <2>1. /\ row'[q] = [status |-> status, at |-> row[q].at, linked |-> linked]
        /\ Recorded(q)' /\ \A o \in Requests \ {q} : row'[o] = row[o]
    BY <1>1, <1>3, SetRowIs DEF Basis
  <2> QED
    BY <2>1
<1>4. ASSUME row' = row
      PROVE  Recorded(q)' /\ row'[q].status = row[q].status /\ \A o \in Requests \ {q} : row'[o] = row[o]
  BY <1>1, <1>4 DEF Recorded
<1>5. CASE RecordDelivery(q)
  <2>1. DeliveryStatuses(q) \subseteq Statuses
    BY DEF DeliveryStatuses, Statuses
  <2> QED
    BY <1>1, <1>3, <1>4, <1>5, <2>1 DEF RecordDelivery
<1>6. CASE RecordInvocation(q)
  BY <1>1, <1>2, <1>3, <1>4, <1>6 DEF RecordInvocation
<1>7. CASE Fail(q)
  BY <1>1, <1>2, <1>3, <1>4, <1>7 DEF Fail
<1>8. CASE \E p \in Pipelines : DeleteRun(q, p)
  BY <1>1, <1>2, <1>3, <1>4, <1>8 DEF DeleteRun
<1> QED
  BY <1>5, <1>6, <1>7, <1>8

LEMMA OwnedRecord ==
  ASSUME Basis, Owned, NEW q \in Requests, RecordInvocation(q) \/ RecordDelivery(q) \/ Fail(q)
  PROVE  Owned'
<1>1. UNCHANGED <<run, todo, current, present, started, disowned>>
  BY DEF RecordInvocation, RecordDelivery, Fail, handler, launches
<1>2. pc'[q] = "done" /\ \A o \in Requests \ {q} : pc'[o] = pc[o]
  BY DEF RecordInvocation, RecordDelivery, Fail, Answer, Goto, Basis, Types
<1>3. Elsewhere(q)
  BY <1>1, <1>2, RowsSet DEF Elsewhere, SameLaunches
<1>4. ASSUME q \in Invocations
      PROVE  OwnRun(q)'
  <2>1. OwnRun(q) /\ RowOf(q) /\ q \notin Deliveries
    BY <1>4, InvocationIs
  <2>2. \/ row'[q].status = row[q].status
        \/ row'[q].status = "queued"
        \/ Fail(q) /\ present[q] /\ row'[q].status = "failed"
    BY <2>1, RowsSet DEF RecordDelivery
  <2>3. Recorded(q)
    BY RowsSet
  <2>4. Fail(q) => pc[q] = "fail"
    BY DEF Fail
  <2> QED
    BY <1>1, <1>2, <2>1, <2>2, <2>3, <2>4 DEF OwnRun, Clean
<1> QED
  BY <1>3, <1>4, OneOwner

LEMMA OwnedAround ==
  ASSUME Basis, Owned, Tick \/ Restart
  PROVE  Owned'
<1>1. UNCHANGED <<row, run, todo, current, present, started, disowned>>
  BY DEF Tick, Restart, handler, launches
<1>2. \A q \in Requests : pc'[q] \in {pc[q], "done"}
  BY DEF Tick, Restart
<1> QED
  BY <1>1, <1>2 DEF Owned, OwnRun, Clean, Recorded, Requests

LEMMA OwnedSweep ==
  ASSUME Basis, Owned, NEW q \in Requests, NEW p \in Pipelines, Sweep(q, p)
  PROVE  Owned'
<1>1. UNCHANGED <<pc, row, todo, current, present, disowned>>
  BY DEF Sweep, handler
<1>2. SetRun(q, p, "launched") /\ run[q][p] = "pending" /\ started' = started \cup {<<q, p>>}
  BY DEF Sweep, HandOver
<1>3. /\ run'[q][p] = "launched"
      /\ \A r \in Pipelines \ {p} : run'[q][r] = run[q][r]
      /\ \A o \in Requests \ {q} : run'[o] = run[o]
  BY <1>2, SetRunIs DEF Basis, Runs
<1>4. Elsewhere(q)
  BY <1>1, <1>2, <1>3 DEF Elsewhere, SameLaunches
<1>5. ASSUME q \in Invocations
      PROVE  OwnRun(q)'
  <2>1. OwnRun(q) /\ RowOf(q)
    BY <1>5, InvocationIs
  <2>2. p = Target
    BY <1>2, <2>1 DEF OwnRun
  <2>3. pc[q] \notin {"limit", "match", "create"}
    BY <1>2, <2>1, <2>2 DEF OwnRun
  <2>4. Clean(q) => Clean(q)'
    BY <1>1, <1>2, <2>2 DEF Clean
  <2> QED
    BY <1>1, <1>2, <1>3, <2>1, <2>2, <2>3, <2>4 DEF OwnRun, Recorded
<1> QED
  BY <1>4, <1>5, OneOwner

LEMMA OwnedDelete ==
  ASSUME Basis, Owned, NEW q \in Requests, NEW p \in Pipelines, DeleteRun(q, p)
  PROVE  Owned'
<1>1. UNCHANGED <<pc, todo, current, present, started, disowned>>
  BY DEF DeleteRun, handler, launches
<1>2. SetRun(q, p, "none") /\ run[q][p] # "none"
  BY DEF DeleteRun
<1>3. /\ run'[q][p] = "none"
      /\ \A r \in Pipelines \ {p} : run'[q][r] = run[q][r]
      /\ \A o \in Requests \ {q} : run'[o] = run[o]
  BY <1>2, SetRunIs DEF Basis, Runs
<1>4. Elsewhere(q)
  BY <1>1, <1>3, RowsSet DEF Elsewhere, SameLaunches
<1>5. ASSUME q \in Invocations
      PROVE  OwnRun(q)'
  <2>1. OwnRun(q) /\ Target \in Pipelines
    BY <1>5, InvocationIs
  <2>2. p = Target /\ run'[q][Target] = "none"
    BY <1>2, <1>3, <2>1 DEF OwnRun
  <2>3. Recorded(q) /\ row'[q].status = row[q].status
    <3>1. SetRow(q, row[q].status, FALSE)
      BY <1>5, RowsSet DEF DeleteRun
    <3>2. row[q].status \in Statuses
      BY RowsSet DEF Basis, Types, Recorded, Rows
    <3>3. row'[q] = [status |-> row[q].status, at |-> row[q].at, linked |-> FALSE]
      BY <3>1, <3>2, RowsSet, SetRowIs DEF Basis
    <3> QED
      BY <3>3, RowsSet
  <2>4. \A r \in Pipelines : r # Target => run'[q][r] = "none" /\ <<q, r>> \notin started'
    BY <1>1, <1>3, <2>1, <2>2 DEF OwnRun
  <2>5. Clean(q) => Clean(q)'
    BY <1>1, <2>2 DEF Clean
  <2>6. <<q, Target>> \in started' <=> <<q, Target>> \in started
    BY <1>1
  <2> QED
    BY <1>1, <2>1, <2>2, <2>3, <2>4, <2>5, <2>6 DEF OwnRun
<1> QED
  BY <1>4, <1>5, OneOwner

LEMMA OwnedStep ==
  ASSUME Basis, Owned, Launched, [Next]_vars
  PROVE  Owned'
<1>1. CASE UNCHANGED vars
  BY <1>1 DEF vars, handler, launches, Owned, OwnRun, Clean, Recorded
<1>2. CASE Tick \/ Restart
  BY <1>2, OwnedAround
<1>3. ASSUME NEW q \in Requests,
             Arrive(q) \/ FindInvocation(q) \/ Refuse(q) \/ CheckLimit(q) \/ Match(q) \/ Prepare(q) \/ HangUp(q)
      PROVE  Owned'
  BY <1>3, OwnedBefore
<1>4. ASSUME NEW q \in Requests, InsertInvocation(q) \/ InsertDelivery(q)
      PROVE  Owned'
  BY <1>4, OwnedInsert
<1>5. ASSUME NEW q \in Requests, CreateRun(q) \/ FailRun(q) \/ Launch(q)
      PROVE  Owned'
  BY <1>5, OwnedCreate, OwnedLaunch
<1>6. ASSUME NEW q \in Requests, RecordInvocation(q) \/ RecordDelivery(q) \/ Fail(q)
      PROVE  Owned'
  BY <1>6, OwnedRecord
<1>7. ASSUME NEW q \in Requests, NEW p \in Pipelines, Sweep(q, p) \/ DeleteRun(q, p)
      PROVE  Owned'
  BY <1>7, OwnedSweep, OwnedDelete
<1> QED
  BY <1>1, <1>2, <1>3, <1>4, <1>5, <1>6, <1>7 DEF Next

\* A key that is given back is not taken again by the same request, and a row
\* that takes one finds it free.
LEMMA UniqueStep ==
  ASSUME Basis, Unique, [Next]_vars
  PROVE  Unique'
<1>1. ASSUME \A o \in Requests : Claims(o)' => Claims(o)
      PROVE  Unique'
  BY <1>1 DEF Unique, SameKey, Table
<1>2. CASE row' = row
  BY <1>1, <1>2 DEF Claims, Recorded, Reserves
<1>3. ASSUME NEW q \in Requests,
             \/ RecordInvocation(q) \/ RecordDelivery(q) \/ Fail(q)
             \/ \E p \in Pipelines : DeleteRun(q, p)
      PROVE  Unique'
  <2>1. \A o \in Requests \ {q} : Claims(o)' => Claims(o)
    BY <1>3, RowsSet DEF Claims, Recorded, Reserves
  <2>2. Claims(q)' => Claims(q)
    <3>1. CASE q \in Deliveries
      BY <1>3, <3>1, RowsSet DEF Claims
    <3>2. CASE q \notin Deliveries
      <4>1. \/ row'[q].status = row[q].status
            \/ pc[q] = "record" /\ row'[q].status = "queued"
            \/ row'[q].status = "failed"
        BY <1>3, <3>2, RowsSet DEF RecordDelivery, RecordInvocation
      <4>2. pc[q] = "record" => row[q].status = "pending"
        BY DEF Basis, RowFirst, RowOf, Working
      <4> QED
        BY <3>2, <4>1, <4>2 DEF Claims, Reserves
    <3> QED
      BY <3>1, <3>2
  <2> QED
    BY <1>1, <2>1, <2>2
<1>4. ASSUME NEW q \in Requests, InsertInvocation(q) \/ InsertDelivery(q), row' # row
      PROVE  Unique'
  <2>1. row' = [row EXCEPT ![q] = NewRow]
    BY <1>4, InsertIs
  <2>2. \A o \in Requests \ {q} : Claims(o)' => Claims(o)
    BY <2>1 DEF Claims, Recorded, Reserves, Basis, Types
  <2>3. ASSUME NEW o \in Requests, o # q, SameKey(o, q), Claims(o)
        PROVE  FALSE
    <3>1. o \in Invocations <=> q \in Invocations
      BY <2>3, TriggersAssumption DEF SameKey, Table, Requests, TriggersAssumption
    <3> QED
      BY <1>4, <2>3, <3>1, InsertIs, TriggersAssumption DEF Claims, Requests, TriggersAssumption
  <2>4. \A o \in Requests : SameKey(o, q) <=> SameKey(q, o)
    BY DEF SameKey
  <2> QED
    BY <2>2, <2>3, <2>4 DEF Unique, SameKey, Table
<1>5. \/ row' = row
      \/ \E q \in Requests :
            \/ InsertInvocation(q) \/ InsertDelivery(q)
            \/ RecordInvocation(q) \/ RecordDelivery(q) \/ Fail(q)
            \/ \E p \in Pipelines : DeleteRun(q, p)
  BY DEF Next, vars, Tick, Restart, Arrive, FindInvocation, Refuse, CheckLimit, Match,
         CreateRun, Prepare, FailRun, Launch, HangUp, Sweep
<1> QED
  BY <1>2, <1>3, <1>4, <1>5

\* Runs are started once they are made, and what is disowned stays so.
LEMMA LaunchedStep ==
  ASSUME Basis, Entered, Launched, [Next]_vars
  PROVE  Launched'
<1> DEFINE Starts(q, p) == run[q][p] = "pending" /\ started' = started \cup {<<q, p>>}
<1>1. /\ disowned' \subseteq Requests \X Pipelines
      /\ started' = started \/ \E q \in Requests, p \in Pipelines : Starts(q, p)
  <2>1. CASE launches' = launches
    BY <2>1 DEF launches, Launched
  <2>2. ASSUME NEW q \in Requests, FailRun(q) \/ Launch(q)
        PROVE  /\ disowned' \subseteq Requests \X Pipelines
               /\ started' = started \/ \E p \in Pipelines : Starts(q, p)
    <3>1. current[q] \in Pipelines
      BY DEF Basis, Types
    <3>2. disowned' = disowned \/ disowned' = disowned \cup {<<q, current[q]>>}
      BY <2>2 DEF FailRun, Launch, Disown
    <3>3. started' = started \/ Starts(q, current[q])
      BY <2>2 DEF FailRun, Launch, HandOver
    <3> HIDE DEF Starts
    <3> QED
      BY <3>1, <3>2, <3>3 DEF Launched
  <2>3. ASSUME NEW q \in Requests, NEW p \in Pipelines, Sweep(q, p)
        PROVE  disowned' \subseteq Requests \X Pipelines /\ Starts(q, p)
    BY <2>3 DEF Sweep, HandOver, Launched
  <2>4. \/ launches' = launches
        \/ \E q \in Requests : \/ FailRun(q) \/ Launch(q)
                              \/ \E p \in Pipelines : Sweep(q, p)
    BY DEF Next, vars, Tick, Restart, Arrive, FindInvocation, InsertInvocation, InsertDelivery,
           Refuse, CheckLimit, Match, CreateRun, Prepare, RecordInvocation, RecordDelivery,
           Fail, HangUp, DeleteRun
  <2> HIDE DEF Starts
  <2> QED
    BY <2>1, <2>2, <2>3, <2>4
<1>2. \A q \in Requests : Recorded(q) => Recorded(q)'
  BY StampKept
<1>3. \A q \in Requests, p \in Pipelines : run[q][p] = "pending" => Recorded(q)
  BY DEF Basis, RowFirst, RowOf
<1> QED
  BY <1>1, <1>2, <1>3 DEF Launched

LEMMA OwnersStartOnce ==
  ASSUME Basis, Owned, Unique, Launched
  PROVE  KeyStartsOnce
<1> SUFFICES ASSUME NEW o \in Requests, NEW q \in Requests, NEW p \in Pipelines,
                    o # q, SameKey(o, q), <<o, p>> \in started, <<q, p>> \in started
             PROVE  o \in Invocations /\ {<<o, p>>, <<q, p>>} \cap disowned # {}
  <2>1. started \subseteq Requests \X Pipelines
    BY DEF Launched
  <2>2. SUFFICES ASSUME NEW a \in started, NEW b \in started,
                        a # b, a[2] = b[2], SameKey(a[1], b[1])
                 PROVE  a[1] \in Invocations /\ {a, b} \cap disowned # {}
    BY DEF KeyStartsOnce
  <2>3. /\ a[1] \in Requests /\ b[1] \in Requests /\ a[2] \in Pipelines /\ a[1] # b[1]
        /\ a = <<a[1], a[2]>> /\ b = <<b[1], a[2]>>
    BY <2>1, <2>2
  <2> QED
    BY <2>2, <2>3
<1>1. ASSUME NEW x \in Requests, <<x, p>> \in started, <<x, p>> \notin disowned
      PROVE  Claims(x)
  <2>1. Recorded(x)
    BY <1>1 DEF Launched
  <2>2. CASE x \in Invocations
    <3>1. OwnRun(x) /\ x \notin Deliveries
      BY <2>2, InvocationIs
    <3>2. p = Target
      BY <1>1, <3>1 DEF OwnRun
    <3>3. ~Clean(x)
      BY <1>1, <3>2 DEF Clean
    <3> QED
      BY <2>1, <3>1, <3>3 DEF OwnRun, Claims, Reserves
  <2>3. CASE x \notin Invocations
    BY <2>1, <2>3 DEF Claims, Requests
  <2> QED
    BY <2>2, <2>3
<1>2. CASE o \in Deliveries
  <2>1. q \in Deliveries
    BY <1>2, TriggersAssumption DEF SameKey, Table, Requests, TriggersAssumption
  <2> QED
    BY <1>2, <2>1 DEF Unique, Claims, Launched
<1>3. CASE o \notin Deliveries
  BY <1>1, <1>3 DEF Unique, Requests
<1> QED
  BY <1>2, <1>3

-----------------------------------------------------------------------------
(* The theorems.                                                           *)

LEMMA Invariant == Spec => []IInv
<1>1. IInv /\ [Next]_vars => IInv'
  BY BasisStep, EnteredStep, FewLetThrough, LaunchedStep DEF IInv, Basis
<1> QED
  BY <1>1, InitIInv, PTL DEF Spec

\* Rows, runs and handlers keep their types, and an invocation refers to a run
\* that exists, and only once it is queued (updateExternalTriggerInvocation,
\* ON DELETE SET NULL).
THEOREM Typed == Spec => []TypeOK
<1>1. IInv => TypeOK
  BY DEF IInv, Types, TypeOK, Linked, LinkOf, Launched
<1> QED
  BY <1>1, Invariant, PTL

\* Of the requests of one minute no more than the limit are let through, for
\* any number of them and however they overlap
\* (externalTriggerRateLimitExceeded, gitWebhookRateLimitExceeded).
THEOREM LimitKept == Spec => []LimitRespected
<1>1. IInv => LimitRespected
  BY DEF IInv
<1> QED
  BY <1>1, Invariant, PTL

\* Requests with one idempotency key, or deliveries of one event, start a
\* pipeline at most once, however many there are and whatever hangs up, restarts,
\* is deleted or swept up meanwhile; but for an invocation that was refused with
\* a run that the sweep had started already, whose timeout did not parse, or
\* that could not be marked failed (handleInvokeExternalTrigger,
\* handleGitWebhookDelivery, handleRunPipeline).
THEOREM StartedByOne == Spec => []KeyStartsOnce
<1> DEFINE KInv == Basis /\ Entered /\ Launched /\ Owned /\ Unique
<1>1. Init => KInv
  <2> SUFFICES ASSUME Init PROVE KInv
    OBVIOUS
  <2>1. Basis /\ Entered /\ Launched
    BY InitIInv DEF IInv, Basis
  <2>2. \A q \in Requests : ~Recorded(q) /\ row[q].status = "none" /\ pc[q] = "idle"
                            /\ \A p \in Pipelines : run[q][p] = "none" /\ <<q, p>> \notin started
    BY DEF Init, Recorded, NoRow
  <2>3. Owned
    BY <2>2, InvocationIs, TriggersAssumption DEF Owned, OwnRun, Requests, TriggersAssumption
  <2>4. Unique
    BY <2>2 DEF Unique, Claims, Reserves
  <2> QED
    BY <2>1, <2>3, <2>4
<1>2. KInv /\ [Next]_vars => KInv'
  BY BasisStep, EnteredStep, LaunchedStep, OwnedStep, UniqueStep
<1>3. KInv => KeyStartsOnce
  BY OwnersStartOnce
<1> QED
  BY <1>1, <1>2, <1>3, PTL DEF Spec
=============================================================================
