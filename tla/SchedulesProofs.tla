-------------------------- MODULE SchedulesProofs --------------------------
(***************************************************************************)
(* What holds of schedules for any number of them, of replicas and of      *)
(* writers: an enabled schedule always has a time to run at, and no time   *)
(* is claimed twice between two writes of its row, but where the clock of  *)
(* a replica that claimed it was behind.                                   *)
(***************************************************************************)
EXTENDS Schedules, TLAPS

Table == Rows \cup {NoRow}
Draftable == Inputs \cup {NoRow}

Types ==
    /\ now \in 0..MaxTime
    /\ row \in [Names -> Table]
    /\ lock \in [Names -> Workers \cup {Free}]
    /\ stage \in [Workers -> {"idle", "claiming", "launching"}]
    /\ due \in [Workers -> SUBSET Claims]
    /\ draft \in [Editors -> Drafts \cup {NoDraft}]
    /\ fate \in [Names -> [Times -> Fates]]
    /\ again \in [Names -> SUBSET Times] /\ behind \in [Names -> SUBSET Times]
    /\ edits \in 0..MaxEdits /\ crashes \in 0..MaxCrashes

\* The time a row is armed with is still owed, or a replica whose clock was
\* behind it has armed it again.
Owed ==
    \A s \in Names : Armed(row[s]) /\ fate[s][row[s].next] \in Taken =>
        row[s].next \in behind[s]

\* What a worker has read of the rows it claims is still so: it has the locks.
Holding ==
    \A w \in Workers : \A s \in Names : \A t \in Times :
        stage[w] = "claiming" /\ <<s, t>> \in due[w] =>
            lock[s] = w /\ Due(s) /\ row[s].next = t

\* A lock belongs to a worker that is claiming the row.
LockHeld ==
    \A s \in Names : lock[s] # Free =>
        stage[lock[s]] = "claiming" /\ s \in Claimed(lock[s])

\* What is about to be written, but by a deletion, has a time if it is enabled.
Planned(i) == i # NoRow /\ (i.enabled => i.next # Never)
Written(op, i) == IF op = "delete" THEN i = NoRow ELSE Planned(i)
DraftsPlanned ==
    \A e \in Editors : draft[e] # NoDraft =>
        \A s \in Named(e) : Written(draft[e].op, draft[e].inputs[s])

IInv == Types /\ Owed /\ Holding /\ LockHeld /\ DraftsPlanned
        /\ ClaimedOnce /\ EnabledIsPlanned

-----------------------------------------------------------------------------
(* Types of what is written.                                               *)

\* The next time of a cron expression exists and lies ahead of the clock that
\* was read.
LEMMA NextCronType ==
  ASSUME NEW l \in Readings
  PROVE  NextCron(l) \in Times /\ NextCron(l) > l /\ NextCron(l) # Never
<1>0. l \in 0..(MaxTime + MaxSkew)
  BY DEF Readings
<1>1. NextCron(l) \in CronTimes /\ NextCron(l) > l
  BY <1>0, ScheduleAssumption DEF ScheduleAssumption, NextCron, IsNextCron
<1> QED
  BY <1>1, ScheduleAssumption DEF ScheduleAssumption, Never

LEMMA NormalizedType ==
  ASSUME NEW l \in Readings, NEW d \in Definitions
  PROVE  /\ Normalized(d, l) \in Inputs
         /\ Accepted(d, l) => Planned(Normalized(d, l))
<1>1. NextCron(l) \in Times /\ NextCron(l) # Never
  BY NextCronType
<1>2. d.at \in Times /\ d.at # Never /\ d.kind \in Kinds /\ d.enabled \in BOOLEAN
  BY ScheduleAssumption DEF Definitions, ScheduleAssumption, Never
<1>3. NextRunAt(d, l) \in Times \cup {Never}
  BY <1>1, <1>2 DEF NextRunAt
<1>4. Accepted(d, l) /\ d.enabled => NextRunAt(d, l) # Never
  BY <1>1, <1>2 DEF Accepted, NextRunAt, Kinds
<1> QED
  BY <1>2, <1>3, <1>4 DEF Normalized, Inputs, Planned, NoRow

LEMMA SwitchedType ==
  ASSUME NEW l \in Readings, NEW r \in Rows, NEW enabled \in BOOLEAN
  PROVE  /\ Switched(r, enabled, l) \in Inputs
         /\ (enabled /\ r.kind = "once" => r.at > l) => Planned(Switched(r, enabled, l))
<1>1. NextCron(l) \in Times /\ NextCron(l) # Never
  BY NextCronType
<1>2. r.at \in Times /\ r.at # Never /\ r.kind \in Kinds /\ r.next \in Times \cup {Never}
  BY ScheduleAssumption DEF Rows, ScheduleAssumption, Never
<1>3. NextRunAt(r, l) \in Times \cup {Never}
  BY <1>1, <1>2 DEF NextRunAt
<1>4. (enabled /\ r.kind = "once" => r.at > l) /\ enabled => NextRunAt(r, l) # Never
  BY <1>1, <1>2 DEF NextRunAt, Kinds
<1> QED
  BY <1>2, <1>3, <1>4 DEF Switched, Inputs, Planned, NoRow

\* What a worker makes of a row that is due.
LEMMA AdvancedType ==
  ASSUME NEW l \in Readings, NEW r \in Rows
  PROVE  /\ Advanced(r, l) \in Rows
         /\ Advanced(r, l).enabled => Advanced(r, l).next # Never
         /\ Armed(Advanced(r, l)) => Advanced(r, l).next > l
<1>1. NextCron(l) \in Times /\ NextCron(l) # Never /\ NextCron(l) > l
  BY NextCronType
<1>2. CASE r.kind = "once"
  BY <1>2 DEF Advanced, Rows, Armed
<1>3. CASE r.kind # "once"
  BY <1>1, <1>3 DEF Advanced, Rows, Armed
<1> QED
  BY <1>2, <1>3

-----------------------------------------------------------------------------
(* The first state, and the steps of the clock and of the workers.         *)

LEMMA InitIInv == Init => IInv
<1> SUFFICES ASSUME Init PROVE IInv
  OBVIOUS
<1>1. Types
  BY ScheduleAssumption DEF Init, Types, Table, ScheduleAssumption, Fates
<1>2. ClaimedOnce
  BY DEF Init, ClaimedOnce
<1>3. Owed /\ EnabledIsPlanned
  BY DEF Init, Owed, Armed, EnabledIsPlanned, Exists
<1>4. Holding /\ LockHeld /\ DraftsPlanned
  BY DEF Init, Holding, LockHeld, DraftsPlanned
<1> QED
  BY <1>1, <1>2, <1>3, <1>4 DEF IInv

LEMMA TickIInv == IInv /\ Tick => IInv'
<1> SUFFICES ASSUME IInv, Tick PROVE IInv'
  OBVIOUS
<1> USE DEF IInv, Tick, history
<1>0. now \in Nat /\ now' \in 0..MaxTime /\ now < now' /\ MaxTime \in Nat
  BY ScheduleAssumption DEF ScheduleAssumption, Types
<1>1. Types'
  BY <1>0 DEF Types
<1>3. Owed' /\ EnabledIsPlanned' /\ ClaimedOnce'
  BY DEF Owed, Armed, EnabledIsPlanned, Exists, ClaimedOnce
<1>4. \A s \in Names : Due(s) => Due(s)'
  <2> SUFFICES ASSUME NEW s \in Names, Due(s) PROVE Due(s)'
    OBVIOUS
  <2>1. row[s] \in Rows /\ row[s].next \in Nat
    BY ScheduleAssumption DEF Types, Table, Due, Armed, Rows, ScheduleAssumption, Never
  <2> QED  BY <1>0, <2>1 DEF Due, Armed
<1>5. Holding'
  BY <1>4 DEF Holding
<1>6. LockHeld' /\ DraftsPlanned'
  BY DEF LockHeld, Claimed, DraftsPlanned, Named
<1> QED
  BY <1>1, <1>3, <1>5, <1>6

LEMMA ClaimIInv ==
  ASSUME IInv, NEW w \in Workers, Claim(w)
  PROVE  IInv'
<1> USE DEF IInv
<1>1. PICK b \in SUBSET Names :
        /\ Batch(b)
        /\ lock' = [s \in Names |-> IF s \in b THEN w ELSE lock[s]]
        /\ due' = [due EXCEPT ![w] = {<<s, row[s].next>> : s \in b}]
  BY DEF Claim
<1>2. stage[w] = "idle" /\ stage' = [stage EXCEPT ![w] = "claiming"]
      /\ UNCHANGED <<now, row, draft, history, edits, crashes>>
  BY DEF Claim
<1>3. \A s \in b : Due(s) /\ lock[s] = Free /\ row[s] \in Rows /\ row[s].next \in Times
  BY <1>1 DEF Batch, Due, Armed, Types, Table, Rows
<1>4. Types'
  <2>1. {<<s, row[s].next>> : s \in b} \in SUBSET Claims
    BY <1>1, <1>3 DEF Claims
  <2>2. due' \in [Workers -> SUBSET Claims]
    BY <1>1, <2>1 DEF Types
  <2> QED  BY <1>1, <1>2, <2>2 DEF Types, history
<1>5. Holding'
  <2> SUFFICES ASSUME NEW v \in Workers, NEW s \in Names, NEW t \in Times,
                      stage'[v] = "claiming", <<s, t>> \in due'[v]
               PROVE  lock'[s] = v /\ Due(s)' /\ row'[s].next = t
    BY DEF Holding
  <2>0. Due(s) => Due(s)'
    BY <1>2 DEF Due, Armed
  <2>1. CASE v = w
    <3>1. s \in b /\ t = row[s].next
      BY <1>1, <2>1 DEF Types
    <3> QED  BY <1>1, <1>2, <1>3, <2>0, <2>1, <3>1
  <2>2. CASE v # w
    <3>1. stage[v] = "claiming" /\ <<s, t>> \in due[v]
      BY <1>1, <1>2, <2>2 DEF Types
    <3>2. lock[s] = v /\ Due(s) /\ row[s].next = t
      BY <3>1 DEF Holding
    <3>3. s \notin b
      BY <1>3, <3>2, FreeAssumption DEF FreeAssumption
    <3> QED  BY <1>1, <1>2, <2>0, <3>2, <3>3
  <2> QED  BY <2>1, <2>2
<1>6. LockHeld'
  <2> SUFFICES ASSUME NEW s \in Names, lock'[s] # Free
               PROVE  stage'[lock'[s]] = "claiming" /\ s \in Claimed(lock[s])'
    BY DEF LockHeld, Claimed
  <2>1. CASE s \in b
    <3>1. lock'[s] = w /\ stage'[w] = "claiming" /\ <<s, row[s].next>> \in due'[w]
      BY <1>1, <1>2, <2>1 DEF Types
    <3>2. s \in {c[1] : c \in due'[w]}
      BY <3>1
    <3> QED  BY <3>1, <3>2 DEF Claimed
  <2>2. CASE s \notin b
    <3>1. lock'[s] = lock[s] /\ lock[s] \in Workers
      BY <1>1, <2>2 DEF Types
    <3>2. stage[lock[s]] = "claiming" /\ s \in Claimed(lock[s])
      BY <3>1 DEF LockHeld
    <3>3. lock[s] # w
      BY <1>2, <3>2
    <3> QED  BY <1>1, <1>2, <3>1, <3>2, <3>3 DEF Claimed, Types
  <2> QED  BY <2>1, <2>2
<1>7. Owed' /\ ClaimedOnce' /\ EnabledIsPlanned' /\ DraftsPlanned'
  BY <1>2 DEF history, Owed, Armed, ClaimedOnce, EnabledIsPlanned, Exists,
             DraftsPlanned, Named
<1> QED
  BY <1>4, <1>5, <1>6, <1>7

\* A claim that ends leaves the history well formed and no time claimed twice.
LEMMA EndedFacts ==
  ASSUME fate \in [Names -> [Times -> Fates]],
         NEW claims, NEW as \in {"launched", "lost"}
  PROVE  /\ Ended(claims, as) \in [Names -> [Times -> Fates]]
         /\ \A s \in Names : \A t \in Times :
               Ended(claims, as)[s][t] \in Taken <=> fate[s][t] \in Taken
BY DEF Ended, Fates, Taken

LEMMA CommitIInv ==
  ASSUME IInv, NEW w \in Workers, Commit(w)
  PROVE  IInv'
<1> USE DEF IInv
<1>0. PICK l \in Readings :
        /\ row' = [s \in Names |->
                    IF s \in Claimed(w) THEN Advanced(row[s], l) ELSE row[s]]
        /\ behind' = [s \in Names |-> behind[s] \cup
              {t \in Times : s \in Claimed(w) /\ fate'[s][t] \in Taken /\ l < t}]
  BY DEF Commit
<1>1. /\ stage[w] = "claiming" /\ stage' = [stage EXCEPT ![w] = "launching"]
      /\ lock' = [s \in Names |-> IF lock[s] = w THEN Free ELSE lock[s]]
      /\ fate' = [s \in Names |-> [t \in Times |->
                    IF <<s, t>> \in due[w] THEN "claimed" ELSE fate[s][t]]]
      /\ again' = [s \in Names |-> again[s] \cup
                    {t \in Times : <<s, t>> \in due[w] /\ fate[s][t] \in Taken}]
      /\ UNCHANGED <<now, due, draft, edits, crashes>>
  BY DEF Commit, Released
<1>2. ASSUME NEW s \in Names, NEW t \in Times, <<s, t>> \in due[w]
      PROVE  lock[s] = w /\ Due(s) /\ row[s].next = t /\ row[s] \in Rows
             /\ (fate[s][t] \in Taken => t \in behind[s])
  <2>1. lock[s] = w /\ Due(s) /\ row[s].next = t
    BY <1>1, <1>2 DEF Holding
  <2> QED  BY <2>1 DEF Due, Armed, Owed, Types, Table
<1>3. \A s \in Claimed(w) : s \in Names /\ \E t \in Times : <<s, t>> \in due[w]
  <2>1. due[w] \subseteq Claims
    BY DEF Types
  <2> QED  BY <2>1 DEF Claimed, Claims
<1>4. \A s \in Claimed(w) :
        /\ lock[s] = w /\ row[s] \in Rows /\ Due(s)
        /\ row'[s] = Advanced(row[s], l) /\ Advanced(row[s], l) \in Rows
        /\ Advanced(row[s], l).enabled => Advanced(row[s], l).next # Never
        /\ Armed(Advanced(row[s], l)) => Advanced(row[s], l).next > l
  BY <1>0, <1>2, <1>3, AdvancedType DEF Types
<1>5. Types'
  <2>1. row' \in [Names -> Table]
    BY <1>0, <1>4 DEF Types, Table
  <2>2. fate' \in [Names -> [Times -> Fates]]
    BY <1>1 DEF Types, Fates
  <2>3. again' \in [Names -> SUBSET Times] /\ behind' \in [Names -> SUBSET Times]
    BY <1>0, <1>1 DEF Types
  <2> QED  BY <1>1, <2>1, <2>2, <2>3 DEF Types
<1>6. ClaimedOnce'
  <2> SUFFICES ASSUME NEW s \in Names, NEW t \in again'[s]
               PROVE  t \in behind'[s]
    BY DEF ClaimedOnce
  <2>1. CASE t \in again[s]
    BY <1>0, <2>1 DEF ClaimedOnce
  <2>2. CASE t \notin again[s]
    <3>1. t \in Times /\ <<s, t>> \in due[w] /\ fate[s][t] \in Taken
      BY <1>1, <2>2
    <3> QED  BY <1>0, <1>2, <3>1
  <2> QED  BY <2>1, <2>2
<1>7. Owed'
  <2> SUFFICES ASSUME NEW s \in Names, Armed(row'[s]), fate'[s][row'[s].next] \in Taken
               PROVE  row'[s].next \in behind'[s]
    BY DEF Owed, Armed
  <2>0. row'[s].next \in Times
    BY <1>5 DEF Types, Table, Armed, Rows
  <2>1. CASE s \in Claimed(w)
    <3>1. row'[s].next > l
      BY <1>4, <2>1 DEF Armed
    <3>2. l \in Nat /\ row'[s].next \in Nat
      <4>1. l \in 0..(MaxTime + MaxSkew)
        BY DEF Readings
      <4>2. l \in Nat
        BY <4>1
      <4>3. Times \subseteq Nat
        BY ScheduleAssumption DEF ScheduleAssumption
      <4> QED  BY <2>0, <4>2, <4>3
    <3>3. l < row'[s].next
      BY <3>1, <3>2
    <3> QED  BY <1>0, <2>0, <2>1, <3>3
  <2>2. CASE s \notin Claimed(w)
    <3>1. row'[s] = row[s] /\ <<s, row[s].next>> \notin due[w]
      BY <1>0, <2>2 DEF Claimed
    <3>2. fate[s][row[s].next] \in Taken
      BY <1>1, <2>0, <3>1
    <3> QED  BY <1>0, <3>1, <3>2 DEF Owed
  <2> QED  BY <2>1, <2>2
<1>8. EnabledIsPlanned'
  <2> SUFFICES ASSUME NEW s \in Names, row'[s] # NoRow, row'[s].enabled
               PROVE  row'[s].next # Never
    BY DEF EnabledIsPlanned, Exists
  <2>1. CASE s \in Claimed(w)
    BY <1>4, <2>1
  <2>2. CASE s \notin Claimed(w)
    BY <1>0, <2>2 DEF EnabledIsPlanned, Exists
  <2> QED  BY <2>1, <2>2
<1>9. Holding'
  <2> SUFFICES ASSUME NEW v \in Workers, NEW s \in Names, NEW t \in Times,
                      stage'[v] = "claiming", <<s, t>> \in due'[v]
               PROVE  lock'[s] = v /\ Due(s)' /\ row'[s].next = t
    BY DEF Holding
  <2>1. v # w /\ stage[v] = "claiming" /\ <<s, t>> \in due[v]
    BY <1>1 DEF Types
  <2>2. lock[s] = v /\ Due(s) /\ row[s].next = t
    BY <2>1 DEF Holding
  <2>3. s \notin Claimed(w)
    BY <1>4, <2>1, <2>2
  <2> QED  BY <1>0, <1>1, <2>1, <2>2, <2>3 DEF Due, Armed
<1>10. LockHeld'
  <2> SUFFICES ASSUME NEW s \in Names, lock'[s] # Free
               PROVE  stage'[lock'[s]] = "claiming" /\ s \in Claimed(lock[s])'
    BY DEF LockHeld, Claimed
  <2>1. lock'[s] = lock[s] /\ lock[s] # w /\ lock[s] # Free
    BY <1>1
  <2>2. stage[lock[s]] = "claiming" /\ s \in Claimed(lock[s])
    BY <2>1 DEF LockHeld
  <2> QED  BY <1>1, <2>1, <2>2 DEF Claimed, Types
<1>11. DraftsPlanned'
  BY <1>1 DEF DraftsPlanned, Named
<1> QED
  BY <1>5, <1>6, <1>7, <1>8, <1>9, <1>10, <1>11

\* A worker that drops claims, all or one of them, once it holds no lock or
\* gives its locks back.
LEMMA DropIInv ==
  ASSUME IInv, NEW w \in Workers, NEW rest \in SUBSET due[w], NEW next,
         next \in {"idle", "launching"},
         due' = [due EXCEPT ![w] = rest], stage' = [stage EXCEPT ![w] = next],
         lock' = Released(w),
         fate' \in [Names -> [Times -> Fates]],
         \A s \in Names : \A t \in Times :
            fate'[s][t] \in Taken <=> fate[s][t] \in Taken,
         crashes' \in 0..MaxCrashes,
         UNCHANGED <<now, row, draft, again, behind, edits>>
  PROVE  IInv'
<1> USE DEF IInv
<1>0. lock' = [s \in Names |-> IF lock[s] = w THEN Free ELSE lock[s]]
  BY DEF Released
<1>1. Types'
  BY <1>0 DEF Types
<1>2. Owed' /\ ClaimedOnce' /\ EnabledIsPlanned' /\ DraftsPlanned'
  <2>1. \A s \in Names : Armed(row[s]) => row[s].next \in Times
    BY DEF Types, Table, Armed, Rows
  <2> QED  BY <2>1 DEF history, Owed, Armed, ClaimedOnce, EnabledIsPlanned, Exists,
                      DraftsPlanned, Named
<1>3. Holding'
  <2> SUFFICES ASSUME NEW v \in Workers, NEW s \in Names, NEW t \in Times,
                      stage'[v] = "claiming", <<s, t>> \in due'[v]
               PROVE  lock'[s] = v /\ Due(s)' /\ row'[s].next = t
    BY DEF Holding
  <2>1. v # w /\ stage[v] = "claiming" /\ <<s, t>> \in due[v]
    BY DEF Types
  <2>2. lock[s] = v /\ Due(s) /\ row[s].next = t
    BY <2>1 DEF Holding
  <2> QED  BY <1>0, <2>1, <2>2 DEF Due, Armed
<1>4. LockHeld'
  <2> SUFFICES ASSUME NEW s \in Names, lock'[s] # Free
               PROVE  stage'[lock'[s]] = "claiming" /\ s \in Claimed(lock[s])'
    BY DEF LockHeld, Claimed
  <2>1. lock'[s] = lock[s] /\ lock[s] # w /\ lock[s] # Free
    BY <1>0
  <2>2. stage[lock[s]] = "claiming" /\ s \in Claimed(lock[s])
    BY <2>1 DEF LockHeld
  <2> QED  BY <2>1, <2>2 DEF Claimed, Types
<1> QED
  BY <1>1, <1>2, <1>3, <1>4

LEMMA LaunchIInv ==
  ASSUME IInv, NEW w \in Workers, Launch(w)
  PROVE  IInv'
<1>1. PICK c \in due[w] :
        /\ fate' = Ended({c}, "launched")
        /\ due' = [due EXCEPT ![w] = @ \ {c}]
  BY DEF Launch
<1>2. /\ stage[w] = "launching" /\ UNCHANGED <<now, row, lock, draft, again, behind, edits, crashes>>
      /\ stage' = IF due'[w] = {} THEN [stage EXCEPT ![w] = "idle"] ELSE stage
  BY DEF Launch
<1>3. \E next \in {"idle", "launching"} : stage' = [stage EXCEPT ![w] = next]
  <2>1. stage = [stage EXCEPT ![w] = "launching"]
    BY <1>2 DEF IInv, Types
  <2> QED  BY <1>2, <2>1
<1>4. lock' = Released(w)
  <2>1. \A s \in Names : lock[s] # w
    BY <1>2, FreeAssumption DEF IInv, LockHeld, FreeAssumption
  <2> QED  BY <1>2, <2>1 DEF Released, IInv, Types
<1>5. due' = [due EXCEPT ![w] = due[w] \ {c}]
  BY <1>1 DEF IInv, Types
<1>6. crashes' \in 0..MaxCrashes /\ due[w] \ {c} \in SUBSET due[w]
      /\ fate \in [Names -> [Times -> Fates]]
  BY <1>2 DEF IInv, Types
<1>7. /\ fate' \in [Names -> [Times -> Fates]]
      /\ \A s \in Names : \A t \in Times :
            fate'[s][t] \in Taken <=> fate[s][t] \in Taken
  BY <1>1, <1>6, EndedFacts
<1> QED
  BY <1>2, <1>3, <1>4, <1>5, <1>6, <1>7, DropIInv

LEMMA CrashIInv ==
  ASSUME IInv, NEW w \in Workers, Crash(w)
  PROVE  IInv'
<1>1. /\ crashes < MaxCrashes /\ crashes' = crashes + 1 /\ lock' = Released(w)
      /\ due' = [due EXCEPT ![w] = {}] /\ stage' = [stage EXCEPT ![w] = "idle"]
      /\ fate' = IF stage[w] = "launching" THEN Ended(due[w], "lost") ELSE fate
      /\ UNCHANGED <<now, row, draft, again, behind, edits>>
  BY DEF Crash
<1>2. crashes' \in 0..MaxCrashes /\ fate \in [Names -> [Times -> Fates]]
  BY <1>1, ScheduleAssumption DEF IInv, Types, ScheduleAssumption
<1>3. /\ fate' \in [Names -> [Times -> Fates]]
      /\ \A s \in Names : \A t \in Times :
            fate'[s][t] \in Taken <=> fate[s][t] \in Taken
  BY <1>1, <1>2, EndedFacts
<1> QED
  BY <1>1, <1>2, <1>3, DropIInv

-----------------------------------------------------------------------------
(* The steps of the editors.                                               *)

\* To begin a write changes nothing but the draft.
LEMMA BeginIInv ==
  ASSUME IInv, NEW e \in Editors, NEW op \in Ops, NEW names \in SUBSET Names,
         NEW inputs \in [names -> Draftable], Begin(e, op, inputs),
         \A s \in names : Written(op, inputs[s])
  PROVE  IInv'
<1> USE DEF IInv
<1>1. /\ draft' = [draft EXCEPT ![e] = [op |-> op, inputs |-> inputs]]
      /\ edits < MaxEdits /\ edits' = edits + 1
      /\ UNCHANGED <<now, row, lock, stage, due, history, crashes>>
  BY DEF Begin
<1>2. [op |-> op, inputs |-> inputs] \in Drafts
  <2>1. inputs \in UNION {[n -> Inputs \cup {NoRow}] : n \in SUBSET Names}
    BY DEF Draftable
  <2> QED  BY <2>1 DEF Drafts
<1>3. edits' \in 0..MaxEdits
  BY <1>1, ScheduleAssumption DEF Types, ScheduleAssumption
<1>4. Types'
  BY <1>1, <1>2, <1>3 DEF Types, history
<1>5. Owed' /\ ClaimedOnce' /\ EnabledIsPlanned' /\ LockHeld' /\ Holding'
  BY <1>1 DEF history, Owed, Armed, ClaimedOnce, EnabledIsPlanned, Exists, LockHeld,
              Claimed, Holding, Due
<1>6. DraftsPlanned'
  <2> SUFFICES ASSUME NEW f \in Editors, draft'[f] # NoDraft,
                      NEW s \in DOMAIN draft'[f].inputs
               PROVE  Written(draft'[f].op, draft'[f].inputs[s])
    BY DEF DraftsPlanned, Named, Written, Planned
  <2>1. CASE f = e
    BY <1>1, <2>1 DEF Types
  <2>2. CASE f # e
    BY <1>1, <2>2 DEF DraftsPlanned, Named, Types
  <2> QED  BY <2>1, <2>2
<1> QED
  BY <1>4, <1>5, <1>6

\* What a request or a file asks for.
LEMMA RequestIInv ==
  ASSUME IInv, NEW e \in Editors,
         \/ \E s \in Names : \/ RequestCreate(e, s) \/ RequestUpdate(e, s)
                            \/ RequestSwitch(e, s) \/ RequestDelete(e, s)
         \/ ParseFiles(e)
  PROVE  IInv'
<1>1. ASSUME NEW s \in Names, NEW i \in Draftable, NEW op \in Ops, Written(op, i),
             Begin(e, op, Single(s, i))
      PROVE  IInv'
  <2>1. {s} \in SUBSET Names /\ Single(s, i) \in [{s} -> Draftable]
        /\ \A n \in {s} : Written(op, Single(s, i)[n])
    BY <1>1 DEF Single
  <2> QED  BY <1>1, <2>1, BeginIInv
<1>2. ASSUME NEW s \in Names, RequestCreate(e, s) \/ RequestUpdate(e, s)
      PROVE  IInv'
  <2>1. PICK d \in Requested, l \in Readings, op \in {"create", "update"} :
          Accepted(d, l) /\ Begin(e, op, Single(s, Normalized(d, l)))
    BY <1>2 DEF RequestCreate, RequestUpdate
  <2>2. d \in Definitions
    BY ScheduleAssumption DEF ScheduleAssumption
  <2>3. Normalized(d, l) \in Draftable /\ Written(op, Normalized(d, l)) /\ op \in Ops
    BY <2>1, <2>2, NormalizedType DEF Draftable, Ops, Written
  <2> QED  BY <1>1, <2>1, <2>3
<1>3. ASSUME NEW s \in Names, RequestSwitch(e, s)
      PROVE  IInv'
  <2>1. PICK enabled \in BOOLEAN, l \in Readings :
          /\ Exists(s)
          /\ enabled /\ row[s].kind = "once" => row[s].at > l
          /\ Begin(e, "switch", Single(s, Switched(row[s], enabled, l)))
    BY <1>3 DEF RequestSwitch
  <2>2. row[s] \in Rows
    BY <2>1 DEF Exists, IInv, Types, Table
  <2>3. Switched(row[s], enabled, l) \in Draftable
        /\ Written("switch", Switched(row[s], enabled, l))
    BY <2>1, <2>2, SwitchedType DEF Draftable, Written
  <2>4. "switch" \in Ops
    BY DEF Ops
  <2> QED  BY <1>1, <2>1, <2>3, <2>4
<1>4. ASSUME NEW s \in Names, RequestDelete(e, s)
      PROVE  IInv'
  <2>1. Begin(e, "delete", Single(s, NoRow)) /\ "delete" \in Ops
    BY <1>4 DEF RequestDelete, Ops
  <2>2. NoRow \in Draftable /\ Written("delete", NoRow)
    BY DEF Draftable, Written
  <2> QED  BY <1>1, <2>1, <2>2
<1>5. CASE ParseFiles(e)
  <2>1. PICK files \in Revisions, l \in Readings :
          /\ \A s \in DOMAIN files : Accepted(files[s], l)
          /\ Begin(e, "sync", [s \in DOMAIN files |-> Normalized(files[s], l)])
    BY <1>5 DEF ParseFiles
  <2>2. files \in UNION {[names -> Definitions] : names \in SUBSET Names}
    BY ScheduleAssumption DEF ScheduleAssumption
  <2>3. PICK names \in SUBSET Names : files \in [names -> Definitions]
    BY <2>2
  <2>4. \A s \in names : Normalized(files[s], l) \in Draftable
        /\ Written("sync", Normalized(files[s], l))
    BY <2>1, <2>3, NormalizedType DEF Draftable, Written
  <2> DEFINE inputs == [s \in DOMAIN files |-> Normalized(files[s], l)]
  <2>5. inputs \in [names -> Draftable] /\ \A s \in names : Written("sync", inputs[s])
    BY <2>3, <2>4
  <2>6. Begin(e, "sync", inputs) /\ "sync" \in Ops
    BY <2>1 DEF Ops
  <2> HIDE DEF inputs
  <2> QED  BY <2>5, <2>6, BeginIInv
<1> QED
  BY <1>2, <1>3, <1>4, <1>5

LEMMA GiveUpIInv ==
  ASSUME IInv, NEW e \in Editors, GiveUp(e)
  PROVE  IInv'
<1> USE DEF IInv
<1>1. /\ draft' = [draft EXCEPT ![e] = NoDraft]
      /\ UNCHANGED <<now, row, lock, stage, due, history, edits, crashes>>
  BY DEF GiveUp
<1>2. Types'
  BY <1>1 DEF Types, history
<1>3. Owed' /\ ClaimedOnce' /\ EnabledIsPlanned' /\ LockHeld' /\ Holding'
  BY <1>1 DEF history, Owed, Armed, ClaimedOnce, EnabledIsPlanned, Exists, LockHeld,
              Claimed, Holding, Due
<1>4. DraftsPlanned'
  <2> SUFFICES ASSUME NEW f \in Editors, draft'[f] # NoDraft,
                      NEW s \in DOMAIN draft'[f].inputs
               PROVE  Written(draft'[f].op, draft'[f].inputs[s])
    BY DEF DraftsPlanned, Named, Written, Planned
  <2>1. f # e /\ draft'[f] = draft[f]
    BY <1>1 DEF Types
  <2> QED  BY <2>1 DEF DraftsPlanned, Named
<1> QED
  BY <1>2, <1>3, <1>4

\* Whatever is written, if it is a row that is planned.
LEMMA StoreIInv ==
  ASSUME IInv, NEW e \in Editors, NEW names \in SUBSET Names, NEW new,
         Store(e, names, new),
         \A s \in names : new[s] = NoRow \/ (new[s] \in Rows /\ Planned(new[s]))
  PROVE  IInv'
<1> USE DEF IInv
<1>1. /\ Unlocked(names)
      /\ row' = [s \in Names |-> IF s \in names THEN new[s] ELSE row[s]]
      /\ fate' = [s \in Names |-> [t \in Times |->
                    IF s \notin names THEN fate[s][t]
                    ELSE IF Arms(new[s], t) THEN "none"
                    ELSE IF Due(s) /\ row[s].next = t THEN "skipped"
                    ELSE fate[s][t]]]
      /\ again' = [s \in Names |-> IF s \notin names THEN again[s]
                                  ELSE {t \in again[s] : ~Arms(new[s], t)}]
      /\ behind' = [s \in Names |-> IF s \notin names THEN behind[s]
                                   ELSE {t \in behind[s] : ~Arms(new[s], t)}]
      /\ draft' = [draft EXCEPT ![e] = NoDraft]
      /\ UNCHANGED <<now, lock, stage, due, edits, crashes>>
  BY DEF Store
<1>2. Types'
  <2>1. row' \in [Names -> Table]
    BY <1>1 DEF Types, Table
  <2>2. fate' \in [Names -> [Times -> Fates]]
    BY <1>1 DEF Types, Fates
  <2> QED  BY <1>1, <2>1, <2>2 DEF Types
<1>3. ClaimedOnce'
  BY <1>1 DEF ClaimedOnce
<1>4. Owed'
  <2> SUFFICES ASSUME NEW s \in Names, Armed(row'[s]), fate'[s][row'[s].next] \in Taken
               PROVE  row'[s].next \in behind'[s]
    BY DEF Owed, Armed
  <2>0. row'[s].next \in Times
    BY <1>2 DEF Types, Table, Armed, Rows
  <2>1. CASE s \in names
    <3>1. Arms(new[s], row'[s].next)
      BY <1>1, <2>1 DEF Arms
    <3>2. fate'[s][row'[s].next] = "none"
      BY <1>1, <2>0, <2>1, <3>1
    <3> QED  BY <3>2 DEF Taken
  <2>2. CASE s \notin names
    BY <1>1, <2>0, <2>2 DEF Owed
  <2> QED  BY <2>1, <2>2
<1>5. EnabledIsPlanned'
  <2> SUFFICES ASSUME NEW s \in Names, row'[s] # NoRow, row'[s].enabled
               PROVE  row'[s].next # Never
    BY DEF EnabledIsPlanned, Exists
  <2> QED  BY <1>1 DEF EnabledIsPlanned, Exists, Planned
<1>6. Holding'
  <2> SUFFICES ASSUME NEW v \in Workers, NEW s \in Names, NEW t \in Times,
                      stage[v] = "claiming", <<s, t>> \in due[v]
               PROVE  lock[s] = v /\ Due(s)' /\ row'[s].next = t
    BY <1>1 DEF Holding
  <2>1. lock[s] = v /\ Due(s) /\ row[s].next = t
    BY DEF Holding
  <2>2. s \notin names
    BY <1>1, <2>1, FreeAssumption DEF Unlocked, FreeAssumption
  <2> QED  BY <1>1, <2>1, <2>2 DEF Due, Armed
<1>7. LockHeld'
  BY <1>1 DEF LockHeld, Claimed
<1>8. DraftsPlanned'
  <2> SUFFICES ASSUME NEW f \in Editors, draft'[f] # NoDraft,
                      NEW s \in DOMAIN draft'[f].inputs
               PROVE  Written(draft'[f].op, draft'[f].inputs[s])
    BY DEF DraftsPlanned, Named, Written, Planned
  <2>1. f # e /\ draft'[f] = draft[f]
    BY <1>1 DEF Types
  <2> QED  BY <2>1 DEF DraftsPlanned, Named
<1> QED
  BY <1>2, <1>3, <1>4, <1>5, <1>6, <1>7, <1>8

LEMMA WriteIInv ==
  ASSUME IInv, NEW e \in Editors,
         \/ CreateSchedule(e) \/ UpdateSchedule(e) \/ SetScheduleEnabled(e)
         \/ DeleteSchedule(e) \/ ApplySync(e)
  PROVE  IInv'
<1> DEFINE op == draft[e].op
           inputs == draft[e].inputs
<1>1. /\ Named(e) \in SUBSET Names
      /\ op # "delete" => \A s \in Named(e) : inputs[s] \in Inputs /\ Planned(inputs[s])
  <2>1. op \in Ops
    BY DEF CreateSchedule, UpdateSchedule, SetScheduleEnabled, DeleteSchedule,
           ApplySync, Ops
  <2>2. draft[e] # NoDraft
    BY <2>1 DEF Ops, NoDraft
  <2>3. draft[e] \in Drafts
    BY <2>2 DEF IInv, Types
  <2>4. PICK names \in SUBSET Names : inputs \in [names -> Inputs \cup {NoRow}]
    BY <2>3 DEF Drafts
  <2>5. \A s \in Named(e) : Written(op, inputs[s])
    BY <2>2 DEF IInv, DraftsPlanned
  <2> QED  BY <2>4, <2>5 DEF Named, Written, Planned
<1>2. ASSUME NEW i \in Inputs, NEW managed \in BOOLEAN, Planned(i)
      PROVE  Stored(i, managed) \in Rows /\ Planned(Stored(i, managed))
  BY <1>2 DEF Stored, Inputs, Rows, Planned, NoRow
<1>3. CASE CreateSchedule(e) \/ UpdateSchedule(e)
  <2>1. PICK names \in SUBSET Named(e) :
          Store(e, names, [s \in Named(e) |-> Stored(inputs[s], FALSE)])
    BY <1>3 DEF CreateSchedule, UpdateSchedule
  <2>2. op # "delete"
    BY <1>3 DEF CreateSchedule, UpdateSchedule
  <2> DEFINE new == [s \in Named(e) |-> Stored(inputs[s], FALSE)]
  <2>3. \A s \in names : new[s] \in Rows /\ Planned(new[s])
    BY <1>1, <1>2, <2>2
  <2>4. names \in SUBSET Names /\ Store(e, names, new)
    BY <1>1, <2>1
  <2> HIDE DEF new
  <2> QED  BY <2>3, <2>4, StoreIInv
<1>4. CASE SetScheduleEnabled(e)
  <2> DEFINE names == {s \in Named(e) : Exists(s)}
             new == [s \in names |-> [kind |-> row[s].kind, at |-> row[s].at,
                                      enabled |-> inputs[s].enabled,
                                      next |-> inputs[s].next,
                                      managed |-> FALSE]]
  <2>1. op # "delete" /\ Store(e, names, new)
    BY <1>4 DEF SetScheduleEnabled
  <2>2. ASSUME NEW s \in names
        PROVE  new[s] \in Rows /\ Planned(new[s])
    <3>1. row[s] \in Rows
      BY <1>1 DEF Exists, IInv, Types, Table
    <3>2. inputs[s] \in Inputs /\ Planned(inputs[s])
      BY <1>1, <2>1
    <3> QED  BY <3>1, <3>2 DEF Rows, Inputs, Planned, NoRow
  <2>3. names \in SUBSET Names
    BY <1>1
  <2> HIDE DEF names, new
  <2> QED  BY <2>1, <2>2, <2>3, StoreIInv
<1>5. CASE DeleteSchedule(e)
  <2> DEFINE names == {s \in Named(e) : Exists(s)}
             new == [s \in Named(e) |-> NoRow]
  <2>1. Store(e, names, new) /\ names \in SUBSET Names
    BY <1>1, <1>5 DEF DeleteSchedule
  <2>2. \A s \in names : new[s] = NoRow \/ (new[s] \in Rows /\ Planned(new[s]))
    OBVIOUS
  <2> HIDE DEF names, new
  <2> QED  BY <2>1, <2>2, StoreIInv
<1>6. CASE ApplySync(e)
  <2> DEFINE stale == {s \in Names \ Named(e) : Exists(s) /\ row[s].managed}
             new == [s \in Named(e) \cup stale |->
                       IF s \in stale THEN NoRow ELSE Stored(inputs[s], TRUE)]
  <2>1. op # "delete" /\ Store(e, Named(e) \cup stale, new)
    BY <1>6 DEF ApplySync
  <2>2. ASSUME NEW s \in Named(e) \cup stale
        PROVE  new[s] = NoRow \/ (new[s] \in Rows /\ Planned(new[s]))
    <3>1. CASE s \in stale
      BY <3>1
    <3>2. CASE s \notin stale
      <4>1. new[s] = Stored(inputs[s], TRUE)
        BY <3>2
      <4>2. inputs[s] \in Inputs /\ Planned(inputs[s])
        BY <1>1, <2>1, <3>2
      <4> QED  BY <1>2, <4>1, <4>2
    <3> QED  BY <3>1, <3>2
  <2>3. Named(e) \cup stale \in SUBSET Names
    BY <1>1
  <2> HIDE DEF stale, new
  <2> QED  BY <2>1, <2>2, <2>3, StoreIInv
<1> QED
  BY <1>3, <1>4, <1>5, <1>6

-----------------------------------------------------------------------------
(* The theorems.                                                           *)

LEMMA StepIInv == IInv /\ [Next]_vars => IInv'
<1> SUFFICES ASSUME IInv, [Next]_vars PROVE IInv'
  OBVIOUS
<1>1. CASE UNCHANGED vars
  BY <1>1 DEF vars, history, IInv, Types, Owed, Armed, Holding, Due, LockHeld, Claimed,
              DraftsPlanned, Named, ClaimedOnce, EnabledIsPlanned, Exists
<1>2. CASE Tick
  BY <1>2, TickIInv
<1>3. ASSUME NEW e \in Editors, Edit(e) PROVE IInv'
  BY <1>3, RequestIInv, GiveUpIInv, WriteIInv DEF Edit
<1>4. ASSUME NEW w \in Workers, Work(w) \/ Crash(w) PROVE IInv'
  BY <1>4, ClaimIInv, CommitIInv, LaunchIInv, CrashIInv DEF Work
<1> QED
  BY <1>1, <1>2, <1>3, <1>4 DEF Next

LEMMA Inductive == Spec => []IInv
BY InitIInv, StepIInv, PTL DEF Spec

\* Rows, claims and drafts stay well formed, and a lock belongs to a worker
\* that is claiming a row that exists (dispatchDueSchedules).
THEOREM Typed == Spec => []TypeOK
<1>1. IInv => TypeOK
  <2> SUFFICES ASSUME IInv PROVE TypeOK
    OBVIOUS
  <2>1. ASSUME NEW s \in Names, lock[s] # Free
        PROVE  stage[lock[s]] = "claiming" /\ s \in Claimed(lock[s]) /\ Exists(s)
    <3>1. lock[s] \in Workers /\ stage[lock[s]] = "claiming" /\ s \in Claimed(lock[s])
      BY <2>1 DEF IInv, Types, LockHeld
    <3> DEFINE w == lock[s]
    <3>2. PICK t \in Times : <<s, t>> \in due[w]
      <4>1. due[w] \subseteq Claims
        BY <3>1 DEF IInv, Types
      <4>2. PICK c \in due[w] : s = c[1]
        BY <3>1 DEF Claimed
      <4> QED  BY <4>1, <4>2 DEF Claims
    <3>3. Due(s)
      BY <3>1, <3>2 DEF IInv, Holding
    <3> QED  BY <3>1, <3>3 DEF Due, Armed, Exists
  <2> QED  BY <2>1 DEF IInv, Types, TypeOK, Table
<1> QED
  BY <1>1, Inductive, PTL

\* Whichever replicas poll, whatever stops, whoever writes meanwhile and
\* however far their clocks are apart, a time of a schedule is claimed twice
\* until its row is written again only if a replica advanced the row, when the
\* time was claimed or after, by a clock that had not reached it.
THEOREM NoTimeTwice == Spec => []ClaimedOnce
<1>1. IInv => ClaimedOnce
  BY DEF IInv
<1> QED
  BY <1>1, Inductive, PTL

\* Whoever wrote a schedule last, from whatever it had read, an enabled
\* schedule has a time to run at.
THEOREM AlwaysPlanned == Spec => []EnabledIsPlanned
<1>1. IInv => EnabledIsPlanned
  BY DEF IInv
<1> QED
  BY <1>1, Inductive, PTL
=============================================================================
