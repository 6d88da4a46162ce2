--------------------- MODULE DispatcherRefinementProofs ---------------------
(* Every step of the dispatcher is a step of JobTracker or changes nothing  *)
(* that JobTracker sees.                                                    *)
EXTENDS DispatcherRefinement, DispatcherProofs

\* A run stands in the queue or in the private list of some pumpQueue.
Listed(r) == Queued(r) \/ \E w \in Pumps : r \in ToSet(pumpJobs[w])

\* The mapped state, run by run and connection by connection.
Mapping ==
  /\ Waiting = {r \in Runs : Listed(r) /\ ~Assigned(r)}
  /\ Tracker!Placed = {r \in Runs : Assigned(r)}
  /\ \A r \in Runs : Assigned(r) <=> \E c \in Conns : r \in inflight[c]
  /\ Up = {runners[c] : c \in {d \in Conns : Registered(d)}}
  /\ Jobs \in [Runners -> SUBSET Runs]
  /\ \A c \in Conns : Registered(c) => Jobs[runners[c]] = inflight[c]
  /\ \A id \in Runners \ Up : Jobs[id] = {}

\* The mapping reads as intended wherever the invariants hold.
LEMMA MappingHolds == TypeOK /\ SafetyInv => Mapping
<1> SUFFICES ASSUME TypeOK, SafetyInv PROVE Mapping
  OBVIOUS
<1>1. /\ runners \in [Conns -> Runners \cup {NoRunner}] /\ NoRunner \notin Runners
      /\ inflight \in [Conns -> SUBSET Runs]
  BY SetsAssumption DEF TypeOK, ServerType
<1>2. Waiting = {r \in Runs : Listed(r) /\ ~Assigned(r)}
  BY DEF Waiting, Held, Tracked, Listed
<1>3. \A c \in Conns : Registered(c) =>
        runners[c] \in Runners /\ RunnerByID(runners[c]) = {c}
  BY <1>1 DEF Registered, RunnerByID, SafetyInv, OneConnection
<1>4. Jobs \in [Runners -> SUBSET Runs]
  BY <1>1 DEF Jobs, RunnerByID
<1>5. \A c \in Conns : Registered(c) => Jobs[runners[c]] = inflight[c]
  BY <1>3 DEF Jobs
<1>6. Up = {runners[c] : c \in {d \in Conns : Registered(d)}}
  BY <1>1 DEF Up, RunnerByID, Registered
<1>7. \A id \in Runners \ Up : Jobs[id] = {}
  BY DEF Jobs, Up
<1>8. \A r \in Runs : Assigned(r) <=> \E c \in Conns : r \in inflight[c]
  BY DEF Assigned, SafetyInv, Vacant
<1>9. Tracker!Placed = {r \in Runs : Assigned(r)}
  <2>1. \A r \in Tracker!Placed : r \in Runs /\ Assigned(r)
    <3> TAKE r \in Tracker!Placed
    <3>1. PICK id \in Runners : r \in Jobs[id]
      BY DEF Tracker!Placed
    <3>2. PICK c \in RunnerByID(id) : r \in inflight[c]
      BY <3>1 DEF Jobs
    <3> QED BY <1>1, <3>2 DEF RunnerByID, Assigned, Registered
  <2>2. \A r \in Runs : Assigned(r) => r \in Tracker!Placed
    BY <1>3, <1>5 DEF Assigned, Tracker!Placed
  <2> QED BY <2>1, <2>2
<1> QED BY <1>2, <1>4, <1>5, <1>6, <1>7, <1>8, <1>9 DEF Mapping

\* It does so after a step as well.
LEMMA MappingNext == (TypeOK /\ SafetyInv)' => Mapping'
BY MappingHolds, PTL
\* The instance counts as its host does.
LEMMA TrackerCardinality == \A S : Tracker!Cardinality(S) = Cardinality(S)
BY DEF Tracker!Cardinality, Cardinality
-----------------------------------------------------------------------------
(* Steps.                                                                  *)

\* What the abstract variables do not depend on may change unseen.
LEMMA Unseen ==
  ASSUME UNCHANGED <<runners, inflight, open>>,
         \A r \in Runs : (Listed(r) /\ ~Assigned(r)) <=> (Listed(r) /\ ~Assigned(r))'
  PROVE  UNCHANGED Tracker!vars
<1>1. Waiting' = Waiting
  BY DEF Waiting, Held, Tracked, Listed
<1>2. Jobs' = Jobs /\ Up' = Up
  BY DEF Jobs, Up, RunnerByID
<1> QED BY <1>1, <1>2 DEF Tracker!vars

\* Placing a job, be it a submitted one or one a pumpQueue gives up: tracked
\* jobs stay as they are, others are placed or have to wait.
LEMMA PlaceStep ==
  ASSUME TypeOK, SafetyInv, TypeOK', SafetyInv', NEW r \in Runs, PlaceJob(r),
         UNCHANGED open,
         \A x \in Runs \ {r} : (\E w \in Pumps : x \in ToSet(pumpJobs[w]))
                             <=> (\E w \in Pumps : x \in ToSet(pumpJobs[w]))'
  PROVE  [Tracker!Next]_Tracker!vars
<1>1. Mapping /\ Mapping'
  BY MappingHolds, MappingNext
<1>2. CASE Tracked(r)
  <2>1. UNCHANGED <<queue, runners, inflight>>
    BY <1>2 DEF PlaceJob, server
  <2>2. \A x \in Runs : (Listed(x) /\ ~Assigned(x)) <=> (Listed(x) /\ ~Assigned(x))'
    BY <1>2, <2>1 DEF Tracked, Listed, Queued, Assigned, Registered
  <2> QED BY <2>1, <2>2, Unseen
<1>3. CASE ~Tracked(r)
  <2>1. ServerType /\ ~Queued(r) /\ ~Assigned(r)
    BY <1>3 DEF TypeOK, Tracked
  <2>2. PICK p \in PickRunner(r) :
          IF p.conn # 0 /\ Len(sendCh[p.conn]) < SendBuf
          THEN Assign(r, p.conn, p.affinity) ELSE KeepQueued(r, p.affinity)
    BY <1>3 DEF PlaceJob, DispatchOrQueue
  <2>3. CASE p.conn # 0 /\ Assign(r, p.conn, p.affinity)
    <3> DEFINE c == p.conn
    <3>1. c \in Conns /\ Eligible(c, r) /\ Registered(c)
      BY <2>1, <2>3, PickRunnerFacts DEF Eligible
    <3>2. /\ inflight' = [inflight EXCEPT ![c] = inflight[c] \cup {r}]
          /\ UNCHANGED <<queue, runners>>
      BY <2>3 DEF Assign
    <3> HIDE DEF c
    <3>3. inflight \in [Conns -> SUBSET Runs] /\ runners[c] \in Runners
      BY <2>1, <3>1 DEF ServerType, Registered
    <3>4. r \notin Tracker!Placed /\ runners[c] \in Up
      BY <1>1, <2>1, <3>1 DEF Mapping
    <3>5. Cardinality(Jobs[runners[c]]) < Slots[runners[c]]
      <4>1. Jobs[runners[c]] = inflight[c] /\ Slots[runners[c]] = CapacityOf(runners[c])
        BY <1>1, <3>1, <3>3 DEF Mapping, Slots
      <4>2. CapacityOf(runners[c]) \in Int
        BY <3>3, JobsAssumption DEF CapacityOf
      <4>3. Cardinality(inflight[c]) <= Load(c) /\ Load(c) < CapacityOf(runners[c])
        BY <2>1, <3>1, LoadFacts DEF Eligible, HasRoom
      <4>4. Cardinality(inflight[c]) \in Int /\ Load(c) \in Int
        BY <2>1, <3>1, LoadFacts
      <4> QED BY <4>1, <4>2, <4>3, <4>4
    <3>6. Jobs' = [Jobs EXCEPT ![runners[c]] = Jobs[runners[c]] \cup {r}]
      <4>1. \A id \in Runners : Jobs'[id] = IF id = runners[c] THEN Jobs[id] \cup {r}
                                            ELSE Jobs[id]
        BY <3>1, <3>2, <3>3 DEF Jobs, RunnerByID, Registered
      <4> QED BY <1>1, <3>3, <4>1 DEF Mapping
    <3>7. Up' = Up
      BY <3>2 DEF Up, RunnerByID
    <3>8. Waiting' = Waiting \ {r}
      <4>1. Assigned(r)'
        BY <3>1, <3>2, <3>3 DEF Assigned, Registered
      <4>2. \A x \in Runs \ {r} : (Assigned(x) <=> Assigned(x)') /\ (Listed(x) <=> Listed(x)')
        BY <3>1, <3>2, <3>3 DEF Assigned, Registered, Listed, Queued
      <4> QED BY <1>1, <4>1, <4>2 DEF Mapping
    <3>9. PICK id \in Runners : id = runners[c]
      BY <3>3
    <3>10. id \in Up /\ Cardinality(Jobs[id]) < Slots[id]
      BY <3>4, <3>5, <3>9
    <3>11. Tracker!Place(r, id)
      <4>1. Jobs' = [Jobs EXCEPT ![id] = Jobs[id] \cup {r}]
        BY <3>6, <3>9
      <4> QED BY <3>4, <3>7, <3>8, <3>10, <4>1, TrackerCardinality DEF Tracker!Place
    <3> QED BY <3>11 DEF Tracker!Next
  <2>4. CASE KeepQueued(r, p.affinity)
    <3>1. queue' = Append(queue, r) /\ UNCHANGED <<runners, inflight>>
      BY <2>1, <2>4 DEF KeepQueued, Enqueue, Queued
    <3>2. ToSet(queue') = ToSet(queue) \cup {r}
      BY <2>1, <3>1, AppendFacts DEF ServerType
    <3>3. \A x \in Runs : Assigned(x) <=> Assigned(x)'
      BY <3>1 DEF Assigned, Registered
    <3>4. Jobs' = Jobs /\ Up' = Up
      BY <3>1 DEF Jobs, Up, RunnerByID
    <3>5. Waiting' = Waiting \cup {r}
      <4>1. Listed(r)' /\ \A x \in Runs \ {r} : Listed(x) <=> Listed(x)'
        BY <3>2 DEF Listed, Queued
      <4> QED BY <1>1, <2>1, <3>3, <4>1 DEF Mapping
    <3>6. CASE r \in Waiting
      BY <3>4, <3>5, <3>6 DEF Tracker!vars
    <3>7. CASE r \notin Waiting
      <4>1. r \notin Waiting \cup Tracker!Placed
        BY <1>1, <2>1, <3>7 DEF Mapping
      <4> QED BY <3>4, <3>5, <4>1 DEF Tracker!Next, Tracker!Accept
    <3> QED BY <3>6, <3>7
  <2> QED BY <2>2, <2>3, <2>4
<1> QED BY <1>2, <1>3
\* What stands in a list is its head or stands in its tail.
LEMMA HeadOrTail ==
  ASSUME NEW q \in Seq(Runs), q # <<>>
  PROVE  \A x : x \in ToSet(q) <=> x = Head(q) \/ x \in ToSet(Tail(q))
<1>1. /\ Len(q) \in Nat \ {0} /\ DOMAIN q = 1..Len(q)
      /\ DOMAIN Tail(q) = 1..(Len(q) - 1)
      /\ \A i \in 1..(Len(q) - 1) : Tail(q)[i] = q[i + 1]
      /\ Head(q) = q[1]
  OBVIOUS
<1>2. ASSUME NEW x, x \in ToSet(q), x # Head(q) PROVE x \in ToSet(Tail(q))
  <2>1. PICK i \in 1..Len(q) : q[i] = x
    BY <1>1, <1>2 DEF ToSet
  <2>2. i - 1 \in 1..(Len(q) - 1) /\ Tail(q)[i - 1] = x
    BY <1>1, <1>2, <2>1
  <2> QED BY <1>1, <2>2 DEF ToSet
<1> QED BY <1>2, HeadTailFacts, <1>1 DEF ToSet
\* Connections of some runners go: their jobs wait again, all at once.
LEMMA LoseStep ==
  ASSUME TypeOK, SafetyInv, TypeOK', SafetyInv', NEW ids \in SUBSET Runners,
         Disconnect({c \in Conns : runners[c] \in ids}),
         UNCHANGED <<pumpJobs, open>>
  PROVE  [Tracker!Next]_Tracker!vars
<1> DEFINE gone == {c \in Conns : runners[c] \in ids}
           jobs == UNION {inflight[c] : c \in gone}
           lost == ids \cap Up
<1>1. Mapping /\ Mapping'
  BY MappingHolds, MappingNext
<1>2. /\ runners \in [Conns -> Runners \cup {NoRunner}] /\ NoRunner \notin ids
      /\ inflight \in [Conns -> SUBSET Runs] /\ queue \in Seq(Runs)
      /\ jobs \in SUBSET Runs
  BY SetsAssumption DEF TypeOK, ServerType
<1>3. \A c \in Conns : /\ runners'[c] = IF c \in gone THEN NoRunner ELSE runners[c]
                       /\ inflight'[c] = IF c \in gone THEN {} ELSE inflight[c]
  BY DEF Disconnect
<1>4. ToSet(queue') = ToSet(queue) \cup jobs
  BY <1>2, EnqueueAllFacts DEF Disconnect
<1>5. \A x \in Runs : Listed(x)' <=> Listed(x) \/ x \in jobs
  BY <1>4 DEF Listed, Queued
<1>6. \A x \in Runs : Assigned(x)' <=> Assigned(x) /\ x \notin jobs
  <2>1. \A x \in Runs : Assigned(x)' <=> \E c \in Conns \ gone : x \in inflight[c]
    BY <1>1, <1>3 DEF Mapping
  <2>2. \A x \in Runs : Assigned(x) <=> \E c \in Conns : x \in inflight[c]
    BY <1>1 DEF Mapping
  <2>3. \A c \in Conns \ gone : inflight[c] \cap jobs = {}
    BY DEF SafetyInv, TrackedOnce
  <2> QED BY <2>1, <2>2, <2>3
<1>7. \A id \in Runners : RunnerByID(id)' = IF id \in ids THEN {} ELSE RunnerByID(id)
  BY <1>2, <1>3 DEF RunnerByID
<1>8. Up' = Up \ lost
  BY <1>7 DEF Up
<1>9. Jobs' = [id \in Runners |-> IF id \in lost THEN {} ELSE Jobs[id]]
  <2>1. \A id \in Runners : Jobs'[id] = IF id \in ids THEN {} ELSE Jobs[id]
    <3> TAKE id \in Runners
    <3>1. CASE id \in ids
      BY <1>7, <3>1 DEF Jobs
    <3>2. CASE id \notin ids
      <4>1. \A c \in RunnerByID(id) : inflight'[c] = inflight[c]
        BY <1>3, <3>2 DEF RunnerByID
      <4> QED BY <1>7, <3>2, <4>1 DEF Jobs
    <3> QED BY <3>1, <3>2
  <2>2. \A id \in Runners \ Up : Jobs[id] = {}
    BY <1>1 DEF Mapping
  <2> QED BY <1>1, <2>1, <2>2 DEF Mapping
<1>10. jobs = UNION {Jobs[id] : id \in lost}
  <2>1. \A c \in gone : runners[c] \in lost /\ Jobs[runners[c]] = inflight[c]
    BY <1>1, <1>2 DEF Mapping, Registered
  <2>2. \A id \in lost : \E c \in gone : runners[c] = id
    BY <1>1 DEF Mapping
  <2> QED BY <2>1, <2>2
<1>11. Waiting' = Waiting \cup UNION {Jobs[id] : id \in lost}
  <2>1. Waiting' = Waiting \cup jobs
    BY <1>1, <1>2, <1>5, <1>6 DEF Mapping
  <2> QED BY <1>10, <2>1
<1>12. CASE lost = {}
  <2>1. Waiting' = Waiting /\ Up' = Up /\ Jobs' = Jobs
    BY <1>1, <1>8, <1>9, <1>11, <1>12 DEF Mapping
  <2> QED BY <2>1 DEF Tracker!vars
<1>13. CASE lost # {}
  <2> HIDE DEF lost
  <2>1. PICK back : back = lost
    OBVIOUS
  <2>2. /\ Up' = Up \ back /\ Waiting' = Waiting \cup UNION {Jobs[id] : id \in back}
        /\ Jobs' = [id \in Runners |-> IF id \in back THEN {} ELSE Jobs[id]]
    BY <1>8, <1>9, <1>11, <2>1
  <2>3. back # {} /\ back \subseteq Up /\ back \in SUBSET Runners
    BY <1>13, <2>1 DEF lost
  <2>4. Tracker!Lose(back)
    BY <2>2, <2>3 DEF Tracker!Lose
  <2> QED BY <2>3, <2>4 DEF Tracker!Next
<1> QED BY <1>12, <1>13
\* A job's end frees its slot; the run waits again if its runner or an earlier
\* list says so.
LEMMA EndStep ==
  ASSUME TypeOK, SafetyInv, TypeOK', SafetyInv', NEW c \in Conns, NEW r \in Runs,
         NEW status, JobResult(c, r, status)
  PROVE  [Tracker!Next]_Tracker!vars
<1>1. Mapping /\ Mapping'
  BY MappingHolds, MappingNext
<1>2. /\ Registered(c) /\ UNCHANGED <<runners, pumpJobs, open>>
      /\ inflight' = [inflight EXCEPT ![c] = inflight[c] \ {r}]
      /\ \/ queue' = queue
         \/ queue' = Append(queue, r) /\ r \in inflight[c]
  BY DEF JobResult, workers
<1>3. inflight \in [Conns -> SUBSET Runs] /\ runners[c] \in Runners /\ queue \in Seq(Runs)
  BY <1>2 DEF TypeOK, ServerType, Registered
<1>4. CASE r \notin inflight[c]
  <2>1. inflight' = inflight /\ queue' = queue
    BY <1>2, <1>3, <1>4
  <2> QED BY <1>2, <2>1, Unseen DEF Listed, Queued, Assigned, Registered
<1>5. CASE r \in inflight[c]
  <2>1. PICK id \in Runners : id = runners[c]
    BY <1>3
  <2>2. r \in Jobs[id] /\ Assigned(r)
    BY <1>1, <1>2, <1>5, <2>1 DEF Mapping
  <2>3. Jobs' = [Jobs EXCEPT ![id] = Jobs[id] \ {r}]
    <3>1. RunnerByID(id) = {c}
      BY <1>2, <2>1 DEF RunnerByID, SafetyInv, OneConnection, Registered
    <3>2. \A x \in Runners \ {id} : c \notin RunnerByID(x)
      BY <2>1 DEF RunnerByID
    <3>3. \A x \in Runners : RunnerByID(x)' = RunnerByID(x)
      BY <1>2 DEF RunnerByID
    <3>4. \A x \in Runners : Jobs'[x] = IF x = id THEN Jobs[x] \ {r} ELSE Jobs[x]
      <4> TAKE x \in Runners
      <4>1. CASE x = id
        BY <1>2, <1>3, <3>1, <3>3, <4>1 DEF Jobs
      <4>2. CASE x # id
        <5>1. \A d \in RunnerByID(x) : inflight'[d] = inflight[d]
          BY <1>2, <1>3, <3>2, <4>2 DEF RunnerByID
        <5> QED BY <3>3, <4>2, <5>1 DEF Jobs
      <4> QED BY <4>1, <4>2
    <3> QED BY <1>1, <3>4 DEF Mapping
  <2>4. Up' = Up
    BY <1>2 DEF Up, RunnerByID
  <2>5. Waiting' \in {Waiting, Waiting \cup {r}}
    <3>1. \A x \in Runs \ {r} : (Listed(x) <=> Listed(x)') /\ (Assigned(x) <=> Assigned(x)')
      <4>1. ToSet(queue') = ToSet(queue) \/ ToSet(queue') = ToSet(queue) \cup {r}
        <5>1. ToSet(Append(queue, r)) = ToSet(queue) \cup {r}
          BY <1>3, AppendFacts
        <5> QED BY <1>2, <5>1
      <4> QED BY <1>2, <1>3, <4>1 DEF Listed, Queued, Assigned, Registered
    <3>2. r \notin Waiting
      BY <1>1, <2>2 DEF Mapping
    <3> QED BY <1>1, <3>1, <3>2 DEF Mapping
  <2>6. Tracker!End(r, id)
    BY <1>2, <2>2, <2>3, <2>4, <2>5 DEF Tracker!End
  <2> QED BY <2>6 DEF Tracker!Next
<1> QED BY <1>4, <1>5

\* A registered runner is one more that is connected, with no job yet.
LEMMA ConnectStep ==
  ASSUME TypeOK, SafetyInv, NEW id \in Runners, AddRunner(id)
  PROVE  Tracker!Connect(id)
<1> DEFINE c == connSeq + 1
<1>1. c \in Conns /\ ~Registered(c) /\ inflight[c] = {}
  BY BoundsAssumption DEF AddRunner, TypeOK, WorkerType, Conns, SafetyInv, Vacant
<1>2. /\ runners' = [runners EXCEPT ![c] = id] /\ RunnerByID(id) = {}
      /\ UNCHANGED <<queue, inflight, pumpJobs, open>>
  BY DEF AddRunner, Admits, workers
<1>3. runners \in [Conns -> Runners \cup {NoRunner}] /\ id # NoRunner
  BY SetsAssumption DEF TypeOK, ServerType
<1> HIDE DEF c
<1>4. \A x \in Runners : RunnerByID(x)' = IF x = id THEN {c} ELSE RunnerByID(x)
  BY <1>1, <1>2, <1>3 DEF RunnerByID, Registered
<1>5. id \notin Up /\ Up' = Up \cup {id}
  BY <1>2, <1>4 DEF Up
<1>6. Jobs' = Jobs
  <2>1. \A x \in Runners : UNION {inflight'[d] : d \in RunnerByID(x)'}
                          = UNION {inflight[d] : d \in RunnerByID(x)}
    BY <1>1, <1>2, <1>4
  <2> QED BY <2>1 DEF Jobs
<1>7. Waiting' = Waiting
  <2>1. \A r \in Runs : Assigned(r)' <=> Assigned(r)
    BY <1>1, <1>2, <1>3 DEF Assigned, Registered
  <2> QED BY <1>2, <2>1 DEF Waiting, Held, Tracked, Queued
<1> QED BY <1>2, <1>5, <1>6, <1>7 DEF Tracker!Connect

\* A pumpQueue takes the queue, or leaves out a job whose run is closed.
LEMMA PumpStep ==
  ASSUME TypeOK, SafetyInv, TypeOK', SafetyInv', NEW w \in Pumps,
         PumpStart(w) \/ PumpCheck(w)
  PROVE  [Tracker!Next]_Tracker!vars
<1>1. pumpJobs \in [Pumps -> Seq(Runs)]
  BY DEF TypeOK, WorkerType
<1>2. CASE PumpStart(w)
  <2>1. \A r \in Runs : Listed(r) <=> Listed(r)'
    <3>1. ToSet(<<>>) = {}
      BY DEF ToSet
    <3>2. /\ pumpJobs[w] = <<>> /\ queue' = <<>>
          /\ pumpJobs' = [pumpJobs EXCEPT ![w] = queue]
      BY <1>2 DEF PumpStart
    <3> QED BY <1>1, <3>1, <3>2 DEF Listed, Queued
  <2>2. UNCHANGED <<runners, inflight, open>>
    BY <1>2 DEF PumpStart
  <2> QED BY <2>1, <2>2, Unseen DEF Assigned, Registered
<1>3. CASE PumpCheck(w)
  <2>1. UNCHANGED <<queue, runners, inflight, open>>
    BY <1>3 DEF PumpCheck, server
  <2>2. CASE UNCHANGED pumpJobs
    BY <2>1, <2>2, Unseen DEF Listed, Queued, Assigned, Registered
  <2>3. CASE /\ Head(pumpJobs[w]) \notin open /\ pumpJobs[w] # <<>>
             /\ pumpJobs' = [pumpJobs EXCEPT ![w] = Tail(pumpJobs[w])]
    <3>1. PICK r \in Runs : r = Head(pumpJobs[w])
      BY <1>1, <2>3, HeadTailFacts
    <3>2. \A x : x \in ToSet(pumpJobs[w]) <=> x = r \/ x \in ToSet(pumpJobs'[w])
      BY <1>1, <2>3, <3>1, HeadOrTail
    <3>3. /\ \A x \in Runs \ {r} : Listed(x) <=> Listed(x)'
          /\ Listed(r)
      BY <1>1, <2>1, <2>3, <3>2 DEF Listed, Queued
    <3>4. \A x \in Runs : Assigned(x) <=> Assigned(x)'
      BY <2>1 DEF Assigned, Registered
    <3>5. CASE Listed(r)' \/ Assigned(r)
      BY <2>1, <3>3, <3>4, <3>5, Unseen
    <3>6. CASE ~Listed(r)' /\ ~Assigned(r)
      <4>1. Jobs' = Jobs /\ Up' = Up
        BY <2>1 DEF Jobs, Up, RunnerByID
      <4>2. r \in Waiting \ open /\ Waiting' = Waiting \ {r}
        BY <2>3, <3>1, <3>3, <3>4, <3>6, MappingHolds, MappingNext DEF Mapping
      <4>3. Tracker!Drop(r)
        BY <2>1, <4>1, <4>2 DEF Tracker!Drop
      <4> QED BY <4>3 DEF Tracker!Next
    <3> QED BY <3>5, <3>6
  <2> QED BY <1>3, <2>2, <2>3 DEF PumpCheck
<1> QED BY <1>2, <1>3

-----------------------------------------------------------------------------
\* Every step maps to a step or to a stutter.
LEMMA Simulation ==
  ASSUME TypeOK, SafetyInv, [Next]_vars
  PROVE  [Tracker!Next]_Tracker!vars
<1>0. TypeOK' /\ SafetyInv'
  BY TypeStep, SafetyStep
<1>1. ASSUME NEW s \in Callers, SubmitJob(s) PROVE [Tracker!Next]_Tracker!vars
  <2>1. submit[s] \in Runs /\ PlaceJob(submit[s]) /\ UNCHANGED <<pumpJobs, open>>
    BY <1>1 DEF SubmitJob, workers, TypeOK, WorkerType
  <2>2. PICK r \in Runs : r = submit[s]
    BY <2>1
  <2> QED BY <1>0, <2>1, <2>2, PlaceStep
<1>2. ASSUME NEW w \in Pumps, PumpDispatch(w) PROVE [Tracker!Next]_Tracker!vars
  <2>1. /\ pumpJobs \in [Pumps -> Seq(Runs)] /\ pumpJobs[w] # <<>>
        /\ pumpJobs' = [pumpJobs EXCEPT ![w] = Tail(pumpJobs[w])]
        /\ PlaceJob(Head(pumpJobs[w])) /\ UNCHANGED open
    BY <1>2 DEF PumpDispatch, TypeOK, WorkerType
  <2>2. PICK r \in Runs : r = Head(pumpJobs[w])
    BY <2>1, HeadTailFacts
  <2>3. \A x : x \in ToSet(pumpJobs[w]) <=> x = r \/ x \in ToSet(pumpJobs'[w])
    BY <2>1, <2>2, HeadOrTail
  <2>4. \A x \in Runs \ {r} : (\E v \in Pumps : x \in ToSet(pumpJobs[v]))
                           <=> (\E v \in Pumps : x \in ToSet(pumpJobs[v]))'
    BY <2>1, <2>3
  <2> QED BY <1>0, <2>1, <2>2, <2>4, PlaceStep
<1>3. ASSUME NEW w \in Pumps, PumpStart(w) \/ PumpCheck(w)
      PROVE  [Tracker!Next]_Tracker!vars
  BY <1>0, <1>3, PumpStep
<1>4. ASSUME NEW id \in Runners, AddRunner(id) PROVE [Tracker!Next]_Tracker!vars
  BY <1>4, ConnectStep DEF Tracker!Next
<1>5. ASSUME NEW c \in Conns, RemoveRunner(c) PROVE [Tracker!Next]_Tracker!vars
  <2>1. Registered(c) /\ Disconnect({c}) /\ UNCHANGED <<pumpJobs, open>>
    BY <1>5 DEF RemoveRunner, workers
  <2>2. PICK id \in Runners : id = runners[c]
    BY <2>1 DEF TypeOK, ServerType, Registered
  <2>3. {c} = {d \in Conns : runners[d] \in {id}}
    BY <2>1, <2>2 DEF SafetyInv, OneConnection, Registered
  <2> QED BY <1>0, <2>1, <2>3, LoseStep
<1>6. ASSUME NEW c \in Conns, NEW r \in Runs, NEW status, JobResult(c, r, status)
      PROVE  [Tracker!Next]_Tracker!vars
  BY <1>0, <1>6, EndStep
<1>7. ASSUME NEW id \in Runners, EjectRunner(id) PROVE [Tracker!Next]_Tracker!vars
  <2>1. UNCHANGED <<pumpJobs, open>>
    BY <1>7 DEF EjectRunner, workers
  <2>2. CASE RemoveRegistrations({id})
    BY <1>0, <2>1, <2>2, LoseStep DEF RemoveRegistrations
  <2>3. CASE UNCHANGED server
    BY <2>1, <2>3, Unseen DEF server, Listed, Queued, Assigned, Registered
  <2> QED BY <1>7, <2>2, <2>3 DEF EjectRunner
<1>8. ASSUME NEW y \in Syncs, SyncEjected(y) PROVE [Tracker!Next]_Tracker!vars
  <2>1. PICK ids \in SUBSET Runners : ids = sync[y].ejected
    BY DEF TypeOK, ControlType
  <2>2. RemoveRegistrations(ids) /\ UNCHANGED <<pumpJobs, open>>
    BY <1>8, <2>1 DEF SyncEjected, workers
  <2> QED BY <1>0, <2>2, LoseStep DEF RemoveRegistrations
<1>9. ASSUME NEW r \in Runs, ChangeStatus(r) PROVE [Tracker!Next]_Tracker!vars
  <2>1. UNCHANGED <<queue, runners, inflight, pumpJobs>>
    BY <1>9 DEF ChangeStatus, server, workers
  <2>2. Waiting' = Waiting /\ Jobs' = Jobs /\ Up' = Up
    BY <2>1 DEF Waiting, Held, Tracked, Queued, Assigned, Registered, Jobs, Up,
                RunnerByID
  <2>3. Tracker!ChangeStatus(r)
    BY <1>9, <2>2 DEF ChangeStatus, Tracker!ChangeStatus
  <2> QED BY <2>3 DEF Tracker!Next
<1>10. ASSUME \/ \E s \in Callers, r \in Runs : SubmitCheck(s, r)
              \/ \E c \in Conns : Deliver(c) \/ LoseLink(c)
              \/ \E c \in Conns, n \in 0..Cardinality(Runs) : Heartbeat(c, n)
              \/ \E id \in Runners, may \in BOOLEAN : UpdateRunnerDispatch(id, may)
              \/ \E id \in Runners : RevokeRunner(id) \/ AllowReuse(id)
              \/ \E table \in RoutingTables : ChangeRouting(table)
              \/ \E y \in Syncs : SyncFetch(y) \/ SyncRouting(y)
              \/ UNCHANGED vars
       PROVE  [Tracker!Next]_Tracker!vars
  <2>1. UNCHANGED <<queue, runners, inflight, pumpJobs, open>>
    BY <1>10 DEF SubmitCheck, Deliver, LoseLink, Heartbeat, UpdateRunnerDispatch,
       RevokeRunner, AllowReuse, ChangeRouting, SyncFetch, SyncRouting, vars,
       server, workers
  <2> QED BY <2>1, Unseen DEF Listed, Queued, Assigned, Registered
<1> QED
  BY <1>1, <1>2, <1>3, <1>4, <1>5, <1>6, <1>7, <1>8, <1>9, <1>10, JobsAssumption
     DEF Next

\* The dispatcher implements the job tracker for any number of runs, runners,
\* connections and goroutines: each of its steps, the windows of pumpQueue and
\* the loss of streams included, is one step of the tracker or shows nothing.
THEOREM Implements == Spec => ImplementsJobTracker
<1>1. Init => Tracker!Init
  BY SetsAssumption
     DEF Init, Tracker!Init, Waiting, Held, Tracked, Queued, Assigned, Registered,
         Jobs, Up, RunnerByID, ToSet
<1>2. TypeOK /\ SafetyInv /\ [Next]_vars => [Tracker!Next]_Tracker!vars
  BY Simulation
<1> QED
  BY <1>1, <1>2, TypeCorrect, SafetyHolds, PTL
     DEF Spec, ImplementsJobTracker, Tracker!Spec
=============================================================================
