-------------------------- MODULE DispatcherProofs --------------------------
(* Proofs about the dispatcher, for every value of its constants.          *)
EXTENDS Dispatcher, FiniteSetTheorems, SequenceTheorems, TLAPS

-----------------------------------------------------------------------------
(* Sequences without repetition.                                           *)

\* Appending a new element adds it to the elements and repeats nothing.
LEMMA AppendFacts ==
  ASSUME NEW S, NEW q \in Seq(S), NEW r \in S
  PROVE  /\ Append(q, r) \in Seq(S)
         /\ ToSet(Append(q, r)) = ToSet(q) \cup {r}
         /\ IsInjective(q) /\ r \notin ToSet(q) => IsInjective(Append(q, r))
<1>1. /\ Append(q, r) \in Seq(S)
      /\ Len(q) \in Nat
      /\ DOMAIN q = 1..Len(q)
      /\ Len(Append(q, r)) = Len(q) + 1
      /\ DOMAIN Append(q, r) = 1..(Len(q) + 1)
      /\ \A i \in 1..Len(q) : Append(q, r)[i] = q[i]
      /\ Append(q, r)[Len(q) + 1] = r
  OBVIOUS
<1>2. ToSet(Append(q, r)) = ToSet(q) \cup {r}
  <2>1. \A x \in ToSet(Append(q, r)) : x \in ToSet(q) \cup {r}
    BY <1>1 DEF ToSet
  <2>2. \A x \in ToSet(q) \cup {r} : x \in ToSet(Append(q, r))
    BY <1>1 DEF ToSet
  <2> QED BY <2>1, <2>2
<1>3. IsInjective(q) /\ r \notin ToSet(q) => IsInjective(Append(q, r))
  BY <1>1 DEF IsInjective, ToSet
<1> QED BY <1>1, <1>2, <1>3

\* Concatenating disjoint sequences adds up their elements and repeats nothing.
LEMMA ConcatFacts ==
  ASSUME NEW S, NEW q \in Seq(S), NEW s \in Seq(S)
  PROVE  /\ q \o s \in Seq(S)
         /\ ToSet(q \o s) = ToSet(q) \cup ToSet(s)
         /\ /\ IsInjective(q) /\ IsInjective(s)
            /\ ToSet(q) \cap ToSet(s) = {}
            => IsInjective(q \o s)
<1>1. /\ q \o s \in Seq(S)
      /\ Len(q) \in Nat /\ Len(s) \in Nat
      /\ DOMAIN q = 1..Len(q) /\ DOMAIN s = 1..Len(s)
      /\ DOMAIN (q \o s) = 1..(Len(q) + Len(s))
      /\ \A i \in 1..Len(q) : (q \o s)[i] = q[i]
      /\ \A i \in (Len(q) + 1)..(Len(q) + Len(s)) : (q \o s)[i] = s[i - Len(q)]
  OBVIOUS
<1>2. ToSet(q \o s) = ToSet(q) \cup ToSet(s)
  <2>1. \A x \in ToSet(q \o s) : x \in ToSet(q) \cup ToSet(s)
    BY <1>1 DEF ToSet
  <2>2. \A x \in ToSet(q) : x \in ToSet(q \o s)
    BY <1>1 DEF ToSet
  <2>3. \A x \in ToSet(s) : x \in ToSet(q \o s)
    <3> TAKE x \in ToSet(s)
    <3>1. PICK i \in 1..Len(s) : s[i] = x
      BY <1>1 DEF ToSet
    <3>2. i + Len(q) \in DOMAIN (q \o s) /\ (q \o s)[i + Len(q)] = x
      BY <1>1, <3>1
    <3> QED BY <3>2 DEF ToSet
  <2> QED BY <2>1, <2>2, <2>3
<1>3. ASSUME IsInjective(q), IsInjective(s), ToSet(q) \cap ToSet(s) = {}
      PROVE  IsInjective(q \o s)
  <2> SUFFICES ASSUME NEW i \in DOMAIN (q \o s), NEW j \in DOMAIN (q \o s),
                      (q \o s)[i] = (q \o s)[j]
               PROVE  i = j
    BY DEF IsInjective
  <2>1. CASE i \in 1..Len(q) /\ j \in 1..Len(q)
    BY <1>1, <1>3, <2>1 DEF IsInjective
  <2>2. CASE i \notin 1..Len(q) /\ j \notin 1..Len(q)
    <3>1. /\ i - Len(q) \in DOMAIN s /\ j - Len(q) \in DOMAIN s
          /\ s[i - Len(q)] = s[j - Len(q)]
      BY <1>1, <2>2
    <3>2. i - Len(q) = j - Len(q)
      BY <1>3, <3>1 DEF IsInjective
    <3> QED BY <1>1, <3>2
  <2>3. ASSUME NEW m \in 1..Len(q), NEW n \in DOMAIN (q \o s) \ 1..Len(q),
               (q \o s)[m] = (q \o s)[n]
        PROVE  FALSE
    <3>1. m \in DOMAIN q /\ n - Len(q) \in DOMAIN s
      BY <1>1
    <3>3. q[m] \in ToSet(q) /\ s[n - Len(q)] \in ToSet(s)
      BY <3>1 DEF ToSet
    <3>2. q[m] = s[n - Len(q)]
      BY <1>1, <2>3
    <3> QED BY <1>3, <3>2, <3>3
  <2> QED BY <1>1, <2>1, <2>2, <2>3
<1> QED BY <1>1, <1>2, <1>3

\* The head of a non-empty sequence is an element, and its tail a sequence.
LEMMA HeadTailFacts ==
  ASSUME NEW S, NEW q \in Seq(S), q # <<>>
  PROVE  /\ Head(q) \in S /\ Head(q) \in ToSet(q)
         /\ Tail(q) \in Seq(S) /\ ToSet(Tail(q)) \subseteq ToSet(q)
<1>1. /\ Len(q) \in Nat \ {0} /\ DOMAIN q = 1..Len(q)
      /\ Tail(q) \in Seq(S) /\ DOMAIN Tail(q) = 1..(Len(q) - 1)
      /\ \A i \in 1..(Len(q) - 1) : Tail(q)[i] = q[i + 1]
      /\ Head(q) = q[1]
  OBVIOUS
<1>2. Head(q) \in S
  BY <1>1
<1> QED BY <1>1, <1>2 DEF ToSet

\* Requeueing a set of jobs keeps a queue of jobs without repetition, which
\* holds the old ones, the new ones and no other.
LEMMA EnqueueAllFacts ==
  ASSUME NEW q \in Seq(Runs), NEW S \in SUBSET Runs, NEW p \in EnqueueAll(q, S)
  PROVE  /\ p \in Seq(Runs)
         /\ ToSet(p) = ToSet(q) \cup S
         /\ IsInjective(q) => IsInjective(p)
<1> DEFINE T == S \ ToSet(q)
           D == 1..Cardinality(T)
<1>1. IsFiniteSet(T) /\ Cardinality(T) \in Nat
  BY SetsAssumption, FS_Subset, FS_CardinalityType
<1>2. PICK s \in SetToSeqs(T) : p = q \o s
  BY DEF EnqueueAll
<1>3. s \in [D -> T] /\ \A i, j \in D : i # j => s[i] # s[j]
  BY <1>2 DEF SetToSeqs
<1>4. s \in Seq(Runs) /\ DOMAIN s = D /\ IsInjective(s)
  <2>1. s \in [1..Cardinality(T) -> Runs]
    BY <1>3
  <2>2. PICK n \in Nat : s \in [1..n -> Runs]
    BY <1>1, <2>1
  <2> QED BY <1>3, <2>2, SeqDef DEF IsInjective
<1>5. Cardinality(D) = Cardinality(T)
  BY <1>1, FS_Interval
<1>6. s \in Surjection(D, T)
  <2>1. s \in Injection(D, T)
    BY <1>3 DEF Injection, IsInjective
  <2> HIDE DEF T, D
  <2> QED BY <1>1, <1>5, <2>1, FS_Injection
<1>7. ToSet(s) = T
  BY <1>4, <1>6 DEF Surjection, ToSet
<1>8. ToSet(q) \cap ToSet(s) = {}
  BY <1>7
<1> QED BY <1>2, <1>4, <1>7, <1>8, ConcatFacts
-----------------------------------------------------------------------------
(* Types.                                                                  *)

\* The load of a connection is a number, and no less than its jobs.
LEMMA LoadFacts ==
  ASSUME ServerType, NEW c \in Conns
  PROVE  /\ IsFiniteSet(inflight[c]) /\ Cardinality(inflight[c]) \in Nat
         /\ Load(c) \in Int /\ Cardinality(inflight[c]) <= Load(c)
<1>1. IsFiniteSet(inflight[c])
  BY SetsAssumption, FS_Subset DEF ServerType
<1>2. Cardinality(inflight[c]) \in Nat
  BY <1>1, FS_CardinalityType
<1>3. active[c] \in Int
  BY DEF ServerType
<1> QED BY <1>1, <1>2, <1>3 DEF Load

\* The search names no connection or an eligible one, and changes the affinity
\* table only to drop an entry or to bind it to a runner that matches.
LEMMA PickRunnerFacts ==
  ASSUME ServerType, NEW r \in Runs, NEW p \in PickRunner(r)
  PROVE  /\ p.conn \in Conns \cup {0}
         /\ p.conn # 0 => Eligible(p.conn, r)
         /\ p.affinity \in [Keys -> Runners \cup {NoRunner}]
         /\ \A k \in Keys :
              \/ p.affinity[k] \in {affinity[k], NoRunner}
              \/ \E c \in Conns : /\ Registered(c) /\ MatchesScope(c, r)
                                  /\ p.affinity[k] = runners[c]
<1> DEFINE key       == AffinityKey[r]
           preferred == {c \in RunnerByID(PreferredRunner[r]) : Eligible(c, r)}
           bound     == RunnerByID(affinity[key])
           near      == {c \in bound : Eligible(c, r)}
           full      == {c \in bound : MatchesScope(c, r) /\ ~HasRoom(c)}
           kept      == IF full # {} THEN affinity
                        ELSE [affinity EXCEPT ![key] = NoRunner]
           free      == {c \in Conns : Eligible(c, r)}
           busy      == {c \in Conns : Registered(c) /\ MatchesScope(c, r)}
           Bind(c)   == [kept EXCEPT ![key] = runners[c]]
           Safe(t)   == /\ t \in [Keys -> Runners \cup {NoRunner}]
                        /\ \A k \in Keys :
                             \/ t[k] \in {affinity[k], NoRunner}
                             \/ \E c \in busy : t[k] = runners[c]
<1>1. key \in Keys
  BY JobsAssumption
<1>2. affinity \in [Keys -> Runners \cup {NoRunner}] /\ Safe(affinity)
  BY DEF ServerType
<1>3. Safe(kept)
  BY <1>1, <1>2
<1>4. \A c \in busy : Safe(Bind(c))
  <2> TAKE c \in busy
  <2>1. runners[c] \in Runners \cup {NoRunner}
    BY DEF ServerType
  <2> QED BY <1>1, <1>3, <2>1
<1>5. \A S \in SUBSET Conns : LeastLoaded(S) \subseteq S
  BY DEF LeastLoaded
<1>6. preferred \subseteq free /\ near \subseteq free /\ free \subseteq busy
  BY DEF Eligible, RunnerByID
<1>7. \/ \E c \in preferred : p = Choice(c, affinity)
      \/ \E c \in near : p = Choice(c, affinity)
      \/ \E c \in LeastLoaded(free) : p = Choice(c, Bind(c))
      \/ \E c \in LeastLoaded(busy) : p = Choice(0, Bind(c))
      \/ p = Choice(0, kept)
  BY DEF PickRunner
<1> HIDE DEF key, preferred, bound, near, full, kept, free, Bind, Safe
<1>8. p.conn \in free \cup {0} /\ Safe(p.affinity)
  <2>1. free \in SUBSET Conns /\ busy \in SUBSET Conns
    BY DEF free
  <2>2. LeastLoaded(free) \subseteq free /\ LeastLoaded(busy) \subseteq busy
    BY <1>5, <2>1
  <2>3. \A c, t : Choice(c, t).conn = c /\ Choice(c, t).affinity = t
    BY DEF Choice
  <2> HIDE DEF busy
  <2> QED BY <1>2, <1>3, <1>4, <1>6, <1>7, <2>2, <2>3
<1> QED BY <1>8 DEF Safe, free

\* A record put together from a connection is a record.
LEMMA SnapshotType ==
  ASSUME NEW c \in Conns, NEW load \in Int, NEW jobs \in SUBSET Runs,
         NEW may \in BOOLEAN, NEW up \in BOOLEAN
  PROVE  Snapshot(c, load, jobs, may, up) \in Records
BY DEF Snapshot, Records

\* Placing a job keeps the types of the server's state.
LEMMA PlaceJobType ==
  ASSUME ServerType, NEW r \in Runs, PlaceJob(r)
  PROVE  ServerType'
<1>1. CASE UNCHANGED server
  BY <1>1 DEF server, ServerType
<1>2. CASE DispatchOrQueue(r)
  <2>1. PICK p \in PickRunner(r) :
          IF p.conn # 0 /\ Len(sendCh[p.conn]) < SendBuf
          THEN Assign(r, p.conn, p.affinity) ELSE KeepQueued(r, p.affinity)
    BY <1>2 DEF DispatchOrQueue
  <2>2. /\ p.conn \in Conns \cup {0}
        /\ p.conn # 0 => Registered(p.conn)
        /\ p.affinity \in [Keys -> Runners \cup {NoRunner}]
    BY PickRunnerFacts DEF Eligible
  <2>3. CASE p.conn # 0 /\ Assign(r, p.conn, p.affinity)
    <3> DEFINE c == p.conn
    <3>1. c \in Conns /\ runners[c] \in Runners
      BY <2>2, <2>3 DEF Registered, ServerType
    <3>2. sendCh' \in [Conns -> Seq(Runs \cup {Note})]
      <4>1. sendCh[c] \in Seq(Runs \cup {Note}) /\ r \in Runs \cup {Note}
        BY <3>1 DEF ServerType
      <4>2. Append(sendCh[c], r) \in Seq(Runs \cup {Note})
        BY <4>1, AppendFacts
      <4> QED BY <2>3, <3>1, <4>2 DEF Assign, ServerType
    <3>3. record' \in [Runners -> Records \cup {NoRecord}]
      <4>1. active[c] + 1 \in Int /\ inflight[c] \cup {r} \in SUBSET Runs
            /\ allow[c] \in BOOLEAN
        BY <3>1 DEF ServerType
      <4>2. Snapshot(c, active[c] + 1, inflight[c] \cup {r}, allow[c], TRUE)
              \in Records
        BY <3>1, <4>1, SnapshotType
      <4> QED BY <2>3, <3>1, <4>2 DEF Assign, ServerType
    <3>4. affinity' \in [Keys -> Runners \cup {NoRunner}]
      BY <2>2, <2>3, <3>1, JobsAssumption DEF Assign
    <3>5. inflight' \in [Conns -> SUBSET Runs] /\ active' \in [Conns -> Int]
      BY <2>3, <3>1 DEF Assign, ServerType
    <3> QED BY <2>3, <3>2, <3>3, <3>4, <3>5 DEF Assign, ServerType
  <2>4. CASE KeepQueued(r, p.affinity)
    <3>1. Enqueue(queue, r) \in Seq(Runs)
      BY AppendFacts DEF Enqueue, ServerType
    <3> QED BY <2>2, <2>4, <3>1 DEF KeepQueued, ServerType
  <2> QED BY <2>1, <2>3, <2>4
<1> QED BY <1>1, <1>2 DEF PlaceJob

\* Taking connections down keeps the types of what it touches.
LEMMA DisconnectType ==
  ASSUME TypeOK, NEW gone \in SUBSET Conns, Disconnect(gone)
  PROVE  /\ queue' \in Seq(Runs)
         /\ runners' \in [Conns -> Runners \cup {NoRunner}]
         /\ inflight' \in [Conns -> SUBSET Runs]
         /\ active' \in [Conns -> Int] /\ allow' \in [Conns -> BOOLEAN]
         /\ sendCh' \in [Conns -> Seq(Runs \cup {Note})]
         /\ RemoteType' /\ pumpsDue' \in 0..MaxPumpsDue
<1> DEFINE jobs == UNION {inflight[c] : c \in gone}
<1>1. jobs \in SUBSET Runs
  BY DEF TypeOK, ServerType
<1>2. queue' \in Seq(Runs)
  <2>1. queue \in Seq(Runs) /\ queue' \in EnqueueAll(queue, jobs)
    BY DEF Disconnect, TypeOK, ServerType
  <2> QED BY <1>1, <2>1, EnqueueAllFacts
<1>3. /\ runners' \in [Conns -> Runners \cup {NoRunner}]
      /\ inflight' \in [Conns -> SUBSET Runs] /\ active' \in [Conns -> Int]
  BY DEF Disconnect, TypeOK, ServerType
<1>4. allow' \in [Conns -> BOOLEAN]
  BY DEF Disconnect, TypeOK, ServerType
<1>5. sendCh' \in [Conns -> Seq(Runs \cup {Note})]
  BY DEF Disconnect, TypeOK, ServerType
<1>6. RemoteType'
  BY DEF Disconnect, TypeOK, RemoteType
<1>7. pumpsDue' \in 0..MaxPumpsDue
  BY BoundsAssumption DEF Disconnect, SpawnPump, TypeOK, WorkerType
<1> QED BY <1>2, <1>3, <1>4, <1>5, <1>6, <1>7

\* Removing registrations keeps the types of what it touches.
LEMMA RemoveRegistrationsType ==
  ASSUME TypeOK, NEW ids \in SUBSET Runners, RemoveRegistrations(ids)
  PROVE  ServerType' /\ RemoteType' /\ pumpsDue' \in 0..MaxPumpsDue
<1> DEFINE gone == {c \in Conns : runners[c] \in ids}
<1>1. gone \in SUBSET Conns /\ Disconnect(gone)
  BY DEF RemoveRegistrations
<1>2. /\ record' \in [Runners -> Records \cup {NoRecord}]
      /\ affinity' \in [Keys -> Runners \cup {NoRunner}]
  BY DEF RemoveRegistrations, TypeOK, ServerType
<1> HIDE DEF gone
<1> QED BY <1>1, <1>2, DisconnectType DEF ServerType

\* Every step keeps the types.
LEMMA TypeStep ==
  ASSUME TypeOK, [Next]_vars
  PROVE  TypeOK'
<1> USE DEF TypeOK
<1> DEFINE Due == pumpsDue' \in 0..MaxPumpsDue
<1>0. SpawnPump(pumpsDue) \in 0..MaxPumpsDue
  BY BoundsAssumption DEF SpawnPump, WorkerType
<1>1. ASSUME NEW s \in Callers, NEW r \in Runs, SubmitCheck(s, r)
      PROVE  TypeOK'
  BY <1>1 DEF SubmitCheck, server, control, remote, workers, ServerType,
              ControlType, RemoteType, WorkerType
<1>2. ASSUME NEW s \in Callers, SubmitJob(s) PROVE TypeOK'
  <2>1. submit[s] \in Runs
    BY <1>2 DEF SubmitJob, WorkerType
  <2>2. ServerType'
    BY <1>2, <2>1, PlaceJobType DEF SubmitJob
  <2> QED BY <1>2, <2>2 DEF SubmitJob, control, remote, workers, ControlType,
                            RemoteType, WorkerType
<1>3. ASSUME NEW w \in Pumps, PumpStart(w) PROVE TypeOK'
  <2>1. ServerType'
    BY <1>3 DEF PumpStart, ServerType
  <2>2. pumpJobs' \in [Pumps -> Seq(Runs)]
    BY <1>3 DEF PumpStart, WorkerType, ServerType
  <2>3. \A x \in Pumps : pumpChecked[x] => pumpJobs'[x] # <<>>
    BY <1>3 DEF PumpStart, WorkerType
  <2>4. pumpsDue' \in 0..MaxPumpsDue
    BY <1>3, BoundsAssumption DEF PumpStart, WorkerType
  <2>5. WorkerType'
    BY <1>3, <2>2, <2>3, <2>4 DEF PumpStart, WorkerType
  <2> QED BY <1>3, <2>1, <2>5 DEF PumpStart, control, remote, ControlType,
                                  RemoteType
<1>4. ASSUME NEW w \in Pumps, PumpCheck(w) PROVE TypeOK'
  <2>1. Tail(pumpJobs[w]) \in Seq(Runs)
    BY <1>4, HeadTailFacts DEF PumpCheck, WorkerType
  <2>2. WorkerType'
    BY <1>4, <2>1 DEF PumpCheck, WorkerType
  <2> QED BY <1>4, <2>2 DEF PumpCheck, server, control, remote, ServerType,
                            ControlType, RemoteType
<1>5. ASSUME NEW w \in Pumps, PumpDispatch(w) PROVE TypeOK'
  <2>1. Head(pumpJobs[w]) \in Runs /\ Tail(pumpJobs[w]) \in Seq(Runs)
    BY <1>5, HeadTailFacts DEF PumpDispatch, WorkerType
  <2>2. ServerType'
    BY <1>5, <2>1, PlaceJobType DEF PumpDispatch
  <2>3. WorkerType'
    BY <1>5, <2>1 DEF PumpDispatch, WorkerType
  <2> QED BY <1>5, <2>2, <2>3 DEF PumpDispatch, control, remote, ControlType,
                                  RemoteType
<1>6. ASSUME NEW id \in Runners, AddRunner(id) PROVE TypeOK'
  <2> DEFINE c == connSeq + 1
             may == IF record[id] = NoRecord THEN TRUE ELSE record[id].allow
  <2>1. c \in Conns /\ connSeq' \in 0..MaxConns
    BY <1>6, BoundsAssumption DEF AddRunner, WorkerType, Conns
  <2>2. may \in BOOLEAN
    BY DEF ServerType, Records
  <2> HIDE DEF may
  <2>3. Snapshot(c, 0, {}, may, TRUE) \in Records
    BY <2>1, <2>2 DEF Snapshot, Records
  <2>4. <<>> \in Seq(Runs \cup {Note}) /\ <<Note>> \in Seq(Runs \cup {Note})
    OBVIOUS
  <2>5. ServerType'
    BY <1>6, <2>1, <2>2, <2>3, <2>4 DEF AddRunner, ServerType, may
  <2>6. RemoteType'
    BY <1>6, <2>1 DEF AddRunner, RemoteType
  <2>7. WorkerType'
    BY <1>0, <1>6, <2>1 DEF AddRunner, WorkerType, workers
  <2> QED BY <1>6, <2>5, <2>6, <2>7 DEF AddRunner, control, ControlType
<1>7. ASSUME NEW c \in Conns, RemoveRunner(c) PROVE TypeOK'
  <2>1. {c} \in SUBSET Conns /\ Disconnect({c})
    BY <1>7 DEF RemoveRunner
  <2>2. Snapshot(c, 0, {}, allow[c], FALSE) \in Records
    <3>1. allow[c] \in BOOLEAN
      BY DEF ServerType
    <3> QED BY <3>1 DEF Snapshot, Records
  <2>3. /\ record' \in [Runners -> Records \cup {NoRecord}]
        /\ affinity' \in [Keys -> Runners \cup {NoRunner}]
    BY <1>7, <2>2 DEF RemoveRunner, Registered, DropAffinity, ServerType
  <2>4. ServerType' /\ RemoteType' /\ Due
    BY <2>1, <2>3, DisconnectType DEF ServerType
  <2>5. WorkerType'
    BY <1>7, <2>4 DEF RemoveRunner, WorkerType, workers
  <2> QED BY <1>7, <2>4, <2>5 DEF RemoveRunner, control, ControlType
<1>8. ASSUME NEW c \in Conns, Deliver(c) PROVE TypeOK'
  <2>1. Tail(sendCh[c]) \in Seq(Runs \cup {Note})
    BY <1>8, HeadTailFacts DEF Deliver, ServerType
  <2>2. ServerType'
    BY <1>8, <2>1 DEF Deliver, ServerType
  <2>3. RemoteType'
    BY <1>8 DEF Deliver, RemoteType
  <2> QED BY <1>8, <2>2, <2>3 DEF Deliver, control, workers, ControlType,
                                  WorkerType
<1>9. ASSUME NEW c \in Conns, LoseLink(c) PROVE TypeOK'
  BY <1>9 DEF LoseLink, server, control, workers, ServerType, ControlType,
              RemoteType, WorkerType
<1>10. ASSUME NEW c \in Conns, NEW n \in 0..Cardinality(Runs), Heartbeat(c, n)
       PROVE  TypeOK'
  <2>1. n \in Int
    BY SetsAssumption, FS_CardinalityType
  <2>2. Snapshot(c, n, inflight[c], allow[c], TRUE) \in Records
    <3>1. allow[c] \in BOOLEAN /\ inflight[c] \in SUBSET Runs
      BY DEF ServerType
    <3> QED BY <2>1, <3>1, SnapshotType
  <2>3. ServerType'
    BY <1>10, <2>1, <2>2 DEF Heartbeat, Registered, ServerType
  <2>4. WorkerType'
    BY <1>0, <1>10 DEF Heartbeat, WorkerType, workers
  <2> QED BY <1>10, <2>3, <2>4 DEF Heartbeat, control, remote, ControlType,
                                   RemoteType
<1>11. ASSUME NEW c \in Conns, NEW r \in Runs, NEW status, JobResult(c, r, status)
       PROVE  TypeOK'
  <2> DEFINE load == IF r \in inflight[c] /\ active[c] > 0
                     THEN active[c] - 1 ELSE active[c]
  <2>1. load \in Int /\ allow[c] \in BOOLEAN
        /\ inflight[c] \ {r} \in SUBSET Runs
    BY DEF ServerType
  <2>2. Snapshot(c, load, inflight[c] \ {r}, allow[c], TRUE) \in Records
    BY <2>1, SnapshotType
  <2>3. queue' \in Seq(Runs)
    <3>1. queue \in Seq(Runs) /\ Append(queue, r) \in Seq(Runs)
      BY AppendFacts DEF ServerType
    <3> QED BY <1>11, <3>1 DEF JobResult
  <2> HIDE DEF load
  <2>4. /\ inflight' \in [Conns -> SUBSET Runs]
        /\ active' \in [Conns -> Int]
        /\ record' \in [Runners -> Records \cup {NoRecord}]
    BY <1>11, <2>1, <2>2 DEF JobResult, ServerType, load
  <2>5. ServerType'
    BY <1>11, <2>3, <2>4 DEF JobResult, ServerType
  <2>6. RemoteType' /\ WorkerType'
    BY <1>0, <1>11 DEF JobResult, WorkerType, RemoteType, workers
  <2> QED BY <1>11, <2>5, <2>6 DEF JobResult, control, ControlType
<1>12. ASSUME NEW id \in Runners, NEW may \in BOOLEAN, UpdateRunnerDispatch(id, may)
       PROVE  TypeOK'
  <2>1. ASSUME NEW c \in RunnerByID(id), UpdateConnected(c, may)
        PROVE  ServerType' /\ Due
    <3> DEFINE load == IF may /\ Cardinality(inflight[c]) < active[c]
                       THEN Cardinality(inflight[c]) ELSE active[c]
    <3>1. c \in Conns /\ runners[c] \in Runners
      BY DEF RunnerByID, ServerType
    <3>2. load \in Int /\ inflight[c] \in SUBSET Runs
      BY <3>1, LoadFacts DEF ServerType
    <3>3. Snapshot(c, load, inflight[c], may, TRUE) \in Records
      BY <3>1, <3>2, SnapshotType
    <3>4. UNCHANGED <<queue, runners, inflight, sendCh>>
      BY <1>12 DEF UpdateRunnerDispatch
    <3> HIDE DEF load
    <3>5. /\ active' \in [Conns -> Int]
          /\ record' \in [Runners -> Records \cup {NoRecord}]
      BY <2>1, <3>1, <3>2, <3>3 DEF UpdateConnected, ServerType, load
    <3>6. allow' \in [Conns -> BOOLEAN] /\ Due
          /\ affinity' \in [Keys -> Runners \cup {NoRunner}]
      BY <1>0, <2>1, <3>1 DEF UpdateConnected, DropAffinity, ServerType
    <3> QED BY <3>4, <3>5, <3>6 DEF ServerType
  <2>2. ASSUME UpdateRecord(id, may) PROVE ServerType' /\ Due
    <3>1. record[id] \in Records
      BY <2>2 DEF ServerType, UpdateRecord
    <3>2. [record[id] EXCEPT !.allow = may] \in Records
      BY <3>1 DEF Records
    <3>3. UNCHANGED <<queue, runners, inflight, sendCh>>
      BY <1>12 DEF UpdateRunnerDispatch
    <3>4. record' \in [Runners -> Records \cup {NoRecord}]
      BY <2>2, <3>2 DEF ServerType, UpdateRecord
    <3>5. ServerType'
      BY <2>2, <3>3, <3>4 DEF ServerType, UpdateRecord
    <3>6. Due
      BY <2>2 DEF WorkerType, UpdateRecord
    <3> QED BY <3>5, <3>6
  <2>3. ServerType' /\ Due
    BY <1>12, <2>1, <2>2 DEF UpdateRunnerDispatch
  <2> QED BY <1>12, <2>3 DEF UpdateRunnerDispatch, control, remote, workers,
                             ControlType, RemoteType, WorkerType
<1>13. ASSUME NEW id \in Runners, RevokeRunner(id) PROVE TypeOK'
  BY <1>13 DEF RevokeRunner, server, remote, workers, ServerType, ControlType,
               RemoteType, WorkerType
<1>14. ASSUME NEW id \in Runners, EjectRunner(id) PROVE TypeOK'
  <2>1. ServerType' /\ RemoteType' /\ Due
    BY <1>14, RemoveRegistrationsType
       DEF EjectRunner, server, remote, ServerType, RemoteType, WorkerType
  <2>2. ControlType' /\ WorkerType'
    BY <1>14, <2>1 DEF EjectRunner, workers, ControlType, WorkerType
  <2> QED BY <2>1, <2>2
<1>15. ASSUME NEW id \in Runners, AllowReuse(id) PROVE TypeOK'
  BY <1>15 DEF AllowReuse, server, remote, workers, ServerType, ControlType,
               RemoteType, WorkerType
<1>16. ASSUME NEW table \in RoutingTables, ChangeRouting(table) PROVE TypeOK'
  <2>1. table \in [RouteKeys -> SUBSET Runners]
    BY JobsAssumption
  <2> QED BY <1>16, <2>1 DEF ChangeRouting, server, remote, workers, ServerType,
               ControlType, RemoteType, WorkerType
<1>17. ASSUME NEW y \in Syncs, SyncFetch(y) PROVE TypeOK'
  <2>1. ControlType'
    BY <1>17 DEF SyncFetch, ControlType
  <2> QED BY <1>17, <2>1 DEF SyncFetch, server, remote, workers, ServerType,
               RemoteType, WorkerType
<1>18. ASSUME NEW y \in Syncs, SyncRouting(y) PROVE TypeOK'
  <2>1. ControlType'
    BY <1>18 DEF SyncRouting, ControlType
  <2>2. ServerType'
    BY <1>18 DEF SyncRouting, ServerType
  <2>3. WorkerType'
    BY <1>0, <1>18 DEF SyncRouting, WorkerType, workers
  <2> QED BY <1>18, <2>1, <2>2, <2>3 DEF SyncRouting, remote, RemoteType
<1>19. ASSUME NEW y \in Syncs, SyncEjected(y) PROVE TypeOK'
  <2>1. sync[y].ejected \in SUBSET Runners
    BY DEF ControlType
  <2>2. ServerType' /\ RemoteType' /\ Due
    BY <1>19, <2>1, RemoveRegistrationsType DEF SyncEjected
  <2>3. ControlType'
    BY <1>19, <2>1 DEF SyncEjected, IdleSync, ControlType
  <2>4. WorkerType'
    BY <1>19, <2>2 DEF SyncEjected, workers, WorkerType
  <2> QED BY <2>2, <2>3, <2>4
<1>20. ASSUME NEW r \in Runs, ChangeStatus(r) PROVE TypeOK'
  BY <1>20 DEF ChangeStatus, server, control, remote, workers, ServerType,
               ControlType, RemoteType, WorkerType
<1>21. CASE UNCHANGED vars
  BY <1>21 DEF vars, server, control, remote, workers, ServerType,
               ControlType, RemoteType, WorkerType
<1> QED
  BY <1>1, <1>2, <1>3, <1>4, <1>5, <1>6, <1>7, <1>8, <1>9, <1>10, <1>11, <1>12,
     <1>13, <1>14, <1>15, <1>16, <1>17, <1>18, <1>19, <1>20, <1>21,
     JobsAssumption DEF Next

\* The dispatcher's state, its goroutines and the messages in flight have the
\* types declared for them after any number of calls, losses and updates.
THEOREM TypeCorrect == Spec => []TypeOK
<1>1. Init => TypeOK
  BY BoundsAssumption, JobsAssumption
     DEF Init, TypeOK, ServerType, ControlType, RemoteType, WorkerType, IdleSync
<1>2. TypeOK /\ [Next]_vars => TypeOK'
  BY TypeStep
<1> QED BY <1>1, <1>2, PTL DEF Spec
-----------------------------------------------------------------------------
(* Tracking, capacity and connections.                                     *)

\* A step that leaves the tables alone leaves the invariant alone.
LEMMA TablesUnchanged ==
  ASSUME SafetyInv,
         UNCHANGED <<queue, runners, inflight, active, connSeq, ejected>>
  PROVE  SafetyInv'
BY DEF SafetyInv, Vacant, TrackedOnce, WithinCapacity, OneConnection, Registered,
       CapacityOf

\* Placing a job that is not tracked tracks it once and within capacity.
LEMMA PlaceJobSafe ==
  ASSUME TypeOK, SafetyInv, NEW r \in Runs, PlaceJob(r),
         UNCHANGED <<connSeq, ejected>>
  PROVE  SafetyInv'
<1>1. CASE Tracked(r)
  BY <1>1, TablesUnchanged DEF PlaceJob, server
<1>2. CASE ~Tracked(r)
  <2>1. ServerType /\ queue \in Seq(Runs)
    BY DEF TypeOK, ServerType
  <2>2. r \notin ToSet(queue) /\ \A c \in Conns : r \notin inflight[c]
    BY <1>2 DEF Tracked, Queued, Assigned, SafetyInv, Vacant
  <2>3. PICK p \in PickRunner(r) :
          IF p.conn # 0 /\ Len(sendCh[p.conn]) < SendBuf
          THEN Assign(r, p.conn, p.affinity) ELSE KeepQueued(r, p.affinity)
    BY <1>2 DEF PlaceJob, DispatchOrQueue
  <2>4. CASE p.conn # 0 /\ Assign(r, p.conn, p.affinity)
    <3> DEFINE c == p.conn
    <3>1. c \in Conns /\ Eligible(c, r)
      BY <2>1, <2>4, PickRunnerFacts
    <3> HIDE DEF c
    <3>2. /\ inflight' = [inflight EXCEPT ![c] = inflight[c] \cup {r}]
          /\ active' = [active EXCEPT ![c] = active[c] + 1]
          /\ UNCHANGED <<queue, runners>>
      BY <2>4 DEF Assign, c
    <3>3. inflight \in [Conns -> SUBSET Runs] /\ active \in [Conns -> Int]
      BY <2>1 DEF ServerType
    <3>4. Vacant'
      BY <3>1, <3>2, <3>3 DEF SafetyInv, Vacant, Registered, Eligible
    <3>5. TrackedOnce'
      BY <2>2, <3>1, <3>2, <3>3 DEF SafetyInv, TrackedOnce
    <3>6. WithinCapacity'
      <4>1. Cardinality(inflight[c] \cup {r}) = Cardinality(inflight[c]) + 1
        BY <2>1, <2>2, <3>1, LoadFacts, FS_AddElement
      <4>2. CapacityOf(runners[c]) \in Int
        BY <2>1, <3>1, JobsAssumption DEF CapacityOf, Eligible, Registered, ServerType
      <4>3. Cardinality(inflight[c]) + 1 <= CapacityOf(runners[c])
        BY <2>1, <3>1, <4>2, LoadFacts DEF Eligible, HasRoom
      <4> QED BY <3>1, <3>2, <3>3, <4>1, <4>3
              DEF SafetyInv, WithinCapacity, Registered, CapacityOf
    <3>7. OneConnection'
      BY <3>2 DEF SafetyInv, OneConnection, Registered
    <3> QED BY <3>4, <3>5, <3>6, <3>7 DEF SafetyInv
  <2>5. CASE KeepQueued(r, p.affinity)
    <3>1. queue' = Append(queue, r) /\ UNCHANGED <<runners, inflight, active>>
      BY <2>2, <2>5 DEF KeepQueued, Enqueue
    <3>2. IsInjective(queue') /\ ToSet(queue') = ToSet(queue) \cup {r}
      BY <2>1, <2>2, <3>1, AppendFacts DEF SafetyInv, TrackedOnce
    <3>3. TrackedOnce'
      BY <2>2, <3>1, <3>2 DEF SafetyInv, TrackedOnce
    <3> QED BY <3>1, <3>3 DEF SafetyInv, Vacant, WithinCapacity, OneConnection,
                              Registered, CapacityOf
  <2> QED BY <2>3, <2>4, <2>5
<1> QED BY <1>1, <1>2

\* Taking connections down moves their jobs to the queue, once each.
LEMMA DisconnectSafe ==
  ASSUME TypeOK, SafetyInv, NEW gone \in SUBSET Conns, Disconnect(gone),
         UNCHANGED connSeq
  PROVE  /\ Vacant' /\ TrackedOnce' /\ WithinCapacity'
         /\ \A c \in Conns : runners'[c] = IF c \in gone THEN NoRunner
                                           ELSE runners[c]
<1> DEFINE jobs == UNION {inflight[c] : c \in gone}
<1>1. /\ jobs \in SUBSET Runs /\ queue \in Seq(Runs)
      /\ queue' \in EnqueueAll(queue, jobs)
  BY DEF Disconnect, TypeOK, ServerType
<1>2. \A c \in Conns : /\ runners'[c] = IF c \in gone THEN NoRunner ELSE runners[c]
                       /\ inflight'[c] = IF c \in gone THEN {} ELSE inflight[c]
                       /\ active'[c] = IF c \in gone THEN 0 ELSE active[c]
  BY DEF Disconnect
<1>3. Vacant'
  BY <1>2 DEF SafetyInv, Vacant, Registered
<1>4. IsInjective(queue') /\ ToSet(queue') \subseteq ToSet(queue) \cup jobs
  BY <1>1, EnqueueAllFacts DEF SafetyInv, TrackedOnce
<1>5. \A c \in Conns \ gone : inflight[c] \cap (ToSet(queue) \cup jobs) = {}
  BY DEF SafetyInv, TrackedOnce
<1>6. TrackedOnce'
  BY <1>2, <1>4, <1>5 DEF SafetyInv, TrackedOnce
<1>7. WithinCapacity'
  BY <1>2 DEF SafetyInv, WithinCapacity, Registered, CapacityOf
<1> QED BY <1>2, <1>3, <1>6, <1>7

\* Removing the registrations of a set of runners keeps the invariant, if they
\* are the only ones added to the ejected list.
LEMMA RemoveRegistrationsSafe ==
  ASSUME TypeOK, SafetyInv, NEW ids \in SUBSET Runners, RemoveRegistrations(ids),
         UNCHANGED connSeq, ejected' \subseteq ejected \cup ids
  PROVE  SafetyInv'
<1> DEFINE gone == {c \in Conns : runners[c] \in ids}
<1>1. gone \in SUBSET Conns /\ Disconnect(gone)
  BY DEF RemoveRegistrations
<1> HIDE DEF gone
<1>2. /\ Vacant' /\ TrackedOnce' /\ WithinCapacity'
      /\ \A c \in Conns : runners'[c] = IF c \in gone THEN NoRunner ELSE runners[c]
  BY <1>1, DisconnectSafe
<1>3. OneConnection'
  <2>1. NoRunner \notin ejected \cup ids
    BY SetsAssumption DEF TypeOK, ControlType
  <2> QED BY <1>2, <2>1 DEF SafetyInv, OneConnection, Registered, gone
<1> QED BY <1>2, <1>3 DEF SafetyInv

\* Every step keeps the invariant.
LEMMA SafetyStep ==
  ASSUME TypeOK, SafetyInv, [Next]_vars
  PROVE  SafetyInv'
<1>1. ASSUME NEW s \in Callers, SubmitJob(s) PROVE SafetyInv'
  <2>1. submit[s] \in Runs /\ PlaceJob(submit[s]) /\ UNCHANGED <<connSeq, ejected>>
    BY <1>1 DEF SubmitJob, control, TypeOK, WorkerType
  <2> QED BY <2>1, PlaceJobSafe
<1>2. ASSUME NEW w \in Pumps, PumpDispatch(w) PROVE SafetyInv'
  <2>1. pumpJobs[w] \in Seq(Runs) /\ pumpJobs[w] # <<>>
    BY <1>2 DEF PumpDispatch, TypeOK, WorkerType
  <2>2. Head(pumpJobs[w]) \in Runs
    BY <2>1, HeadTailFacts
  <2>3. PlaceJob(Head(pumpJobs[w])) /\ UNCHANGED <<connSeq, ejected>>
    BY <1>2 DEF PumpDispatch, control
  <2> QED BY <2>2, <2>3, PlaceJobSafe
<1>3. ASSUME NEW w \in Pumps, PumpStart(w) PROVE SafetyInv'
  <2>1. queue' = <<>> /\ UNCHANGED <<runners, inflight, active, connSeq, ejected>>
    BY <1>3 DEF PumpStart, control
  <2>2. IsInjective(queue') /\ ToSet(queue') = {}
    BY <2>1 DEF IsInjective, ToSet
  <2> QED BY <2>1, <2>2 DEF SafetyInv, Vacant, TrackedOnce, WithinCapacity,
                            OneConnection, Registered, CapacityOf
<1>4. ASSUME NEW id \in Runners, AddRunner(id) PROVE SafetyInv'
  <2> DEFINE c == connSeq + 1
  <2>1. c \in Conns /\ connSeq \in Nat
    BY <1>4, BoundsAssumption DEF AddRunner, TypeOK, WorkerType, Conns
  <2>2. ~Registered(c) /\ inflight[c] = {}
    BY <2>1 DEF SafetyInv, Vacant
  <2>3. /\ connSeq' = c /\ id \notin ejected /\ RunnerByID(id) = {}
        /\ runners' = [runners EXCEPT ![c] = id]
        /\ UNCHANGED <<queue, inflight, active, ejected>>
    BY <1>4 DEF AddRunner, Admits, control
  <2>4. runners \in [Conns -> Runners \cup {NoRunner}] /\ id # NoRunner
    BY SetsAssumption DEF TypeOK, ServerType
  <2>5. Vacant'
    BY <2>1, <2>3, <2>4 DEF SafetyInv, Vacant, Registered, Conns
  <2>6. OneConnection'
    BY <2>1, <2>3, <2>4 DEF SafetyInv, OneConnection, Registered, RunnerByID
  <2>7. WithinCapacity'
    <3>1. Cardinality({}) = 0
      BY FS_EmptySet
    <3>2. CapacityOf(id) \in Int /\ CapacityOf(id) >= 1
      BY JobsAssumption DEF CapacityOf
    <3> SUFFICES ASSUME NEW d \in Conns, runners'[d] # NoRunner
                 PROVE  Cardinality(inflight[d]) <= CapacityOf(runners'[d])
      BY <2>3 DEF WithinCapacity, Registered, CapacityOf
    <3>3. CASE d = c
      BY <2>1, <2>2, <2>3, <2>4, <3>1, <3>2, <3>3
    <3>4. CASE d # c
      <4>1. runners'[d] = runners[d]
        BY <2>1, <2>3, <2>4, <3>4
      <4> QED BY <4>1 DEF SafetyInv, WithinCapacity, Registered
    <3> QED BY <3>3, <3>4
  <2> QED BY <2>3, <2>5, <2>6, <2>7 DEF SafetyInv, TrackedOnce
<1>5. ASSUME NEW c \in Conns, RemoveRunner(c) PROVE SafetyInv'
  <2>1. {c} \in SUBSET Conns /\ Disconnect({c}) /\ UNCHANGED <<connSeq, ejected>>
    BY <1>5 DEF RemoveRunner, control
  <2>2. /\ Vacant' /\ TrackedOnce' /\ WithinCapacity'
        /\ \A d \in Conns : runners'[d] = IF d \in {c} THEN NoRunner ELSE runners[d]
    BY <2>1, DisconnectSafe
  <2>3. OneConnection'
    BY <2>1, <2>2, SetsAssumption
       DEF SafetyInv, OneConnection, Registered, TypeOK, ControlType
  <2> QED BY <2>2, <2>3 DEF SafetyInv
<1>6. ASSUME NEW c \in Conns, NEW n, Heartbeat(c, n) PROVE SafetyInv'
  <2>1. /\ Registered(c) /\ active' = [active EXCEPT ![c] = n]
        /\ UNCHANGED <<queue, runners, inflight, connSeq, ejected>>
    BY <1>6 DEF Heartbeat, control
  <2>2. \A d \in Conns : d # c => active'[d] = active[d]
    BY <2>1 DEF TypeOK, ServerType
  <2> QED BY <2>1, <2>2 DEF SafetyInv, Vacant, TrackedOnce, WithinCapacity,
                            OneConnection, Registered, CapacityOf
<1>7. ASSUME NEW c \in Conns, NEW r \in Runs, NEW status, JobResult(c, r, status)
      PROVE  SafetyInv'
  <2>1. /\ Registered(c) /\ UNCHANGED <<runners, connSeq, ejected>>
        /\ inflight' = [inflight EXCEPT ![c] = inflight[c] \ {r}]
        /\ \/ queue' = Append(queue, r) /\ r \in inflight[c]
           \/ queue' = queue
    BY <1>7 DEF JobResult, control
  <2>2. /\ queue \in Seq(Runs) /\ inflight \in [Conns -> SUBSET Runs]
        /\ active \in [Conns -> Int]
    BY DEF TypeOK, ServerType
  <2>3. \A d \in Conns : d # c => active'[d] = active[d]
    BY <1>7, <2>2 DEF JobResult
  <2>4. Vacant'
    BY <2>1, <2>2, <2>3 DEF SafetyInv, Vacant, Registered
  <2>5. /\ IsInjective(queue')
        /\ ToSet(queue') \subseteq ToSet(queue) \cup (inflight[c] \cap {r})
    <3>1. CASE queue' = Append(queue, r) /\ r \in inflight[c]
      <4>1. r \notin ToSet(queue) /\ IsInjective(queue)
        BY <3>1 DEF SafetyInv, TrackedOnce
      <4> QED BY <2>2, <3>1, <4>1, AppendFacts
    <3>2. CASE queue' = queue
      BY <3>2 DEF SafetyInv, TrackedOnce
    <3> QED BY <2>1, <3>1, <3>2
  <2>6. TrackedOnce'
    BY <2>1, <2>2, <2>5 DEF SafetyInv, TrackedOnce
  <2>7. WithinCapacity'
    <3>1. Cardinality(inflight[c] \ {r}) \in Nat
          /\ Cardinality(inflight[c] \ {r}) <= Cardinality(inflight[c])
      BY LoadFacts, FS_Subset, FS_CardinalityType DEF TypeOK
    <3>2. CapacityOf(runners[c]) \in Int /\ Cardinality(inflight[c]) \in Nat
      BY <2>1, JobsAssumption, LoadFacts DEF CapacityOf, Registered, TypeOK, ServerType
    <3> QED BY <2>1, <2>2, <3>1, <3>2
            DEF SafetyInv, WithinCapacity, Registered, CapacityOf
  <2>8. OneConnection'
    BY <2>1 DEF SafetyInv, OneConnection, Registered
  <2> QED BY <2>4, <2>6, <2>7, <2>8 DEF SafetyInv
<1>8. ASSUME NEW id \in Runners, NEW may, UpdateRunnerDispatch(id, may)
      PROVE  SafetyInv'
  <2>1. UNCHANGED <<queue, runners, inflight, connSeq, ejected>>
    BY <1>8 DEF UpdateRunnerDispatch, control
  <2>2. \A d \in Conns : ~Registered(d) => active'[d] = active[d]
    BY <1>8 DEF UpdateRunnerDispatch, UpdateConnected, UpdateRecord, RunnerByID,
                Registered, TypeOK, ServerType
  <2> QED BY <2>1, <2>2 DEF SafetyInv, Vacant, TrackedOnce, WithinCapacity,
                            OneConnection, Registered, CapacityOf
<1>9. ASSUME NEW id \in Runners, EjectRunner(id) PROVE SafetyInv'
  <2>1. CASE RunnerByID(id) # {} \/ record[id] # NoRecord
    BY <1>9, <2>1, RemoveRegistrationsSafe DEF EjectRunner
  <2>2. CASE ~(RunnerByID(id) # {} \/ record[id] # NoRecord)
    BY <1>9, <2>2, TablesUnchanged DEF EjectRunner, server
  <2> QED BY <2>1, <2>2
<1>10. ASSUME NEW y \in Syncs, SyncEjected(y) PROVE SafetyInv'
  <2>1. sync[y].ejected \in SUBSET Runners
    BY DEF TypeOK, ControlType
  <2>2. /\ RemoveRegistrations(sync[y].ejected) /\ UNCHANGED connSeq
        /\ ejected' \subseteq ejected \cup sync[y].ejected
    BY <1>10 DEF SyncEjected
  <2> QED BY <2>1, <2>2, RemoveRegistrationsSafe
<1>11. ASSUME \/ \E s \in Callers, r \in Runs : SubmitCheck(s, r)
              \/ \E w \in Pumps : PumpCheck(w)
              \/ \E c \in Conns : Deliver(c) \/ LoseLink(c)
              \/ \E id \in Runners : RevokeRunner(id) \/ AllowReuse(id)
              \/ \E table \in RoutingTables : ChangeRouting(table)
              \/ \E y \in Syncs : SyncFetch(y) \/ SyncRouting(y)
              \/ \E r \in Runs : ChangeStatus(r)
              \/ UNCHANGED vars
       PROVE  SafetyInv'
  <2>1. UNCHANGED <<queue, runners, inflight, active, connSeq, ejected>>
    BY <1>11 DEF SubmitCheck, PumpCheck, Deliver, LoseLink, RevokeRunner,
       AllowReuse, ChangeRouting, SyncFetch, SyncRouting, ChangeStatus, vars,
       server, control
  <2> QED BY <2>1, TablesUnchanged
<1> QED
  BY <1>1, <1>2, <1>3, <1>4, <1>5, <1>6, <1>7, <1>8, <1>9, <1>10, <1>11,
     JobsAssumption DEF Next

\* The tables agree with one another at every moment.
LEMMA SafetyHolds == Spec => []SafetyInv
<1>1. Init => SafetyInv
  BY SetsAssumption
     DEF Init, SafetyInv, Vacant, TrackedOnce, WithinCapacity, OneConnection,
         Registered, IsInjective, ToSet
<1>2. TypeOK /\ SafetyInv /\ [Next]_vars => SafetyInv'
  BY SafetyStep
<1> QED BY <1>1, <1>2, TypeCorrect, PTL DEF Spec

\* A run is tracked once, a runner has one connection and is not on the ejected
\* list, and no connection holds more jobs than its runner's capacity: for any
\* number of runs, runners, connections and goroutines, and any heartbeat.
THEOREM DispatchSafe == Spec => [](TrackedOnce /\ WithinCapacity /\ OneConnection)
<1>1. SafetyInv => TrackedOnce /\ WithinCapacity /\ OneConnection
  BY DEF SafetyInv
<1> QED BY <1>1, SafetyHolds, PTL

\* findRunnerForJob and Register: whatever heartbeats report, no runner is given
\* more jobs than it registered room for.
THEOREM CapacityRespected == Spec => []WithinCapacity
<1>1. SafetyInv => WithinCapacity
  BY DEF SafetyInv
<1> QED BY <1>1, SafetyHolds, PTL

\* addRunner, removeRunner and the reaper: a runner id has one connection at a
\* time, and none while it is ejected.
THEOREM ConnectedOnce == Spec => []OneConnection
<1>1. SafetyInv => OneConnection
  BY DEF SafetyInv
<1> QED BY <1>1, SafetyHolds, PTL
-----------------------------------------------------------------------------
(* What the registry says of the connections.                              *)

\* The parts of RegistryMirrors.
RecordsAgree ==
  \A c \in Conns : Registered(c) =>
    record[runners[c]] = Snapshot(c, active[c], inflight[c], allow[c], TRUE)
OfflineEmpty ==
  \A id \in Runners : record[id] # NoRecord =>
    /\ record[id].reachable => runners[record[id].conn] = id
    /\ ~record[id].reachable => record[id].active = 0 /\ record[id].inflight = {}
AffinityLive ==
  \A k \in Keys : affinity[k] # NoRunner =>
    \E c \in RunnerByID(affinity[k]) : allow[c]

\* The parts are all of it.
LEMMA MirrorParts ==
  RegistryMirrors <=> RecordsAgree /\ OfflineEmpty /\ AffinityLive
BY DEF RegistryMirrors, RecordsAgree, OfflineEmpty, AffinityLive

\* And what a step must establish.
LEMMA MirrorPartsNext ==
  ASSUME RecordsAgree', OfflineEmpty', AffinityLive'
  PROVE  RegistryMirrors'
BY DEF RegistryMirrors, RecordsAgree, OfflineEmpty, AffinityLive

\* A step of one connection that writes its record anew keeps all records
\* true: no other connection has the same runner.
LEMMA RecordRefreshed ==
  ASSUME TypeOK, SafetyInv, RecordsAgree, OfflineEmpty,
         NEW c \in Conns, Registered(c), UNCHANGED runners,
         record' = [record EXCEPT ![runners[c]] =
                      Snapshot(c, active'[c], inflight'[c], allow'[c], TRUE)],
         \A d \in Conns \ {c} : /\ active'[d] = active[d]
                                /\ inflight'[d] = inflight[d]
                                /\ allow'[d] = allow[d]
  PROVE  RecordsAgree' /\ OfflineEmpty'
<1>1. /\ record \in [Runners -> Records \cup {NoRecord}]
      /\ runners \in [Conns -> Runners \cup {NoRunner}]
  BY DEF TypeOK, ServerType
<1>2. runners[c] \in Runners
  BY <1>1 DEF Registered
<1>3. \A d \in Conns \ {c} : Registered(d) => runners[d] # runners[c]
  BY DEF SafetyInv, OneConnection
<1>4. /\ record'[runners[c]] =
           Snapshot(c, active'[c], inflight'[c], allow'[c], TRUE)
      /\ \A id \in Runners \ {runners[c]} : record'[id] = record[id]
  BY <1>1, <1>2
<1>5. RecordsAgree'
  <2> SUFFICES ASSUME NEW d \in Conns, runners[d] # NoRunner
               PROVE  record'[runners[d]] =
                        Snapshot(d, active'[d], inflight'[d], allow'[d], TRUE)
    BY DEF RecordsAgree, Registered, Snapshot
  <2>1. CASE d = c
    BY <1>4, <2>1
  <2>2. CASE d # c
    <3>1. runners[d] \in Runners \ {runners[c]}
      BY <1>1, <1>3, <2>2 DEF Registered
    <3> QED BY <1>4, <2>2, <3>1 DEF RecordsAgree, Registered
  <2> QED BY <2>1, <2>2
<1>6. OfflineEmpty'
  <2> SUFFICES ASSUME NEW id \in Runners, record'[id] # NoRecord
               PROVE  /\ record'[id].reachable => runners[record'[id].conn] = id
                      /\ ~record'[id].reachable => /\ record'[id].active = 0
                                                   /\ record'[id].inflight = {}
    BY DEF OfflineEmpty
  <2>1. CASE id = runners[c]
    BY <1>4, <2>1 DEF Snapshot
  <2>2. CASE id # runners[c]
    BY <1>4, <2>2 DEF OfflineEmpty
  <2> QED BY <2>1, <2>2
<1> QED BY <1>5, <1>6

\* An affinity table stays live while connections stay as they are and each
\* entry is kept, dropped or bound to a connected runner that is not paused.
LEMMA AffinityKept ==
  ASSUME TypeOK, AffinityLive, UNCHANGED <<runners, allow>>,
         \A k \in Keys :
           \/ affinity'[k] \in {affinity[k], NoRunner}
           \/ \E c \in Conns : /\ Registered(c) /\ allow[c]
                               /\ affinity'[k] = runners[c]
  PROVE  AffinityLive'
<1> SUFFICES ASSUME NEW k \in Keys, affinity'[k] # NoRunner
             PROVE  \E c \in Conns : runners[c] = affinity'[k] /\ allow[c]
  BY DEF AffinityLive, RunnerByID
<1> QED BY DEF AffinityLive, RunnerByID

\* Placing a job writes the record of the connection that gets it, and binds
\* affinity to a runner that may be given work.
LEMMA PlaceJobMirrors ==
  ASSUME TypeOK, SafetyInv, RegistryMirrors, NEW r \in Runs, PlaceJob(r)
  PROVE  RegistryMirrors'
<1> USE MirrorParts, MirrorPartsNext
<1>1. CASE UNCHANGED server
  BY <1>1 DEF server, RegistryMirrors, Registered, RunnerByID
<1>2. CASE DispatchOrQueue(r)
  <2>1. PICK p \in PickRunner(r) :
          IF p.conn # 0 /\ Len(sendCh[p.conn]) < SendBuf
          THEN Assign(r, p.conn, p.affinity) ELSE KeepQueued(r, p.affinity)
    BY <1>2 DEF DispatchOrQueue
  <2>2. /\ p.conn \in Conns \cup {0}
        /\ p.conn # 0 => Registered(p.conn) /\ allow[p.conn]
        /\ p.affinity \in [Keys -> Runners \cup {NoRunner}]
        /\ \A k \in Keys : \/ p.affinity[k] \in {affinity[k], NoRunner}
                           \/ \E c \in Conns : /\ Registered(c) /\ allow[c]
                                               /\ p.affinity[k] = runners[c]
    BY PickRunnerFacts DEF TypeOK, Eligible, MatchesScope
  <2>3. CASE p.conn # 0 /\ Assign(r, p.conn, p.affinity)
    <3> DEFINE c == p.conn
    <3>1. c \in Conns /\ Registered(c) /\ allow[c]
      BY <2>2, <2>3
    <3> HIDE DEF c
    <3>2. /\ inflight' = [inflight EXCEPT ![c] = inflight[c] \cup {r}]
          /\ active' = [active EXCEPT ![c] = active[c] + 1]
          /\ record' = [record EXCEPT ![runners[c]] =
               Snapshot(c, active[c] + 1, inflight[c] \cup {r}, allow[c], TRUE)]
          /\ affinity' = [p.affinity EXCEPT ![AffinityKey[r]] = runners[c]]
          /\ UNCHANGED <<runners, allow>>
      BY <2>3 DEF Assign, c
    <3>3. inflight \in [Conns -> SUBSET Runs] /\ active \in [Conns -> Int]
      BY DEF TypeOK, ServerType
    <3>4. /\ inflight'[c] = inflight[c] \cup {r} /\ active'[c] = active[c] + 1
          /\ \A d \in Conns \ {c} : inflight'[d] = inflight[d] /\ active'[d] = active[d]
      BY <3>1, <3>2, <3>3
    <3>5. RecordsAgree' /\ OfflineEmpty'
      BY <3>1, <3>2, <3>4, RecordRefreshed
    <3>6. \A k \in Keys : affinity'[k] \in {p.affinity[k], runners[c]}
      BY <2>2, <3>2
    <3>7. AffinityLive'
      BY <2>2, <3>1, <3>2, <3>6, AffinityKept
    <3> QED BY <3>5, <3>7
  <2>4. CASE KeepQueued(r, p.affinity)
    <3>1. affinity' = p.affinity
          /\ UNCHANGED <<runners, inflight, active, allow, record>>
      BY <2>4 DEF KeepQueued
    <3>2. AffinityLive'
      BY <2>2, <3>1, AffinityKept
    <3> QED BY <3>1, <3>2 DEF RecordsAgree, OfflineEmpty, Registered
  <2> QED BY <2>1, <2>3, <2>4
<1> QED BY <1>1, <1>2 DEF PlaceJob

\* When the connections of some runners go, their records say so or go too,
\* and no affinity names them.
LEMMA GoneMirrors ==
  ASSUME TypeOK, SafetyInv, RegistryMirrors, NEW ids \in SUBSET Runners,
         Disconnect({c \in Conns : runners[c] \in ids}),
         \A id \in Runners \ ids : record'[id] = record[id],
         \A id \in ids : record'[id] # NoRecord =>
           ~record'[id].reachable /\ record'[id].active = 0
                                  /\ record'[id].inflight = {},
         \A k \in Keys : affinity'[k] = IF affinity[k] \in ids THEN NoRunner
                                        ELSE affinity[k]
  PROVE  RegistryMirrors'
<1> USE MirrorParts, MirrorPartsNext
<1> DEFINE gone == {c \in Conns : runners[c] \in ids}
<1>1. NoRunner \notin ids /\ runners \in [Conns -> Runners \cup {NoRunner}]
      /\ record \in [Runners -> Records \cup {NoRecord}]
  BY SetsAssumption DEF TypeOK, ServerType
<1>2. \A c \in Conns :
        IF runners[c] \in ids
        THEN runners'[c] = NoRunner
        ELSE /\ runners'[c] = runners[c] /\ active'[c] = active[c]
             /\ inflight'[c] = inflight[c] /\ allow'[c] = allow[c]
  BY DEF Disconnect
<1>3. RecordsAgree'
  <2> SUFFICES ASSUME NEW c \in Conns, runners'[c] # NoRunner
               PROVE  record'[runners'[c]] =
                        Snapshot(c, active'[c], inflight'[c], allow'[c], TRUE)
    BY DEF RecordsAgree, Registered, Snapshot
  <2>1. runners[c] \in Runners \ ids /\ runners'[c] = runners[c]
    BY <1>1, <1>2
  <2>2. record'[runners'[c]] = record[runners[c]]
    BY <2>1
  <2>3. record[runners[c]] = Snapshot(c, active[c], inflight[c], allow[c], TRUE)
    BY <1>1, <2>1, MirrorParts DEF RecordsAgree, Registered
  <2> QED BY <1>2, <2>1, <2>2, <2>3
<1>4. OfflineEmpty'
  <2> SUFFICES ASSUME NEW id \in Runners, record'[id] # NoRecord
               PROVE  /\ record'[id].reachable => runners'[record'[id].conn] = id
                      /\ ~record'[id].reachable => /\ record'[id].active = 0
                                                   /\ record'[id].inflight = {}
    BY DEF OfflineEmpty
  <2>1. CASE id \in ids
    BY <2>1
  <2>2. CASE id \notin ids
    <3>1. record'[id] = record[id] /\ record[id].conn \in Conns
      BY <1>1, <2>2 DEF Records
    <3> QED BY <1>2, <2>2, <3>1 DEF OfflineEmpty
  <2> QED BY <2>1, <2>2
<1>5. AffinityLive'
  <2> SUFFICES ASSUME NEW k \in Keys, affinity'[k] # NoRunner
               PROVE  \E c \in Conns : runners'[c] = affinity'[k] /\ allow'[c]
    BY DEF AffinityLive, RunnerByID
  <2>1. affinity'[k] = affinity[k] /\ affinity[k] \notin ids
    OBVIOUS
  <2>2. PICK c \in Conns : runners[c] = affinity[k] /\ allow[c]
    BY <2>1 DEF AffinityLive, RunnerByID
  <2> QED BY <1>2, <2>1, <2>2
<1> QED BY <1>3, <1>4, <1>5

\* Every step keeps the registry true.
LEMMA MirrorStep ==
  ASSUME TypeOK, SafetyInv, RegistryMirrors, [Next]_vars
  PROVE  RegistryMirrors'
<1> USE MirrorParts, MirrorPartsNext
<1> USE DEF TypeOK
<1>0. /\ runners \in [Conns -> Runners \cup {NoRunner}]
      /\ inflight \in [Conns -> SUBSET Runs] /\ active \in [Conns -> Int]
      /\ allow \in [Conns -> BOOLEAN]
      /\ record \in [Runners -> Records \cup {NoRecord}]
      /\ affinity \in [Keys -> Runners \cup {NoRunner}]
  BY DEF ServerType
<1>1. ASSUME NEW s \in Callers, SubmitJob(s) PROVE RegistryMirrors'
  <2>1. submit[s] \in Runs /\ PlaceJob(submit[s])
    BY <1>1 DEF SubmitJob, WorkerType
  <2> QED BY <2>1, PlaceJobMirrors
<1>2. ASSUME NEW w \in Pumps, PumpDispatch(w) PROVE RegistryMirrors'
  <2>1. pumpJobs[w] \in Seq(Runs) /\ pumpJobs[w] # <<>>
    BY <1>2 DEF PumpDispatch, WorkerType
  <2>2. Head(pumpJobs[w]) \in Runs
    BY <2>1, HeadTailFacts
  <2>3. PlaceJob(Head(pumpJobs[w]))
    BY <1>2 DEF PumpDispatch
  <2> QED BY <2>2, <2>3, PlaceJobMirrors
<1>3. ASSUME NEW id \in Runners, AddRunner(id) PROVE RegistryMirrors'
  <2> DEFINE c == connSeq + 1
             may == IF record[id] = NoRecord THEN TRUE ELSE record[id].allow
  <2>1. c \in Conns /\ connSeq \in Nat
    BY <1>3, BoundsAssumption DEF AddRunner, WorkerType, Conns
  <2>2. ~Registered(c) /\ inflight[c] = {} /\ active[c] = 0
    BY <2>1 DEF SafetyInv, Vacant
  <2> HIDE DEF c
  <2>3. /\ RunnerByID(id) = {} /\ id # NoRunner
        /\ runners' = [runners EXCEPT ![c] = id]
        /\ allow' = [allow EXCEPT ![c] = may]
        /\ record' = [record EXCEPT ![id] = Snapshot(c, 0, {}, may, TRUE)]
        /\ UNCHANGED <<inflight, active, affinity>>
    BY <1>3, SetsAssumption DEF AddRunner, Admits, c
  <2> HIDE DEF may
  <2>4. \A d \in Conns \ {c} : /\ runners[d] # id /\ runners'[d] = runners[d]
                               /\ allow'[d] = allow[d]
    BY <1>0, <2>1, <2>3 DEF RunnerByID
  <2>5. runners'[c] = id /\ allow'[c] = may /\ record'[id] = Snapshot(c, 0, {}, may, TRUE)
        /\ \A i \in Runners \ {id} : record'[i] = record[i]
    BY <1>0, <2>1, <2>3
  <2>6. RecordsAgree'
    <3> SUFFICES ASSUME NEW d \in Conns, runners'[d] # NoRunner
                 PROVE  record'[runners'[d]] =
                          Snapshot(d, active[d], inflight[d], allow'[d], TRUE)
      BY <2>3 DEF RecordsAgree, Registered, Snapshot
    <3>1. CASE d = c
      BY <2>2, <2>5, <3>1
    <3>2. CASE d # c
      <4>1. runners[d] \in Runners \ {id} /\ runners'[d] = runners[d]
        BY <1>0, <2>4, <3>2
      <4> QED BY <2>4, <2>5, <3>2, <4>1 DEF RecordsAgree, Registered
    <3> QED BY <3>1, <3>2
  <2>7. OfflineEmpty'
    <3> SUFFICES ASSUME NEW i \in Runners, record'[i] # NoRecord
                 PROVE  /\ record'[i].reachable => runners'[record'[i].conn] = i
                        /\ ~record'[i].reachable => /\ record'[i].active = 0
                                                    /\ record'[i].inflight = {}
      BY DEF OfflineEmpty
    <3>1. CASE i = id
      BY <2>5, <3>1 DEF Snapshot
    <3>2. CASE i # id
      <4>1. record'[i] = record[i] /\ record[i].conn \in Conns
        BY <1>0, <2>5, <3>2 DEF Records
      <4>2. i # NoRunner
        BY SetsAssumption
      <4> QED BY <2>2, <2>4, <3>2, <4>1, <4>2 DEF OfflineEmpty, Registered
    <3> QED BY <3>1, <3>2
  <2>8. AffinityLive'
    <3> SUFFICES ASSUME NEW k \in Keys, affinity[k] # NoRunner
                 PROVE  \E d \in Conns : runners'[d] = affinity[k] /\ allow'[d]
      BY <2>3 DEF AffinityLive, RunnerByID
    <3>1. PICK d \in Conns : runners[d] = affinity[k] /\ allow[d]
      BY DEF AffinityLive, RunnerByID
    <3> QED BY <2>2, <2>4, <3>1 DEF Registered
  <2> QED BY <2>6, <2>7, <2>8
<1>4. ASSUME NEW c \in Conns, RemoveRunner(c) PROVE RegistryMirrors'
  <2>1. runners[c] \in Runners
    BY <1>0, <1>4 DEF RemoveRunner, Registered
  <2>2. {c} = {d \in Conns : runners[d] \in {runners[c]}}
    BY <1>4 DEF RemoveRunner, SafetyInv, OneConnection, Registered
  <2>3. /\ Disconnect({c}) /\ affinity' = DropAffinity(runners[c])
        /\ record' = [record EXCEPT ![runners[c]] = Snapshot(c, 0, {}, allow[c], FALSE)]
    BY <1>4 DEF RemoveRunner
  <2>4. /\ \A id \in Runners \ {runners[c]} : record'[id] = record[id]
        /\ record'[runners[c]] = Snapshot(c, 0, {}, allow[c], FALSE)
    BY <1>0, <2>1, <2>3
  <2>5. \A id \in {runners[c]} : ~record'[id].reachable /\ record'[id].active = 0
                                 /\ record'[id].inflight = {}
    BY <2>4 DEF Snapshot
  <2>6. \A k \in Keys : affinity'[k] = IF affinity[k] \in {runners[c]} THEN NoRunner
                                       ELSE affinity[k]
    BY <2>3 DEF DropAffinity
  <2> QED BY <2>1, <2>2, <2>3, <2>4, <2>5, <2>6, GoneMirrors
<1>5. ASSUME NEW ids \in SUBSET Runners, RemoveRegistrations(ids)
      PROVE  RegistryMirrors'
  BY <1>0, <1>5, GoneMirrors DEF RemoveRegistrations
<1>6. ASSUME NEW c \in Conns, NEW n, Heartbeat(c, n) PROVE RegistryMirrors'
  <2>1. /\ Registered(c) /\ active' = [active EXCEPT ![c] = n]
        /\ record' = [record EXCEPT ![runners[c]] =
             Snapshot(c, n, inflight[c], allow[c], TRUE)]
        /\ UNCHANGED <<runners, inflight, allow, affinity>>
    BY <1>6 DEF Heartbeat
  <2>2. active'[c] = n /\ \A d \in Conns \ {c} : active'[d] = active[d]
    BY <1>0, <2>1
  <2>3. RecordsAgree' /\ OfflineEmpty'
    BY <2>1, <2>2, RecordRefreshed
  <2> QED BY <2>1, <2>3 DEF AffinityLive, RunnerByID
<1>7. ASSUME NEW c \in Conns, NEW r \in Runs, NEW status, JobResult(c, r, status)
      PROVE  RegistryMirrors'
  <2> DEFINE load == IF r \in inflight[c] /\ active[c] > 0
                     THEN active[c] - 1 ELSE active[c]
             jobs == inflight[c] \ {r}
  <2>1. /\ Registered(c) /\ active' = [active EXCEPT ![c] = load]
        /\ inflight' = [inflight EXCEPT ![c] = jobs]
        /\ record' = [record EXCEPT ![runners[c]] =
             Snapshot(c, load, jobs, allow[c], TRUE)]
        /\ UNCHANGED <<runners, allow, affinity>>
    BY <1>7 DEF JobResult
  <2> HIDE DEF load, jobs
  <2>2. /\ active'[c] = load /\ inflight'[c] = jobs
        /\ \A d \in Conns \ {c} : active'[d] = active[d] /\ inflight'[d] = inflight[d]
    BY <1>0, <2>1
  <2>3. RecordsAgree' /\ OfflineEmpty'
    BY <2>1, <2>2, RecordRefreshed
  <2> QED BY <2>1, <2>3 DEF AffinityLive, RunnerByID
<1>8. ASSUME NEW id \in Runners, NEW may \in BOOLEAN, UpdateRunnerDispatch(id, may)
      PROVE  RegistryMirrors'
  <2>0. UNCHANGED <<runners, inflight>>
    BY <1>8 DEF UpdateRunnerDispatch
  <2>1. ASSUME NEW c \in RunnerByID(id), UpdateConnected(c, may)
        PROVE  RegistryMirrors'
    <3> DEFINE load == IF may /\ Cardinality(inflight[c]) < active[c]
                       THEN Cardinality(inflight[c]) ELSE active[c]
    <3>1. /\ allow' = [allow EXCEPT ![c] = may]
          /\ active' = [active EXCEPT ![c] = load]
          /\ affinity' = IF may THEN affinity ELSE DropAffinity(runners[c])
          /\ record' = [record EXCEPT ![runners[c]] =
               Snapshot(c, load, inflight[c], may, TRUE)]
      BY <2>1 DEF UpdateConnected
    <3> HIDE DEF load
    <3>2. c \in Conns /\ Registered(c)
      BY DEF RunnerByID, Registered
    <3>3. /\ active'[c] = load /\ allow'[c] = may
          /\ \A d \in Conns \ {c} : active'[d] = active[d] /\ allow'[d] = allow[d]
      BY <1>0, <3>1, <3>2
    <3>4. RecordsAgree' /\ OfflineEmpty'
      BY <2>0, <3>1, <3>2, <3>3, RecordRefreshed
    <3>5. AffinityLive'
      <4> SUFFICES ASSUME NEW k \in Keys, affinity'[k] # NoRunner
                   PROVE  \E d \in Conns : runners[d] = affinity'[k] /\ allow'[d]
        BY <2>0 DEF AffinityLive, RunnerByID
      <4>1. affinity'[k] = affinity[k] /\ (~may => affinity[k] # runners[c])
        BY <3>1 DEF DropAffinity
      <4>2. PICK d \in Conns : runners[d] = affinity[k] /\ allow[d]
        BY <4>1 DEF AffinityLive, RunnerByID
      <4> QED BY <3>3, <4>1, <4>2
    <3> QED BY <3>4, <3>5
  <2>2. ASSUME RunnerByID(id) = {}, UpdateRecord(id, may)
        PROVE  RegistryMirrors'
    <3>1. /\ record[id] \in Records
          /\ record' = [record EXCEPT ![id].allow = may]
          /\ UNCHANGED <<allow, active, affinity>>
      BY <1>0, <2>2 DEF UpdateRecord
    <3>2. \A c \in Conns : runners[c] # id
      BY <2>2, SetsAssumption DEF RunnerByID
    <3>3. /\ \A i \in Runners \ {id} : record'[i] = record[i]
          /\ record'[id] = [record[id] EXCEPT !.allow = may]
      BY <1>0, <3>1
    <3>4. /\ record'[id].reachable = record[id].reachable
          /\ record'[id].conn = record[id].conn
          /\ record'[id].active = record[id].active
          /\ record'[id].inflight = record[id].inflight
      BY <3>1, <3>3 DEF Records
    <3>5. RecordsAgree'
      <4> SUFFICES ASSUME NEW d \in Conns, runners[d] # NoRunner
                   PROVE  record'[runners[d]] =
                            Snapshot(d, active[d], inflight[d], allow[d], TRUE)
        BY <2>0, <3>1 DEF RecordsAgree, Registered, Snapshot
      <4>1. runners[d] \in Runners \ {id}
        BY <1>0, <3>2
      <4> QED BY <3>3, <4>1 DEF RecordsAgree, Registered
    <3>6. OfflineEmpty'
      <4> SUFFICES ASSUME NEW i \in Runners, record'[i] # NoRecord
                   PROVE  /\ record'[i].reachable => runners[record'[i].conn] = i
                          /\ ~record'[i].reachable => /\ record'[i].active = 0
                                                      /\ record'[i].inflight = {}
        BY <2>0 DEF OfflineEmpty
      <4>1. CASE i = id
        BY <3>1, <3>4, <4>1, RecordAssumption DEF OfflineEmpty
      <4>2. CASE i # id
        BY <3>3, <4>2 DEF OfflineEmpty
      <4> QED BY <4>1, <4>2
    <3> QED BY <2>0, <3>1, <3>5, <3>6 DEF AffinityLive, RunnerByID
  <2> QED BY <1>8, <2>1, <2>2 DEF UpdateRunnerDispatch
<1>9. ASSUME NEW y \in Syncs, SyncRouting(y) PROVE RegistryMirrors'
  <2>1. /\ UNCHANGED <<runners, inflight, active, allow, record>>
        /\ affinity' \in {affinity, [k \in Keys |-> NoRunner]}
    BY <1>9 DEF SyncRouting
  <2> QED BY <2>1 DEF RecordsAgree, OfflineEmpty, AffinityLive, Registered, RunnerByID
<1>10. ASSUME NEW id \in Runners, EjectRunner(id) PROVE RegistryMirrors'
  <2>1. RemoveRegistrations({id}) \/ UNCHANGED server
    BY <1>10 DEF EjectRunner
  <2>2. CASE RemoveRegistrations({id})
    BY <1>5, <2>2
  <2>3. CASE UNCHANGED server
    BY <2>3 DEF server, RegistryMirrors, Registered, RunnerByID
  <2> QED BY <2>1, <2>2, <2>3
<1>11. ASSUME NEW y \in Syncs, SyncEjected(y) PROVE RegistryMirrors'
  <2>1. sync[y].ejected \in SUBSET Runners /\ RemoveRegistrations(sync[y].ejected)
    BY <1>11 DEF SyncEjected, ControlType
  <2> QED BY <1>5, <2>1
<1>12. ASSUME \/ \E s \in Callers, r \in Runs : SubmitCheck(s, r)
              \/ \E w \in Pumps : PumpStart(w) \/ PumpCheck(w)
              \/ \E c \in Conns : Deliver(c) \/ LoseLink(c)
              \/ \E id \in Runners : RevokeRunner(id) \/ AllowReuse(id)
              \/ \E table \in RoutingTables : ChangeRouting(table)
              \/ \E y \in Syncs : SyncFetch(y)
              \/ \E r \in Runs : ChangeStatus(r)
              \/ UNCHANGED vars
       PROVE  RegistryMirrors'
  <2>1. UNCHANGED <<runners, inflight, active, allow, record, affinity>>
    BY <1>12 DEF SubmitCheck, PumpStart, PumpCheck, Deliver, LoseLink, RevokeRunner,
       AllowReuse, ChangeRouting, SyncFetch, ChangeStatus, vars, server
  <2> QED BY <2>1 DEF RegistryMirrors, Registered, RunnerByID
<1> QED
  BY <1>1, <1>2, <1>3, <1>4, <1>6, <1>7, <1>8, <1>9, <1>10, <1>11, <1>12,
     JobsAssumption DEF Next

\* GetStatus and the affinity table: what the dispatcher reports of a runner is
\* what its connection has, and work that should stay on one runner is never
\* steered to one that is gone, ejected or paused.
THEOREM RegistryTruthful == Spec => []RegistryMirrors
<1>1. Init => RegistryMirrors
  BY SetsAssumption DEF Init, RegistryMirrors, Registered
<1>2. TypeOK /\ SafetyInv /\ RegistryMirrors /\ [Next]_vars => RegistryMirrors'
  BY MirrorStep
<1> QED BY <1>1, <1>2, TypeCorrect, SafetyHolds, PTL DEF Spec
-----------------------------------------------------------------------------
(* Streams: what a connection's jobs are made of.                          *)

\* The head of a sequence and its tail make up its elements, and the tail of
\* one without repetition has lost the head.
LEMMA PopFacts ==
  ASSUME NEW S, NEW q \in Seq(S), q # <<>>
  PROVE  /\ ToSet(q) = {Head(q)} \cup ToSet(Tail(q))
         /\ IsInjective(q) => /\ IsInjective(Tail(q))
                              /\ Head(q) \notin ToSet(Tail(q))
<1>1. /\ Len(q) \in Nat \ {0} /\ DOMAIN q = 1..Len(q)
      /\ Tail(q) \in Seq(S) /\ DOMAIN Tail(q) = 1..(Len(q) - 1)
      /\ \A i \in 1..(Len(q) - 1) : Tail(q)[i] = q[i + 1]
      /\ Head(q) = q[1]
  OBVIOUS
<1>2. ToSet(q) \subseteq {Head(q)} \cup ToSet(Tail(q))
  <2> SUFFICES ASSUME NEW i \in 1..Len(q), i # 1 PROVE q[i] \in ToSet(Tail(q))
    BY <1>1 DEF ToSet
  <2>1. i - 1 \in DOMAIN Tail(q) /\ Tail(q)[i - 1] = q[i]
    BY <1>1
  <2> QED BY <2>1 DEF ToSet
<1>3. IsInjective(q) => IsInjective(Tail(q)) /\ Head(q) \notin ToSet(Tail(q))
  <2> SUFFICES ASSUME IsInjective(q)
               PROVE  IsInjective(Tail(q)) /\ Head(q) \notin ToSet(Tail(q))
    OBVIOUS
  <2>1. \A i, j \in 1..Len(q) : q[i] = q[j] => i = j
    BY <1>1 DEF IsInjective
  <2>2. IsInjective(Tail(q))
    <3> SUFFICES ASSUME NEW i \in DOMAIN Tail(q), NEW j \in DOMAIN Tail(q),
                        Tail(q)[i] = Tail(q)[j]
                 PROVE  i = j
      BY DEF IsInjective
    <3>1. i + 1 \in 1..Len(q) /\ j + 1 \in 1..Len(q) /\ q[i + 1] = q[j + 1]
      BY <1>1
    <3>2. i + 1 = j + 1
      BY <2>1, <3>1
    <3> QED BY <1>1, <3>2
  <2>3. Head(q) \notin ToSet(Tail(q))
    <3> SUFFICES ASSUME NEW i \in 1..(Len(q) - 1), q[1] = q[i + 1] PROVE FALSE
      BY <1>1 DEF ToSet
    <3>1. 1 = i + 1
      BY <1>1, <2>1
    <3> QED BY <3>1
  <2> QED BY <2>2, <2>3
<1>4. ToSet(Tail(q)) \subseteq ToSet(q) /\ Head(q) \in ToSet(q)
  BY HeadTailFacts
<1> QED BY <1>2, <1>3, <1>4

\* The jobs of a live connection are in its channel, once, or with its runner,
\* and the runner has none of those still in the channel.
Accounted(c) ==
  Registered(c) /\ link[c] =>
    /\ IsInjective(sendCh[c])
    /\ inflight[c] = (ToSet(sendCh[c]) \ {Note}) \cup delivered[c]
    /\ ToSet(sendCh[c]) \cap delivered[c] = {}
\* A stream ends no later than its registration, and a runner whose stream has
\* ended works on nothing the dispatcher will hear of.
Attached(c) ==
  /\ link[c] => Registered(c)
  /\ ~link[c] => delivered[c] = {}
\* InflightAccounted is not inductive: a job put in the channel twice would be
\* with the runner and in the channel after one delivery, and a connection id
\* could come into use with jobs of its own.
StreamInv == \A c \in Conns : Accounted(c) /\ Attached(c)

LEMMA StreamKept ==
  ASSUME NEW c \in Conns, Accounted(c), Attached(c),
         runners'[c] = runners[c], inflight'[c] = inflight[c],
         sendCh'[c] = sendCh[c], link'[c] = link[c], delivered'[c] = delivered[c]
  PROVE  Accounted(c)' /\ Attached(c)'
BY DEF Accounted, Attached, Registered

\* A job that is not tracked is new to the stream it is put on.
LEMMA PlaceJobStreams ==
  ASSUME TypeOK, SafetyInv, StreamInv, NEW r \in Runs, PlaceJob(r),
         UNCHANGED remote
  PROVE  StreamInv'
<1>0. link' = link /\ delivered' = delivered
  BY DEF remote
<1> SUFFICES ASSUME NEW d \in Conns PROVE Accounted(d)' /\ Attached(d)'
  BY DEF StreamInv
<1>1. Accounted(d) /\ Attached(d)
  BY DEF StreamInv
<1>2. CASE UNCHANGED <<runners, inflight, sendCh>>
  BY <1>0, <1>1, <1>2, StreamKept
<1>3. CASE ~Tracked(r) /\ DispatchOrQueue(r)
  <2>1. PICK p \in PickRunner(r) :
          IF p.conn # 0 /\ Len(sendCh[p.conn]) < SendBuf
          THEN Assign(r, p.conn, p.affinity) ELSE KeepQueued(r, p.affinity)
    BY <1>3 DEF DispatchOrQueue
  <2>2. CASE p.conn # 0 /\ Assign(r, p.conn, p.affinity)
    <3> DEFINE c == p.conn
    <3>1. c \in Conns /\ Registered(c)
      BY <2>2, PickRunnerFacts DEF TypeOK, Eligible
    <3> HIDE DEF c
    <3>2. /\ inflight' = [inflight EXCEPT ![c] = inflight[c] \cup {r}]
          /\ sendCh' = [sendCh EXCEPT ![c] = Append(sendCh[c], r)]
          /\ runners' = runners
      BY <2>2 DEF Assign, c
    <3>3. /\ inflight \in [Conns -> SUBSET Runs]
          /\ sendCh \in [Conns -> Seq(Runs \cup {Note})]
      BY DEF TypeOK, ServerType
    <3>4. CASE d # c
      BY <1>0, <1>1, <3>1, <3>2, <3>3, <3>4, StreamKept
    <3>5. CASE d = c /\ link[c]
      <4>1. r \notin inflight[c] /\ r # Note
        BY <1>3, <3>1, SetsAssumption DEF Tracked, Assigned
      <4>2. /\ IsInjective(sendCh[c])
            /\ inflight[c] = (ToSet(sendCh[c]) \ {Note}) \cup delivered[c]
            /\ ToSet(sendCh[c]) \cap delivered[c] = {}
        BY <1>1, <3>1, <3>5 DEF Accounted
      <4>3. r \notin ToSet(sendCh[c]) /\ r \notin delivered[c]
        BY <4>1, <4>2
      <4>4. /\ ToSet(Append(sendCh[c], r)) = ToSet(sendCh[c]) \cup {r}
            /\ IsInjective(Append(sendCh[c], r))
        <5>1. sendCh[c] \in Seq(Runs \cup {Note}) /\ r \in Runs \cup {Note}
          BY <3>1, <3>3
        <5> QED BY <4>2, <4>3, <5>1, AppendFacts
      <4>5. inflight'[c] = inflight[c] \cup {r} /\ sendCh'[c] = Append(sendCh[c], r)
        BY <3>1, <3>2, <3>3
      <4>6. inflight'[c] = (ToSet(sendCh'[c]) \ {Note}) \cup delivered[c]
        BY <4>1, <4>2, <4>4, <4>5
      <4>7. ToSet(sendCh'[c]) \cap delivered[c] = {}
        BY <4>2, <4>3, <4>4, <4>5
      <4> QED BY <1>0, <1>1, <3>1, <3>2, <3>5, <4>4, <4>5, <4>6, <4>7
              DEF Accounted, Attached, Registered
    <3>6. CASE d = c /\ ~link[c]
      BY <1>0, <1>1, <3>2, <3>6 DEF Accounted, Attached, Registered
    <3> QED BY <3>4, <3>5, <3>6
  <2>3. CASE KeepQueued(r, p.affinity)
    BY <1>2, <2>3 DEF KeepQueued
  <2> QED BY <2>1, <2>2, <2>3
<1> QED BY <1>2, <1>3 DEF PlaceJob, server

\* A connection that goes takes its stream along.
LEMMA DisconnectStreams ==
  ASSUME StreamInv, NEW gone \in SUBSET Conns, Disconnect(gone)
  PROVE  StreamInv'
<1> SUFFICES ASSUME NEW c \in Conns PROVE Accounted(c)' /\ Attached(c)'
  BY DEF StreamInv
<1>1. IF c \in gone
      THEN runners'[c] = NoRunner /\ link'[c] = FALSE /\ delivered'[c] = {}
      ELSE /\ runners'[c] = runners[c] /\ inflight'[c] = inflight[c]
           /\ sendCh'[c] = sendCh[c] /\ link'[c] = link[c]
           /\ delivered'[c] = delivered[c]
  BY DEF Disconnect
<1>2. CASE c \in gone
  BY <1>1, <1>2 DEF Accounted, Attached, Registered
<1>3. CASE c \notin gone
  BY <1>1, <1>3, StreamKept DEF StreamInv
<1> QED BY <1>2, <1>3

\* Every step keeps the streams accounted for.
LEMMA StreamStep ==
  ASSUME TypeOK, SafetyInv, StreamInv, [Next]_vars
  PROVE  StreamInv'
<1>0. /\ runners \in [Conns -> Runners \cup {NoRunner}]
      /\ inflight \in [Conns -> SUBSET Runs]
      /\ sendCh \in [Conns -> Seq(Runs \cup {Note})]
      /\ link \in [Conns -> BOOLEAN] /\ delivered \in [Conns -> SUBSET Runs]
  BY DEF TypeOK, ServerType, RemoteType
<1>1. ASSUME NEW s \in Callers, SubmitJob(s) PROVE StreamInv'
  <2>1. submit[s] \in Runs /\ PlaceJob(submit[s]) /\ UNCHANGED remote
    BY <1>1 DEF SubmitJob, TypeOK, WorkerType
  <2> QED BY <2>1, PlaceJobStreams
<1>2. ASSUME NEW w \in Pumps, PumpDispatch(w) PROVE StreamInv'
  <2>1. pumpJobs[w] \in Seq(Runs) /\ pumpJobs[w] # <<>>
    BY <1>2 DEF PumpDispatch, TypeOK, WorkerType
  <2>2. Head(pumpJobs[w]) \in Runs
    BY <2>1, HeadTailFacts
  <2>3. PlaceJob(Head(pumpJobs[w])) /\ UNCHANGED remote
    BY <1>2 DEF PumpDispatch
  <2> QED BY <2>2, <2>3, PlaceJobStreams
<1>3. ASSUME NEW id \in Runners, AddRunner(id) PROVE StreamInv'
  <2> DEFINE c == connSeq + 1
  <2>1. c \in Conns /\ connSeq \in Nat
    BY <1>3, BoundsAssumption DEF AddRunner, TypeOK, WorkerType, Conns
  <2>2. ~Registered(c) /\ inflight[c] = {}
    BY <2>1 DEF SafetyInv, Vacant
  <2> HIDE DEF c
  <2>3. delivered[c] = {}
    BY <2>1, <2>2 DEF StreamInv, Attached
  <2>4. /\ runners' = [runners EXCEPT ![c] = id]
        /\ sendCh' = [sendCh EXCEPT ![c] = IF SendBuf > 0 THEN <<Note>> ELSE <<>>]
        /\ link' = [link EXCEPT ![c] = TRUE]
        /\ UNCHANGED <<inflight, delivered>>
    BY <1>3 DEF AddRunner, c
  <2> SUFFICES ASSUME NEW d \in Conns PROVE Accounted(d)' /\ Attached(d)'
    BY DEF StreamInv
  <2>5. CASE d = c
    <3>1. runners'[c] = id /\ link'[c] = TRUE /\ sendCh'[c] \in {<<Note>>, <<>>}
      BY <1>0, <2>1, <2>4
    <3>2. \A q \in {<<Note>>, <<>>} : IsInjective(q) /\ ToSet(q) \ {Note} = {}
      BY DEF IsInjective, ToSet
    <3> QED BY <2>2, <2>3, <2>4, <2>5, <3>1, <3>2, SetsAssumption
            DEF Accounted, Attached, Registered
  <2>6. CASE d # c
    BY <1>0, <2>1, <2>4, <2>6, StreamKept DEF StreamInv
  <2> QED BY <2>5, <2>6
<1>4. ASSUME NEW c \in Conns, RemoveRunner(c) PROVE StreamInv'
  BY <1>4, DisconnectStreams DEF RemoveRunner
<1>5. ASSUME NEW ids, RemoveRegistrations(ids) PROVE StreamInv'
  BY <1>5, DisconnectStreams DEF RemoveRegistrations
<1>6. ASSUME NEW c \in Conns, NEW r \in Runs, NEW status, JobResult(c, r, status)
      PROVE  StreamInv'
  <2>1. /\ Registered(c) /\ link[c] /\ r \in delivered[c]
        /\ delivered' = [delivered EXCEPT ![c] = delivered[c] \ {r}]
        /\ inflight' = [inflight EXCEPT ![c] = inflight[c] \ {r}]
        /\ UNCHANGED <<runners, sendCh, link>>
    BY <1>6 DEF JobResult
  <2> SUFFICES ASSUME NEW d \in Conns PROVE Accounted(d)' /\ Attached(d)'
    BY DEF StreamInv
  <2>2. Accounted(d) /\ Attached(d)
    BY DEF StreamInv
  <2>3. CASE d = c
    <3>1. delivered'[c] = delivered[c] \ {r} /\ inflight'[c] = inflight[c] \ {r}
      BY <1>0, <2>1
    <3>2. r \notin ToSet(sendCh[c])
      BY <2>1, <2>2, <2>3 DEF Accounted
    <3> QED BY <2>1, <2>2, <2>3, <3>1, <3>2 DEF Accounted, Attached, Registered
  <2>4. CASE d # c
    BY <1>0, <2>1, <2>2, <2>4, StreamKept
  <2> QED BY <2>3, <2>4
<1>7. ASSUME NEW c \in Conns, Deliver(c) PROVE StreamInv'
  <2> DEFINE q == sendCh[c]
  <2>1. /\ link[c] /\ q # <<>> /\ q \in Seq(Runs \cup {Note})
        /\ sendCh' = [sendCh EXCEPT ![c] = Tail(q)]
        /\ delivered' = [delivered EXCEPT ![c] = delivered[c] \cup ({Head(q)} \cap Runs)]
        /\ UNCHANGED <<runners, inflight, link>>
    BY <1>0, <1>7 DEF Deliver
  <2> HIDE DEF q
  <2> SUFFICES ASSUME NEW d \in Conns PROVE Accounted(d)' /\ Attached(d)'
    BY DEF StreamInv
  <2>2. Accounted(d) /\ Attached(d)
    BY DEF StreamInv
  <2>3. CASE d = c
    <3>1. /\ sendCh'[c] = Tail(q)
          /\ delivered'[c] = delivered[c] \cup ({Head(q)} \cap Runs)
      BY <1>0, <2>1
    <3>2. /\ Registered(c) /\ IsInjective(q)
          /\ inflight[c] = (ToSet(q) \ {Note}) \cup delivered[c]
          /\ ToSet(q) \cap delivered[c] = {}
      BY <2>1, <2>2, <2>3 DEF Accounted, Attached, q
    <3>3. /\ ToSet(q) = {Head(q)} \cup ToSet(Tail(q))
          /\ IsInjective(Tail(q)) /\ Head(q) \notin ToSet(Tail(q))
          /\ Head(q) \in Runs \cup {Note}
      BY <2>1, <3>2, PopFacts, HeadTailFacts
    <3>4. inflight[c] = (ToSet(Tail(q)) \ {Note}) \cup delivered'[c]
      BY <3>1, <3>2, <3>3, SetsAssumption
    <3>5. ToSet(Tail(q)) \cap delivered'[c] = {}
      BY <3>1, <3>2, <3>3
    <3> QED BY <2>1, <2>3, <3>1, <3>2, <3>3, <3>4, <3>5
            DEF Accounted, Attached, Registered
  <2>4. CASE d # c
    BY <1>0, <2>1, <2>2, <2>4, StreamKept
  <2> QED BY <2>3, <2>4
<1>8. ASSUME NEW c \in Conns, LoseLink(c) PROVE StreamInv'
  <2>1. /\ link' = [link EXCEPT ![c] = FALSE]
        /\ delivered' = [delivered EXCEPT ![c] = {}]
        /\ UNCHANGED <<runners, inflight, sendCh>>
    BY <1>8 DEF LoseLink, server
  <2> SUFFICES ASSUME NEW d \in Conns PROVE Accounted(d)' /\ Attached(d)'
    BY DEF StreamInv
  <2>2. CASE d = c
    <3>1. link'[c] = FALSE /\ delivered'[c] = {}
      BY <1>0, <2>1
    <3> QED BY <2>2, <3>1 DEF Accounted, Attached
  <2>3. CASE d # c
    BY <1>0, <2>1, <2>3, StreamKept DEF StreamInv
  <2> QED BY <2>2, <2>3
<1>9. ASSUME UNCHANGED <<runners, inflight, sendCh, link, delivered>> PROVE StreamInv'
  BY <1>9 DEF StreamInv, Accounted, Attached, Registered
<1>10. ASSUME NEW id \in Runners, EjectRunner(id) PROVE StreamInv'
  <2>1. CASE RemoveRegistrations({id})
    BY <1>5, <2>1
  <2>2. CASE UNCHANGED <<server, remote>>
    BY <1>9, <2>2 DEF server, remote
  <2> QED BY <1>10, <2>1, <2>2 DEF EjectRunner
<1>11. ASSUME NEW y \in Syncs, SyncEjected(y) PROVE StreamInv'
  BY <1>5, <1>11 DEF SyncEjected
<1>12. ASSUME \/ \E s \in Callers, r \in Runs : SubmitCheck(s, r)
              \/ \E w \in Pumps : PumpStart(w) \/ PumpCheck(w)
              \/ \E c \in Conns, n \in 0..Cardinality(Runs) : Heartbeat(c, n)
              \/ \E id \in Runners, may \in BOOLEAN : UpdateRunnerDispatch(id, may)
              \/ \E id \in Runners : RevokeRunner(id) \/ AllowReuse(id)
              \/ \E table \in RoutingTables : ChangeRouting(table)
              \/ \E y \in Syncs : SyncFetch(y) \/ SyncRouting(y)
              \/ \E r \in Runs : ChangeStatus(r)
              \/ UNCHANGED vars
       PROVE  StreamInv'
  <2>1. UNCHANGED <<runners, inflight, sendCh, link, delivered>>
    BY <1>12 DEF SubmitCheck, PumpStart, PumpCheck, Heartbeat, UpdateRunnerDispatch,
       RevokeRunner, AllowReuse, ChangeRouting, SyncFetch, SyncRouting,
       ChangeStatus, vars, server, remote
  <2> QED BY <1>9, <2>1
<1> QED
  BY <1>1, <1>2, <1>3, <1>4, <1>6, <1>7, <1>8, <1>10, <1>11, <1>12,
     JobsAssumption DEF Next

\* handleJobResult, the send goroutine and removeRunner: no slot of a connected
\* runner is held by a job that is neither on its way to it nor with it.
THEOREM InflightTrue == Spec => []InflightAccounted
<1>1. Init => StreamInv
  BY SetsAssumption DEF Init, StreamInv, Accounted, Attached, Registered
<1>2. TypeOK /\ SafetyInv /\ StreamInv /\ [Next]_vars => StreamInv'
  BY StreamStep
<1>3. StreamInv => InflightAccounted
  BY DEF StreamInv, Accounted, InflightAccounted
<1> QED BY <1>1, <1>2, <1>3, TypeCorrect, SafetyHolds, PTL DEF Spec
-----------------------------------------------------------------------------
(* Who gets work, and what becomes of a run the dispatcher holds.          *)

\* Placing a job puts no job on a connection but this one, and this one only
\* where the policy allows it.
LEMMA PlaceJobPolicy ==
  ASSUME TypeOK, SafetyInv, NEW r \in Runs, PlaceJob(r),
         NEW c \in Conns, NEW q \in inflight'[c] \ inflight[c]
  PROVE  /\ allow[c] /\ runners[c] \in Runners \ ejected
         /\ HasScope(runners[c], JobScope[q]) /\ HasRoom(c)
<1>1. inflight \in [Conns -> SUBSET Runs]
  BY DEF TypeOK, ServerType
<1>2. inflight' # inflight
  OBVIOUS
<1>3. PICK p \in PickRunner(r) : p.conn # 0 /\ Assign(r, p.conn, p.affinity)
  BY <1>2 DEF PlaceJob, server, DispatchOrQueue, KeepQueued
<1>4. p.conn \in Conns /\ Eligible(p.conn, r)
  BY <1>3, PickRunnerFacts DEF TypeOK
<1>5. inflight' = [inflight EXCEPT ![p.conn] = inflight[p.conn] \cup {r}]
  BY <1>3 DEF Assign
<1>6. c = p.conn /\ q = r
  BY <1>1, <1>4, <1>5
<1>7. runners[c] \in Runners \ ejected
  BY <1>4, <1>6 DEF Eligible, Registered, SafetyInv, OneConnection, TypeOK, ServerType
<1> QED BY <1>4, <1>6, <1>7 DEF Eligible, MatchesScope

\* Only SubmitJob and pumpQueue put jobs on a connection.
LEMMA OnlyPlacingAssigns ==
  ASSUME TypeOK, [Next]_vars
  PROVE  \/ \E r \in Runs : PlaceJob(r)
         \/ \A c \in Conns : inflight'[c] \subseteq inflight[c]
<1>0. inflight \in [Conns -> SUBSET Runs]
  BY DEF TypeOK, ServerType
<1> DEFINE Shrinks == \A c \in Conns : inflight'[c] \subseteq inflight[c]
<1>1. ASSUME NEW s \in Callers, SubmitJob(s) PROVE \E r \in Runs : PlaceJob(r)
  BY <1>1 DEF SubmitJob, TypeOK, WorkerType
<1>2. ASSUME NEW w \in Pumps, PumpDispatch(w) PROVE \E r \in Runs : PlaceJob(r)
  <2>1. pumpJobs[w] \in Seq(Runs) /\ pumpJobs[w] # <<>>
    BY <1>2 DEF PumpDispatch, TypeOK, WorkerType
  <2>2. Head(pumpJobs[w]) \in Runs
    BY <2>1, HeadTailFacts
  <2> QED BY <1>2, <2>2 DEF PumpDispatch
<1>3. ASSUME NEW gone, Disconnect(gone) PROVE Shrinks
  BY <1>3 DEF Disconnect
<1>4. ASSUME NEW c \in Conns, RemoveRunner(c) PROVE Shrinks
  BY <1>3, <1>4 DEF RemoveRunner
<1>5. ASSUME NEW y \in Syncs, SyncEjected(y) PROVE Shrinks
  BY <1>3, <1>5 DEF SyncEjected, RemoveRegistrations
<1>6. ASSUME UNCHANGED inflight PROVE Shrinks
  BY <1>6
<1>7. ASSUME NEW id \in Runners, EjectRunner(id) PROVE Shrinks
  <2>1. RemoveRegistrations({id}) \/ UNCHANGED server
    BY <1>7 DEF EjectRunner
  <2> QED BY <1>3, <1>6, <2>1 DEF RemoveRegistrations, server
<1>8. ASSUME NEW c \in Conns, NEW r \in Runs, NEW status, JobResult(c, r, status)
      PROVE  Shrinks
  <2>1. inflight' = [inflight EXCEPT ![c] = inflight[c] \ {r}]
    BY <1>8 DEF JobResult
  <2> QED BY <1>0, <2>1
<1>9. ASSUME \/ \E s \in Callers, r \in Runs : SubmitCheck(s, r)
             \/ \E w \in Pumps : PumpStart(w) \/ PumpCheck(w)
             \/ \E id \in Runners : AddRunner(id)
             \/ \E c \in Conns : Deliver(c) \/ LoseLink(c)
             \/ \E c \in Conns, n \in 0..Cardinality(Runs) : Heartbeat(c, n)
             \/ \E id \in Runners, may \in BOOLEAN : UpdateRunnerDispatch(id, may)
             \/ \E id \in Runners : RevokeRunner(id) \/ AllowReuse(id)
             \/ \E table \in RoutingTables : ChangeRouting(table)
             \/ \E y \in Syncs : SyncFetch(y) \/ SyncRouting(y)
             \/ \E r \in Runs : ChangeStatus(r)
             \/ UNCHANGED vars
      PROVE  Shrinks
  <2>1. UNCHANGED inflight
    BY <1>9 DEF SubmitCheck, PumpStart, PumpCheck, AddRunner, Deliver, LoseLink,
       Heartbeat, UpdateRunnerDispatch, RevokeRunner, AllowReuse, ChangeRouting,
       SyncFetch, SyncRouting, ChangeStatus, vars, server
  <2> QED BY <1>6, <2>1
<1> HIDE DEF Shrinks
<1>10. (\E r \in Runs : PlaceJob(r)) \/ Shrinks
  BY <1>1, <1>2, <1>4, <1>5, <1>7, <1>8, <1>9, JobsAssumption DEF Next
<1> QED BY <1>10 DEF Shrinks

\* findRunnerForJob: on every path of its search, preferred runner, affinity or
\* least loaded, a job goes only to a runner that is connected, not paused, not
\* ejected, serves its scope and has a free slot.
THEOREM WorkGivenByPolicy == Spec => AssignmentRespectsPolicy
<1> DEFINE Step == \A c \in Conns, r \in Runs : r \in inflight'[c] \ inflight[c] =>
                     /\ allow[c] /\ runners[c] \in Runners \ ejected
                     /\ HasScope(runners[c], JobScope[r])
                     /\ HasRoom(c)
<1>1. TypeOK /\ SafetyInv /\ [Next]_vars => [Step]_vars
  <2> SUFFICES ASSUME TypeOK, SafetyInv, [Next]_vars PROVE Step
    OBVIOUS
  <2>1. CASE \E r \in Runs : PlaceJob(r)
    BY <2>1, PlaceJobPolicy
  <2>2. CASE \A c \in Conns : inflight'[c] \subseteq inflight[c]
    BY <2>2
  <2> QED BY <2>1, <2>2, OnlyPlacingAssigns
<1> HIDE DEF Step
<1>2. Spec => [][Step]_vars
  BY <1>1, TypeCorrect, SafetyHolds, PTL DEF Spec
<1> QED BY <1>2 DEF AssignmentRespectsPolicy, Step

\* A job that was to be placed is tracked afterwards, and so is what was.
LEMMA PlaceJobTracks ==
  ASSUME TypeOK, NEW r \in Runs, PlaceJob(r), NEW q \in Runs, Tracked(q) \/ q = r
  PROVE  Tracked(q)'
<1>0. queue \in Seq(Runs) /\ inflight \in [Conns -> SUBSET Runs]
  BY DEF TypeOK, ServerType
<1>1. CASE Tracked(r) /\ UNCHANGED server
  BY <1>1 DEF Tracked, Queued, Assigned, Registered, server
<1>2. CASE ~Tracked(r) /\ DispatchOrQueue(r)
  <2>1. PICK p \in PickRunner(r) :
          IF p.conn # 0 /\ Len(sendCh[p.conn]) < SendBuf
          THEN Assign(r, p.conn, p.affinity) ELSE KeepQueued(r, p.affinity)
    BY <1>2 DEF DispatchOrQueue
  <2>2. CASE p.conn # 0 /\ Assign(r, p.conn, p.affinity)
    <3>1. p.conn \in Conns /\ Registered(p.conn)
      BY <2>2, PickRunnerFacts DEF TypeOK, Eligible
    <3>2. /\ inflight' = [inflight EXCEPT ![p.conn] = inflight[p.conn] \cup {r}]
          /\ UNCHANGED <<queue, runners>>
      BY <2>2 DEF Assign
    <3>3. \A c \in Conns : inflight[c] \subseteq inflight'[c]
      BY <1>0, <3>1, <3>2
    <3>4. r \in inflight'[p.conn]
      BY <1>0, <3>1, <3>2
    <3> QED BY <3>1, <3>2, <3>3, <3>4 DEF Tracked, Queued, Assigned, Registered
  <2>3. CASE KeepQueued(r, p.affinity)
    <3>1. queue' = Append(queue, r) /\ UNCHANGED <<runners, inflight>>
      BY <1>2, <2>3 DEF KeepQueued, Enqueue, Tracked, Queued
    <3>2. ToSet(queue') = ToSet(queue) \cup {r}
      BY <1>0, <3>1, AppendFacts
    <3> QED BY <3>1, <3>2 DEF Tracked, Queued, Assigned, Registered
  <2> QED BY <2>1, <2>2, <2>3
<1> QED BY <1>1, <1>2 DEF PlaceJob

\* What a connection had in flight when it goes is in the queue afterwards.
LEMMA DisconnectTracks ==
  ASSUME TypeOK, NEW gone \in SUBSET Conns, Disconnect(gone),
         NEW q \in Runs, Tracked(q)
  PROVE  Tracked(q)'
<1> DEFINE jobs == UNION {inflight[c] : c \in gone}
<1>1. jobs \in SUBSET Runs /\ queue \in Seq(Runs) /\ queue' \in EnqueueAll(queue, jobs)
  BY DEF Disconnect, TypeOK, ServerType
<1>2. ToSet(queue') = ToSet(queue) \cup jobs
  BY <1>1, EnqueueAllFacts
<1>3. \A c \in Conns \ gone : runners'[c] = runners[c] /\ inflight'[c] = inflight[c]
  BY DEF Disconnect
<1>4. CASE Queued(q)
  BY <1>2, <1>4 DEF Tracked, Queued
<1>5. ASSUME NEW c \in Conns, Registered(c), q \in inflight[c]
      PROVE  Tracked(q)'
  BY <1>2, <1>3, <1>5 DEF Tracked, Queued, Assigned, Registered
<1> QED BY <1>4, <1>5 DEF Tracked, Assigned

\* A step lets go of a run only if its status is closed or its runner has
\* reported its end.
LEMMA HeldStep ==
  ASSUME TypeOK, SafetyInv, [Next]_vars, NEW r \in Runs, Held(r)
  PROVE  \/ Held(r)' \/ r \notin open
         \/ \E c \in Conns : r \in delivered[c] \ delivered'[c]
<1> DEFINE Goal == \/ Held(r)' \/ r \notin open
                   \/ \E c \in Conns : r \in delivered[c] \ delivered'[c]
<1>0. /\ queue \in Seq(Runs) /\ inflight \in [Conns -> SUBSET Runs]
      /\ runners \in [Conns -> Runners \cup {NoRunner}]
      /\ pumpJobs \in [Pumps -> Seq(Runs)]
      /\ delivered \in [Conns -> SUBSET Runs]
  BY DEF TypeOK, ServerType, WorkerType, RemoteType
<1>1. ASSUME Tracked(r) => Tracked(r)', UNCHANGED pumpJobs PROVE Goal
  BY <1>1 DEF Held
<1>2. ASSUME NEW s \in Callers, SubmitJob(s) PROVE Goal
  <2>1. submit[s] \in Runs /\ PlaceJob(submit[s]) /\ UNCHANGED pumpJobs
    BY <1>2 DEF SubmitJob, workers, TypeOK, WorkerType
  <2>2. Tracked(r) => Tracked(r)'
    BY <2>1, PlaceJobTracks
  <2> QED BY <1>1, <2>1, <2>2
<1>3. ASSUME NEW w \in Pumps, PumpDispatch(w) PROVE Goal
  <2> DEFINE q == pumpJobs[w]
  <2>1. /\ q \in Seq(Runs) /\ q # <<>> /\ PlaceJob(Head(q))
        /\ pumpJobs' = [pumpJobs EXCEPT ![w] = Tail(q)]
    BY <1>0, <1>3 DEF PumpDispatch, TypeOK, WorkerType
  <2> HIDE DEF q
  <2>2. Head(q) \in Runs /\ ToSet(q) = {Head(q)} \cup ToSet(Tail(q))
    BY <2>1, HeadTailFacts, PopFacts
  <2>3. CASE Tracked(r) \/ r = Head(q)
    <3>1. Tracked(r)'
      BY <2>1, <2>2, <2>3, PlaceJobTracks
    <3> QED BY <3>1 DEF Held
  <2>4. CASE r # Head(q) /\ ~Tracked(r)
    <3>1. PICK v \in Pumps : r \in ToSet(pumpJobs[v])
      BY <2>4 DEF Held
    <3>2. r \in ToSet(pumpJobs'[v])
      BY <1>0, <2>1, <2>2, <2>4, <3>1 DEF q
    <3> QED BY <3>2 DEF Held
  <2> QED BY <2>3, <2>4
<1>4. ASSUME NEW w \in Pumps, PumpStart(w) PROVE Goal
  <2>1. /\ pumpJobs[w] = <<>> /\ pumpJobs' = [pumpJobs EXCEPT ![w] = queue]
        /\ UNCHANGED <<runners, inflight>>
    BY <1>4 DEF PumpStart
  <2>2. ToSet(pumpJobs[w]) = {}
    BY <2>1 DEF ToSet
  <2>3. pumpJobs'[w] = queue /\ \A v \in Pumps \ {w} : pumpJobs'[v] = pumpJobs[v]
    BY <1>0, <2>1
  <2>4. CASE Queued(r)
    BY <2>3, <2>4 DEF Held, Queued
  <2>5. CASE Assigned(r)
    BY <2>1, <2>5 DEF Held, Tracked, Assigned, Registered
  <2>6. ASSUME NEW v \in Pumps, r \in ToSet(pumpJobs[v]) PROVE Held(r)'
    BY <2>2, <2>3, <2>6 DEF Held
  <2> QED BY <2>4, <2>5, <2>6 DEF Held, Tracked
<1>5. ASSUME NEW w \in Pumps, PumpCheck(w) PROVE Goal
  <2>1. UNCHANGED <<queue, runners, inflight>>
    BY <1>5 DEF PumpCheck, server
  <2>2. CASE UNCHANGED pumpJobs
    BY <2>1, <2>2 DEF Held, Tracked, Queued, Assigned, Registered
  <2>3. CASE /\ pumpJobs[w] # <<>> /\ Head(pumpJobs[w]) \notin open
             /\ pumpJobs' = [pumpJobs EXCEPT ![w] = Tail(@)]
    <3> DEFINE q == pumpJobs[w]
    <3>1. ToSet(q) = {Head(q)} \cup ToSet(Tail(q))
      BY <1>0, <2>3, PopFacts
    <3>2. pumpJobs'[w] = Tail(q) /\ \A v \in Pumps \ {w} : pumpJobs'[v] = pumpJobs[v]
      BY <1>0, <2>3
    <3> HIDE DEF q
    <3>3. CASE Tracked(r)
      BY <2>1, <3>3 DEF Held, Tracked, Queued, Assigned, Registered
    <3>4. ASSUME NEW v \in Pumps, r \in ToSet(pumpJobs[v]) PROVE Goal
      <4>1. CASE v # w
        BY <3>2, <3>4, <4>1 DEF Held
      <4>2. CASE v = w /\ r = Head(q)
        BY <2>3, <4>2 DEF q
      <4>3. CASE v = w /\ r # Head(q)
        BY <3>1, <3>2, <3>4, <4>3 DEF Held, q
      <4> QED BY <4>1, <4>2, <4>3
    <3> QED BY <3>3, <3>4 DEF Held
  <2> QED BY <1>5, <2>2, <2>3 DEF PumpCheck
<1>6. ASSUME NEW id \in Runners, AddRunner(id) PROVE Goal
  <2> DEFINE c == connSeq + 1
  <2>1. c \in Conns /\ connSeq \in Nat
    BY <1>6, BoundsAssumption DEF AddRunner, TypeOK, WorkerType, Conns
  <2>2. ~Registered(c)
    BY <2>1 DEF SafetyInv, Vacant
  <2>3. /\ runners' = [runners EXCEPT ![c] = id]
        /\ UNCHANGED <<queue, inflight, pumpJobs>>
    BY <1>6 DEF AddRunner, workers
  <2> HIDE DEF c
  <2>4. \A d \in Conns \ {c} : runners'[d] = runners[d]
    BY <1>0, <2>1, <2>3
  <2>5. Tracked(r) => Tracked(r)'
    BY <2>2, <2>3, <2>4 DEF Tracked, Queued, Assigned, Registered
  <2> QED BY <1>1, <2>3, <2>5
<1>7. ASSUME NEW gone \in SUBSET Conns, Disconnect(gone), UNCHANGED pumpJobs PROVE Goal
  BY <1>1, <1>7, DisconnectTracks
<1>8. ASSUME NEW c \in Conns, RemoveRunner(c) PROVE Goal
  BY <1>7, <1>8 DEF RemoveRunner, workers
<1>9. ASSUME UNCHANGED <<queue, runners, inflight, pumpJobs>> PROVE Goal
  BY <1>1, <1>9 DEF Tracked, Queued, Assigned, Registered
<1>10. ASSUME NEW id \in Runners, EjectRunner(id) PROVE Goal
  <2>1. UNCHANGED pumpJobs
    BY <1>10 DEF EjectRunner, workers
  <2>2. CASE RemoveRegistrations({id})
    BY <1>7, <2>1, <2>2 DEF RemoveRegistrations
  <2>3. CASE UNCHANGED server
    BY <1>9, <2>1, <2>3 DEF server
  <2> QED BY <1>10, <2>2, <2>3 DEF EjectRunner
<1>11. ASSUME NEW y \in Syncs, SyncEjected(y) PROVE Goal
  BY <1>7, <1>11 DEF SyncEjected, RemoveRegistrations, workers
<1>12. ASSUME NEW c \in Conns, NEW q \in Runs, NEW status, JobResult(c, q, status)
       PROVE  Goal
  <2>1. /\ q \in delivered[c] /\ delivered' = [delivered EXCEPT ![c] = delivered[c] \ {q}]
        /\ inflight' = [inflight EXCEPT ![c] = inflight[c] \ {q}]
        /\ queue' \in {queue, Append(queue, q)}
        /\ UNCHANGED <<runners, pumpJobs>>
    BY <1>12 DEF JobResult, workers
  <2>2. CASE r = q
    <3>1. r \in delivered[c] \ delivered'[c]
      BY <1>0, <2>1, <2>2
    <3> QED BY <3>1
  <2>3. CASE r # q
    <3>1. ToSet(queue) \subseteq ToSet(queue')
      <4>1. ToSet(Append(queue, q)) = ToSet(queue) \cup {q}
        BY <1>0, AppendFacts
      <4> QED BY <2>1, <4>1
    <3>2. \A d \in Conns : inflight'[d] \in {inflight[d], inflight[d] \ {q}}
      BY <1>0, <2>1
    <3>3. Tracked(r) => Tracked(r)'
      BY <2>1, <2>3, <3>1, <3>2 DEF Tracked, Queued, Assigned, Registered
    <3> QED BY <1>1, <2>1, <3>3
  <2> QED BY <2>2, <2>3
<1>13. ASSUME \/ \E s \in Callers, q \in Runs : SubmitCheck(s, q)
              \/ \E c \in Conns : Deliver(c) \/ LoseLink(c)
              \/ \E c \in Conns, n \in 0..Cardinality(Runs) : Heartbeat(c, n)
              \/ \E id \in Runners, may \in BOOLEAN : UpdateRunnerDispatch(id, may)
              \/ \E id \in Runners : RevokeRunner(id) \/ AllowReuse(id)
              \/ \E table \in RoutingTables : ChangeRouting(table)
              \/ \E y \in Syncs : SyncFetch(y) \/ SyncRouting(y)
              \/ \E q \in Runs : ChangeStatus(q)
              \/ UNCHANGED vars
       PROVE  Goal
  <2>1. UNCHANGED <<queue, runners, inflight, pumpJobs>>
    BY <1>13 DEF SubmitCheck, Deliver, LoseLink, Heartbeat, UpdateRunnerDispatch,
       RevokeRunner, AllowReuse, ChangeRouting, SyncFetch, SyncRouting,
       ChangeStatus, vars, server, workers
  <2> QED BY <1>9, <2>1
<1> HIDE DEF Goal
<1>14. Goal
  BY <1>2, <1>3, <1>4, <1>5, <1>6, <1>8, <1>10, <1>11, <1>12, <1>13,
     JobsAssumption DEF Next
<1> QED BY <1>14 DEF Goal

\* pumpQueue, removeRunner, handleJobResult: no order of pumps that take the
\* queue away, connections that are lost and results that come late makes the
\* dispatcher forget a run whose status is open and whose runner has not
\* reported its end.
THEOREM NothingForgotten == Spec => NoSilentLoss
<1> DEFINE Step == \A r \in Runs : Held(r) /\ ~Held(r)' =>
                     \/ r \notin open
                     \/ \E c \in Conns : r \in delivered[c] \ delivered'[c]
<1>1. TypeOK /\ SafetyInv /\ [Next]_vars => [Step]_vars
  BY HeldStep
<1> HIDE DEF Step
<1>2. Spec => [][Step]_vars
  BY <1>1, TypeCorrect, SafetyHolds, PTL DEF Spec
<1> QED BY <1>2 DEF NoSilentLoss, Step
=============================================================================
