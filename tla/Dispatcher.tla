----------------------------- MODULE Dispatcher -----------------------------
(***************************************************************************)
(* The job scheduler of services/dispatcher: one server object guarded by  *)
(* one mutex, the runner streams connected to it, and the goroutines that  *)
(* work on its state.  A critical section of the code is one action here;  *)
(* everything the code does between an unlock and the next lock (asking    *)
(* the control plane for a run's status, above all) is a step of its own,  *)
(* so other goroutines run in between.                                     *)
(*                                                                         *)
(* Modelled as environment: the control plane (run status, the routing and *)
(* revocation settings) and the runner at the far end of each stream.      *)
(*                                                                         *)
(* Left out: wording of replies, logs, metadata and time stamps.  Times    *)
(* appear as nondeterminism (a stale runner may be removed at any moment). *)
(* The body of a job is left out; a job is its run id.                     *)
(***************************************************************************)
EXTENDS Integers, FiniteSets, SequencesExt

CONSTANTS
  Runs,             \* run ids
  Runners,          \* runner ids
  Keys,             \* affinity keys
  Scopes,           \* scope names
  Callers,          \* concurrent SubmitJob calls
  Pumps,            \* concurrently running pumpQueue goroutines
  Syncs,            \* concurrent syncRoutingFromNopsai calls
  MaxConns,         \* bound: connection ids handed out
  MaxPumpsDue,      \* bound: spawned pumpQueue goroutines that have not started
  SendBuf,          \* capacity of a connection's send channel (32 in the code)
  Capacity,         \* [Runners -> Int], the capacity a runner registers with
  RunnerScopes,     \* [Runners -> SUBSET Scopes], no scope meaning all
  JobScope,         \* [Runs -> Scopes \cup {AnyScope}]
  AffinityKey,      \* [Runs -> Keys]
  PreferredRunner,  \* [Runs -> Runners \cup {NoRunner}]
  RoutingTables,    \* the dispatcher_routing settings an operator may save
  Revocable,        \* the runners an operator may remove
  Pausable,         \* the runners an operator may pause
  Closable,         \* the runs that may close or be resumed
  HeartbeatSkew,    \* bound: jobs by which a heartbeat's count is off
  StatusFetchFails, \* whether the status request may fail
  NoRun, NoRunner, NoRecord, AnyScope, Note

Conns == 1..MaxConns
RouteKeys == Scopes \cup {AnyScope}

ASSUME BoundsAssumption ==
  /\ MaxConns \in Nat /\ MaxPumpsDue \in Nat /\ SendBuf \in Nat
  /\ HeartbeatSkew \in Nat
  /\ StatusFetchFails \in BOOLEAN
ASSUME SetsAssumption ==
  /\ IsFiniteSet(Runs) /\ IsFiniteSet(Runners)
  /\ NoRun \notin Runs /\ NoRunner \notin Runners /\ AnyScope \notin Scopes
  /\ Note \notin Runs
ASSUME JobsAssumption ==
  /\ Capacity \in [Runners -> Int]
  /\ RunnerScopes \in [Runners -> SUBSET Scopes]
  /\ JobScope \in [Runs -> RouteKeys]
  /\ AffinityKey \in [Runs -> Keys]
  /\ PreferredRunner \in [Runs -> Runners \cup {NoRunner}]
  /\ RoutingTables \subseteq [RouteKeys -> SUBSET Runners]
  /\ Revocable \subseteq Runners /\ Pausable \subseteq Runners
  /\ Closable \subseteq Runs

\* A runnerRecord: what GetStatus reports of a runner.
Records == [conn: Conns, active: Int, inflight: SUBSET Runs,
            allow: BOOLEAN, reachable: BOOLEAN]

ASSUME RecordAssumption == NoRecord \notin Records

VARIABLES
  \* dispatcherServer
  queue,       \* d.queue
  runners,     \* d.runners: the runner id behind a connection, or NoRunner
  inflight,    \* runnerConn.inflight
  active,      \* runnerConn.active
  allow,       \* runnerConn.allowDispatch
  sendCh,      \* runnerConn.sendCh
  record,      \* d.registeredRunners
  ejected,     \* d.ejectedRunners
  routing,     \* d.routing; a key with no runner is absent from the map
  affinity,    \* d.triggerAssignments
  connSeq,     \* d.connSeq
  \* goroutines
  submit,      \* a SubmitJob call between its status check and its lock
  pumpsDue,    \* pumpQueue goroutines spawned and not yet started
  pumpJobs,    \* queuedJobs a running pumpQueue still has to visit
  pumpChecked, \* pumpQueue has fetched the status of its first job
  sync,        \* what each syncRoutingFromNopsai call has yet to apply
  \* environment
  open,        \* runs whose status in nopsai allows dispatch
  settings,    \* dispatcher_routing and ejected_runner_ids in nopsai
  ejecting,    \* removals whose settings are saved and whose call is under way
  link,        \* the runner's end of the stream is alive
  delivered    \* jobs the runner is working on

server == <<queue, runners, inflight, active, allow, sendCh, record, affinity>>
control == <<ejected, routing, sync, settings, ejecting>>
remote == <<link, delivered>>
workers == <<pumpJobs, pumpChecked>>
vars == <<server, control, remote, workers, connSeq, submit, pumpsDue, open>>

-----------------------------------------------------------------------------
(* Connections, load and routing.                                          *)

Registered(c) == runners[c] # NoRunner
RunnerByID(id) == {c \in Conns : runners[c] = id /\ id # NoRunner}
\* Register: a capacity of zero or less counts as one.
CapacityOf(id) == IF Capacity[id] <= 0 THEN 1 ELSE Capacity[id]
\* Mutant: the count of the last heartbeat alone.
LoadByHeartbeat(c) == active[c]
Load(c) ==
  IF Cardinality(inflight[c]) > active[c]
  THEN Cardinality(inflight[c]) ELSE active[c]
\* Mutant: a runner whose slots are all taken still has room.
HasRoomWhenFull(c) == Load(c) <= CapacityOf(runners[c])
HasRoom(c) == Load(c) < CapacityOf(runners[c])

HasScope(id, scope) ==
  scope = AnyScope \/ RunnerScopes[id] = {} \/ scope \in RunnerScopes[id]
LiveRunnersFor(key) ==
  {runners[c] : c \in {d \in Conns : /\ Registered(d)
                                     /\ IF key = AnyScope
                                        THEN RunnerScopes[runners[d]] = {}
                                        ELSE key \in RunnerScopes[runners[d]]}}
AllowedRunnerIDs(scope) ==
  IF \A k \in RouteKeys : routing[k] = {}
  THEN {}
  ELSE UNION {routing[k] \cup LiveRunnersFor(k) : k \in {scope, AnyScope}}
\* Mutant: a paused runner still matches.
MatchesScopePaused(c, r) ==
  LET allowed == AllowedRunnerIDs(JobScope[r]) IN
  /\ allowed # {} => runners[c] \in allowed
  /\ HasScope(runners[c], JobScope[r])
MatchesScope(c, r) ==
  LET allowed == AllowedRunnerIDs(JobScope[r]) IN
  /\ allowed # {} => runners[c] \in allowed
  /\ HasScope(runners[c], JobScope[r])
  /\ allow[c]
Eligible(c, r) == Registered(c) /\ MatchesScope(c, r) /\ HasRoom(c)

Queued(r) == r \in ToSet(queue)
Assigned(r) == \E c \in Conns : Registered(c) /\ r \in inflight[c]
Tracked(r) == Queued(r) \/ Assigned(r)
-----------------------------------------------------------------------------
(* Picking a runner.  The result is a connection, or 0 for none, with the  *)
(* affinity table the search leaves behind.  Go iterates maps in an        *)
(* arbitrary order, so equally loaded runners are equally possible.        *)

LeastLoaded(S) == {c \in S : \A d \in S : Load(c) <= Load(d)}
Choice(c, table) == [conn |-> c, affinity |-> table]

PickRunner(r) ==
  LET key       == AffinityKey[r]
      preferred == {c \in RunnerByID(PreferredRunner[r]) : Eligible(c, r)}
      bound     == RunnerByID(affinity[key])
      near      == {c \in bound : Eligible(c, r)}
      full      == {c \in bound : MatchesScope(c, r) /\ ~HasRoom(c)}
      kept      == IF full # {} THEN affinity
                   ELSE [affinity EXCEPT ![key] = NoRunner]
      free      == {c \in Conns : Eligible(c, r)}
      busy      == {c \in Conns : Registered(c) /\ MatchesScope(c, r)}
      Bind(c)   == [kept EXCEPT ![key] = runners[c]]
  IN CASE preferred # {} -> {Choice(c, affinity) : c \in preferred}
       [] preferred = {} /\ near # {} -> {Choice(c, affinity) : c \in near}
       [] preferred = {} /\ near = {} /\ free # {} ->
            {Choice(c, Bind(c)) : c \in LeastLoaded(free)}
       [] preferred = {} /\ near = {} /\ free = {} /\ busy # {} ->
            {Choice(0, Bind(c)) : c \in LeastLoaded(busy)}
       [] OTHER -> {Choice(0, kept)}
-----------------------------------------------------------------------------
(* Pieces of the critical sections.                                        *)

Enqueue(q, r) == IF r \in ToSet(q) THEN q ELSE Append(q, r)
\* Mutant: the jobs of a lost connection are dropped.
EnqueueNone(q, S) == {q}
\* The jobs of a lost connection, in the arbitrary order of a Go map.
EnqueueAll(q, S) == {q \o s : s \in SetToSeqs(S \ ToSet(q))}
SpawnPump(n) == IF n < MaxPumpsDue THEN n + 1 ELSE n
\* Mutant: the assignments of a runner outlive it.
KeepAffinity(id) == affinity
DropAffinity(id) ==
  [k \in Keys |-> IF affinity[k] = id THEN NoRunner ELSE affinity[k]]
Snapshot(c, load, jobs, may, up) ==
  [conn |-> c, active |-> load, inflight |-> jobs, allow |-> may,
   reachable |-> up]

Assign(r, c, table) ==
  /\ sendCh' = [sendCh EXCEPT ![c] = Append(@, r)]
  /\ inflight' = [inflight EXCEPT ![c] = @ \cup {r}]
  /\ active' = [active EXCEPT ![c] = @ + 1]
  /\ record' = [record EXCEPT ![runners[c]] =
       Snapshot(c, active[c] + 1, inflight[c] \cup {r}, allow[c], TRUE)]
  /\ affinity' = [table EXCEPT ![AffinityKey[r]] = runners[c]]
  /\ UNCHANGED <<queue, runners, allow>>

KeepQueued(r, table) ==
  /\ queue' = Enqueue(queue, r)
  /\ affinity' = table
  /\ UNCHANGED <<runners, inflight, active, allow, sendCh, record>>

\* A runner is picked and its channel has room, or the job is queued.
DispatchOrQueue(r) ==
  \E p \in PickRunner(r) :
    IF p.conn # 0 /\ Len(sendCh[p.conn]) < SendBuf
    THEN Assign(r, p.conn, p.affinity)
    ELSE KeepQueued(r, p.affinity)

\* Mutant: the job is placed without looking whether it is tracked.
PlaceJobUntracked(r) == DispatchOrQueue(r)
PlaceJob(r) == IF Tracked(r) THEN UNCHANGED server ELSE DispatchOrQueue(r)
-----------------------------------------------------------------------------
(* SubmitJob: the status check, then the critical section.  A call whose   *)
(* check refuses the run changes nothing.                                  *)

StatusAllows(r) == r \in open \/ StatusFetchFails

SubmitCheck(s, r) ==
  /\ submit[s] = NoRun
  /\ StatusAllows(r)
  /\ submit' = [submit EXCEPT ![s] = r]
  /\ UNCHANGED <<server, control, remote, workers, connSeq, pumpsDue, open>>

SubmitJob(s) ==
  /\ submit[s] # NoRun
  /\ PlaceJob(submit[s])
  /\ submit' = [submit EXCEPT ![s] = NoRun]
  /\ UNCHANGED <<control, remote, workers, connSeq, pumpsDue, open>>
-----------------------------------------------------------------------------
(* pumpQueue: take the whole queue, then visit its jobs one at a time with *)
(* the lock released in between.  Most callers spawn it as a goroutine; a  *)
(* Register handler runs it before it reads its stream, which is treated   *)
(* alike here: that only adds interleavings with that stream's messages.   *)

PumpStart(w) ==
  /\ pumpJobs[w] = <<>> /\ pumpsDue > 0
  /\ pumpsDue' = pumpsDue - 1
  /\ pumpJobs' = [pumpJobs EXCEPT ![w] = queue]
  /\ queue' = <<>>
  /\ UNCHANGED <<runners, inflight, active, allow, sendCh, record, affinity,
                 control, remote, pumpChecked, connSeq, submit, open>>

PumpCheck(w) ==
  /\ pumpJobs[w] # <<>> /\ ~pumpChecked[w]
  /\ \/ /\ StatusAllows(Head(pumpJobs[w]))
        /\ pumpChecked' = [pumpChecked EXCEPT ![w] = TRUE]
        /\ UNCHANGED pumpJobs
     \/ /\ Head(pumpJobs[w]) \notin open
        /\ pumpJobs' = [pumpJobs EXCEPT ![w] = Tail(@)]
        /\ UNCHANGED pumpChecked
  /\ UNCHANGED <<server, control, remote, connSeq, submit, pumpsDue, open>>

\* Mutant: the outcome of a status check outlives its job.
PumpDispatchStale(w) ==
  /\ pumpChecked[w]
  /\ PlaceJob(Head(pumpJobs[w]))
  /\ pumpJobs' = [pumpJobs EXCEPT ![w] = Tail(@)]
  /\ UNCHANGED <<pumpChecked, control, remote, connSeq, submit, pumpsDue, open>>

PumpDispatch(w) ==
  /\ pumpChecked[w]
  /\ PlaceJob(Head(pumpJobs[w]))
  /\ pumpJobs' = [pumpJobs EXCEPT ![w] = Tail(@)]
  /\ pumpChecked' = [pumpChecked EXCEPT ![w] = FALSE]
  /\ UNCHANGED <<control, remote, connSeq, submit, pumpsDue, open>>
-----------------------------------------------------------------------------
(* A connection: registration, messages from the runner, removal.          *)

\* Mutant: a second connection of a runner is not refused.
AddRunnerTwice(id) ==
  LET c == connSeq + 1 IN
  /\ connSeq < MaxConns
  /\ id \notin ejected
  /\ connSeq' = c
  /\ runners' = [runners EXCEPT ![c] = id]
  /\ allow' = [allow EXCEPT ![c] = TRUE]
  /\ record' = [record EXCEPT ![id] = Snapshot(c, 0, {}, TRUE, TRUE)]
  /\ pumpsDue' = SpawnPump(pumpsDue)
  /\ link' = [link EXCEPT ![c] = TRUE]
  /\ UNCHANGED <<queue, inflight, active, sendCh, affinity, control, delivered,
                 workers, submit, open>>

\* addRunnerWithRejection: the runner is neither ejected nor connected.
Admits(id) == id \notin ejected /\ RunnerByID(id) = {}

\* Register.  A pause set while the runner was away holds.  The "registered"
\* note is put in the fresh channel right after the lock.
AddRunner(id) ==
  LET c    == connSeq + 1
      may  == IF record[id] = NoRecord THEN TRUE ELSE record[id].allow
  IN /\ connSeq < MaxConns
     /\ Admits(id)
     /\ connSeq' = c
     /\ runners' = [runners EXCEPT ![c] = id]
     /\ allow' = [allow EXCEPT ![c] = may]
     /\ sendCh' = [sendCh EXCEPT ![c] = IF SendBuf > 0 THEN <<Note>> ELSE <<>>]
     /\ record' = [record EXCEPT ![id] = Snapshot(c, 0, {}, may, TRUE)]
     /\ pumpsDue' = SpawnPump(pumpsDue)
     /\ link' = [link EXCEPT ![c] = TRUE]
     /\ UNCHANGED <<queue, inflight, active, affinity, control, delivered,
                    workers, submit, open>>

\* Mutant: a heartbeat starts no pump.
HeartbeatNoPump(c, n) ==
  /\ link[c] /\ Registered(c)
  /\ n - Cardinality(delivered[c]) \in -HeartbeatSkew..HeartbeatSkew
  /\ active' = [active EXCEPT ![c] = n]
  /\ record' = [record EXCEPT ![runners[c]] =
       Snapshot(c, n, inflight[c], allow[c], TRUE)]
  /\ UNCHANGED <<pumpsDue, queue, runners, inflight, allow, sendCh, affinity,
                 control, remote, workers, connSeq, submit, open>>

\* A heartbeat of a connection the server no longer has is ignored.  Its
\* count was taken when it was sent, so it may be off when it is handled.
Heartbeat(c, n) ==
  /\ link[c] /\ Registered(c)
  /\ n - Cardinality(delivered[c]) \in -HeartbeatSkew..HeartbeatSkew
  /\ active' = [active EXCEPT ![c] = n]
  /\ record' = [record EXCEPT ![runners[c]] =
       Snapshot(c, n, inflight[c], allow[c], TRUE)]
  /\ pumpsDue' = SpawnPump(pumpsDue)
  /\ UNCHANGED <<queue, runners, inflight, allow, sendCh, affinity, control,
                 remote, workers, connSeq, submit, open>>

\* Mutant: a job is cleared only while the active count says there is one.
JobResultByCount(c, r, status) ==
  LET known == r \in inflight[c] /\ active[c] > 0
      load  == IF known THEN active[c] - 1 ELSE active[c]
      jobs  == IF known THEN inflight[c] \ {r} ELSE inflight[c]
  IN /\ link[c] /\ Registered(c) /\ r \in delivered[c]
     /\ delivered' = [delivered EXCEPT ![c] = @ \ {r}]
     /\ inflight' = [inflight EXCEPT ![c] = jobs]
     /\ active' = [active EXCEPT ![c] = load]
     /\ record' = [record EXCEPT ![runners[c]] =
          Snapshot(c, load, jobs, allow[c], TRUE)]
     /\ UNCHANGED <<queue, pumpsDue, runners, allow, sendCh, affinity, control,
                    link, workers, connSeq, submit, open>>

\* handleJobResult for a final status; "accepted" leaves the job in place.
\* The runner reports once per job, and only on a live stream.
JobResult(c, r, status) ==
  LET known == r \in inflight[c]
      load  == IF known /\ active[c] > 0 THEN active[c] - 1 ELSE active[c]
      jobs  == inflight[c] \ {r}
  IN /\ link[c] /\ Registered(c) /\ r \in delivered[c]
     /\ delivered' = [delivered EXCEPT ![c] = @ \ {r}]
     /\ inflight' = [inflight EXCEPT ![c] = jobs]
     /\ active' = [active EXCEPT ![c] = load]
     /\ record' = [record EXCEPT ![runners[c]] =
          Snapshot(c, load, jobs, allow[c], TRUE)]
     /\ IF known /\ status = "requeued"
        THEN queue' = Append(queue, r) /\ pumpsDue' = SpawnPump(pumpsDue)
        ELSE UNCHANGED <<queue, pumpsDue>>
     /\ UNCHANGED <<runners, allow, sendCh, affinity, control, link,
                    workers, connSeq, submit, open>>

\* Connections leave the table and their jobs go back to the queue.  What is
\* left in their channels, and what their runners still say, has no effect.
Disconnect(gone) ==
  LET jobs == UNION {inflight[c] : c \in gone} IN
  /\ runners' = [c \in Conns |-> IF c \in gone THEN NoRunner ELSE runners[c]]
  /\ inflight' = [c \in Conns |-> IF c \in gone THEN {} ELSE inflight[c]]
  /\ active' = [c \in Conns |-> IF c \in gone THEN 0 ELSE active[c]]
  /\ queue' \in EnqueueAll(queue, jobs)
  /\ pumpsDue' = IF jobs # {} THEN SpawnPump(pumpsDue) ELSE pumpsDue
  /\ link' = [c \in Conns |-> IF c \in gone THEN FALSE ELSE link[c]]
  /\ delivered' = [c \in Conns |-> IF c \in gone THEN {} ELSE delivered[c]]
  /\ sendCh' = [c \in Conns |-> IF c \in gone THEN <<>> ELSE sendCh[c]]
  /\ allow' = [c \in Conns |-> IF c \in gone THEN TRUE ELSE allow[c]]

\* removeRunner: the stream ended or the reaper found the runner stale.
RemoveRunner(c) ==
  /\ Registered(c)
  /\ Disconnect({c})
  /\ affinity' = DropAffinity(runners[c])
  /\ record' = [record EXCEPT ![runners[c]] = Snapshot(c, 0, {}, allow[c], FALSE)]
  /\ UNCHANGED <<control, workers, connSeq, submit, open>>

\* Mutant: the record is not refreshed.
UpdateConnectedOnly(c, may) ==
  /\ allow' = [allow EXCEPT ![c] = may]
  /\ affinity' = IF may THEN affinity ELSE DropAffinity(runners[c])
  /\ pumpsDue' = SpawnPump(pumpsDue)
  /\ UNCHANGED <<active, record>>

\* UpdateRunnerDispatch: pause or resume a runner, connected or not.
UpdateConnected(c, may) ==
  LET load == IF may /\ Cardinality(inflight[c]) < active[c]
              THEN Cardinality(inflight[c]) ELSE active[c]
  IN /\ allow' = [allow EXCEPT ![c] = may]
     /\ active' = [active EXCEPT ![c] = load]
     /\ affinity' = IF may THEN affinity ELSE DropAffinity(runners[c])
     /\ record' = [record EXCEPT ![runners[c]] =
          Snapshot(c, load, inflight[c], may, TRUE)]
     /\ pumpsDue' = SpawnPump(pumpsDue)

UpdateRecord(id, may) ==
  /\ record[id] # NoRecord
  /\ record' = [record EXCEPT ![id].allow = may]
  /\ UNCHANGED <<allow, active, affinity, pumpsDue>>

UpdateRunnerDispatch(id, may) ==
  /\ \/ \E c \in RunnerByID(id) : UpdateConnected(c, may)
     \/ RunnerByID(id) = {} /\ UpdateRecord(id, may)
  /\ UNCHANGED <<queue, runners, inflight, sendCh, control, remote, workers,
                 connSeq, submit, open>>
-----------------------------------------------------------------------------
(* Removing runners for good, and the settings the dispatcher polls.       *)

\* removeRunnerRegistrationLocked for every runner of a set.
RemoveRegistrations(ids) ==
  /\ Disconnect({c \in Conns : runners[c] \in ids})
  /\ record' = [id \in Runners |-> IF id \in ids THEN NoRecord ELSE record[id]]
  /\ affinity' = [k \in Keys |-> IF affinity[k] \in ids THEN NoRunner
                                 ELSE affinity[k]]

\* nopsai saves the revocation first and then calls the dispatcher.
RevokeRunner(id) ==
  /\ settings' = [settings EXCEPT !.ejected = @ \cup {id}]
  /\ ejecting' = ejecting \cup {id}
  /\ UNCHANGED <<server, ejected, routing, sync, remote, workers,
                 connSeq, submit, pumpsDue, open>>

\* A runner the dispatcher does not know of is answered "not registered".
EjectRunner(id) ==
  /\ id \in ejecting
  /\ ejecting' = ejecting \ {id}
  /\ IF RunnerByID(id) # {} \/ record[id] # NoRecord
     THEN /\ RemoveRegistrations({id})
          /\ ejected' = ejected \cup {id}
     ELSE UNCHANGED <<server, remote, ejected, pumpsDue>>
  /\ UNCHANGED <<routing, sync, settings, workers, connSeq, submit, open>>

AllowReuse(id) ==
  /\ id \in settings.ejected
  /\ settings' = [settings EXCEPT !.ejected = @ \ {id}]
  /\ UNCHANGED <<server, ejected, routing, sync, ejecting, remote, workers,
                 connSeq, submit, pumpsDue, open>>

ChangeRouting(table) ==
  /\ settings' = [settings EXCEPT !.routing = table]
  /\ UNCHANGED <<server, ejected, routing, sync, ejecting, remote,
                 workers, connSeq, submit, pumpsDue, open>>

IdleSync == [pc |-> "idle", ejected |-> {}, routing |-> [k \in RouteKeys |-> {}]]

\* syncRoutingFromNopsai: fetch, then two critical sections.  The endpoint
\* leaves revoked runners out of the routing it serves.  The polling loop
\* calls it, and so does a registration the ejected list refused, so answers
\* may be applied in another order than they were given.
SyncFetch(y) ==
  /\ sync[y].pc = "idle"
  /\ sync' = [sync EXCEPT ![y] =
       [pc |-> "fetched", ejected |-> settings.ejected,
        routing |-> [k \in RouteKeys |-> settings.routing[k] \ settings.ejected]]]
  /\ UNCHANGED <<server, ejected, routing, settings, ejecting, remote,
                 workers, connSeq, submit, pumpsDue, open>>

SyncRouting(y) ==
  /\ sync[y].pc = "fetched"
  /\ sync' = [sync EXCEPT ![y].pc = "routed"]
  /\ routing' = sync[y].routing
  /\ IF sync[y].routing # routing
     THEN /\ affinity' = [k \in Keys |-> NoRunner]
          /\ pumpsDue' = SpawnPump(pumpsDue)
     ELSE UNCHANGED <<affinity, pumpsDue>>
  /\ UNCHANGED <<queue, runners, inflight, active, allow, sendCh, record,
                 ejected, settings, ejecting, remote, workers, connSeq,
                 submit, open>>

\* Mutant: the list is taken over and connected runners stay.
SyncEjectedListOnly(y) ==
  /\ sync[y].pc = "routed"
  /\ sync' = [sync EXCEPT ![y] = IdleSync]
  /\ ejected' = sync[y].ejected
  /\ UNCHANGED <<server, remote, pumpsDue, routing, settings, ejecting,
                 workers, connSeq, submit, open>>

SyncEjected(y) ==
  /\ sync[y].pc = "routed"
  /\ sync' = [sync EXCEPT ![y] = IdleSync]
  /\ ejected' = sync[y].ejected
  /\ RemoveRegistrations(sync[y].ejected)
  /\ UNCHANGED <<routing, settings, ejecting, workers, connSeq, submit,
                 open>>
-----------------------------------------------------------------------------
(* Environment: the runner's end of a stream, and the run's status.        *)

\* The send goroutine hands a message to the stream; the runner starts it.
Deliver(c) ==
  /\ link[c] /\ sendCh[c] # <<>>
  /\ sendCh' = [sendCh EXCEPT ![c] = Tail(@)]
  /\ delivered' = [delivered EXCEPT ![c] = @ \cup ({Head(sendCh[c])} \cap Runs)]
  /\ UNCHANGED <<queue, runners, inflight, active, allow, record, affinity,
                 control, link, workers, connSeq, submit, pumpsDue,
                 open>>

\* The runner loses the stream: it stops its containers and their results
\* have nowhere to go.
LoseLink(c) ==
  /\ link[c]
  /\ link' = [link EXCEPT ![c] = FALSE]
  /\ delivered' = [delivered EXCEPT ![c] = {}]
  /\ UNCHANGED <<server, control, workers, connSeq, submit, pumpsDue,
                 open>>

\* A run is finalized, cancelled or paused, or resumed after an approval.
ChangeStatus(r) ==
  /\ open' = IF r \in open THEN open \ {r} ELSE open \cup {r}
  /\ UNCHANGED <<server, control, remote, workers, connSeq, submit, pumpsDue>>
-----------------------------------------------------------------------------
Init ==
  /\ queue = <<>> /\ connSeq = 0
  /\ runners = [c \in Conns |-> NoRunner]
  /\ inflight = [c \in Conns |-> {}]
  /\ active = [c \in Conns |-> 0]
  /\ allow = [c \in Conns |-> TRUE]
  /\ sendCh = [c \in Conns |-> <<>>]
  /\ record = [id \in Runners |-> NoRecord]
  /\ ejected = {}
  /\ settings \in [routing: RoutingTables, ejected: SUBSET Revocable]
  /\ routing \in RoutingTables
  /\ affinity = [k \in Keys |-> NoRunner]
  /\ submit = [s \in Callers |-> NoRun]
  /\ pumpsDue = 0
  /\ pumpJobs = [w \in Pumps |-> <<>>]
  /\ pumpChecked = [w \in Pumps |-> FALSE]
  /\ sync = [y \in Syncs |-> IdleSync]
  /\ ejecting = {}
  /\ open = Runs
  /\ link = [c \in Conns |-> FALSE]
  /\ delivered = [c \in Conns |-> {}]

Next ==
  \/ \E s \in Callers, r \in Runs : SubmitCheck(s, r)
  \/ \E s \in Callers : SubmitJob(s)
  \/ \E w \in Pumps : PumpStart(w) \/ PumpCheck(w) \/ PumpDispatch(w)
  \/ \E id \in Runners : AddRunner(id)
  \/ \E c \in Conns : RemoveRunner(c) \/ Deliver(c) \/ LoseLink(c)
  \/ \E c \in Conns, n \in 0..Cardinality(Runs) : Heartbeat(c, n)
  \/ \E c \in Conns, r \in Runs, status \in {"completed", "failed", "requeued"} :
       JobResult(c, r, status)
  \/ \E id \in Pausable, may \in BOOLEAN : UpdateRunnerDispatch(id, may)
  \/ \E id \in Revocable : RevokeRunner(id) \/ EjectRunner(id) \/ AllowReuse(id)
  \/ \E table \in RoutingTables : ChangeRouting(table)
  \/ \E y \in Syncs : SyncFetch(y) \/ SyncRouting(y) \/ SyncEjected(y)
  \/ \E r \in Closable : ChangeStatus(r)

Spec == Init /\ [][Next]_vars

\* Goroutines run, a live runner keeps sending heartbeats and its stream
\* carries what is sent, a lost stream ends its handler, and the settings are
\* polled for ever.  Nothing is assumed of runs, operators or job results.
Fairness ==
  /\ \A w \in Pumps : /\ WF_vars(PumpStart(w)) /\ WF_vars(PumpCheck(w))
                      /\ WF_vars(PumpDispatch(w))
  /\ \A c \in Conns : /\ WF_vars(Deliver(c))
                      /\ WF_vars(\E n \in 0..Cardinality(Runs) : Heartbeat(c, n))
                      /\ WF_vars(~link[c] /\ RemoveRunner(c))
  /\ \A y \in Syncs : /\ WF_vars(SyncFetch(y)) /\ WF_vars(SyncRouting(y))
                      /\ WF_vars(SyncEjected(y))

FairSpec == Spec /\ Fairness
-----------------------------------------------------------------------------
(* Properties.                                                             *)

ServerType ==
  /\ queue \in Seq(Runs)
  /\ runners \in [Conns -> Runners \cup {NoRunner}]
  /\ inflight \in [Conns -> SUBSET Runs]
  /\ active \in [Conns -> Int]
  /\ allow \in [Conns -> BOOLEAN]
  /\ sendCh \in [Conns -> Seq(Runs \cup {Note})]
  /\ record \in [Runners -> Records \cup {NoRecord}]
  /\ affinity \in [Keys -> Runners \cup {NoRunner}]
ControlType ==
  /\ ejected \in SUBSET Runners
  /\ routing \in [RouteKeys -> SUBSET Runners]
  /\ sync \in [Syncs -> [pc: {"idle", "fetched", "routed"},
                         ejected: SUBSET Runners,
                         routing: [RouteKeys -> SUBSET Runners]]]
  /\ settings \in [routing: [RouteKeys -> SUBSET Runners],
                   ejected: SUBSET Runners]
  /\ ejecting \in SUBSET Runners
RemoteType ==
  /\ link \in [Conns -> BOOLEAN]
  /\ delivered \in [Conns -> SUBSET Runs]
WorkerType ==
  /\ connSeq \in 0..MaxConns
  /\ submit \in [Callers -> Runs \cup {NoRun}]
  /\ pumpsDue \in 0..MaxPumpsDue
  /\ pumpJobs \in [Pumps -> Seq(Runs)]
  /\ pumpChecked \in [Pumps -> BOOLEAN]
  /\ \A w \in Pumps : pumpChecked[w] => pumpJobs[w] # <<>>
  /\ open \in SUBSET Runs

\* Types of the dispatcher's state and of the goroutines around it; a pump
\* that has checked a job still has that job to place.
TypeOK == ServerType /\ ControlType /\ RemoteType /\ WorkerType

\* No run is tracked twice: it stands at most once in the queue, is in flight
\* on at most one connection, and never both.  handleJobResult appends a
\* requeued job without looking for a duplicate, and relies on this.
TrackedOnce ==
  /\ IsInjective(queue)
  /\ \A c \in Conns : inflight[c] \cap ToSet(queue) = {}
  /\ \A c, d \in Conns : c # d => inflight[c] \cap inflight[d] = {}

\* A connection never holds more jobs than the capacity its runner registered
\* with, however stale the active count of its last heartbeat is.
WithinCapacity ==
  \A c \in Conns :
    Registered(c) => Cardinality(inflight[c]) <= CapacityOf(runners[c])

\* A runner id has one live connection at most, and none once the dispatcher
\* has it on its ejected list, whatever order removals, reconnections and
\* settings updates come in.
OneConnection ==
  /\ \A c, d \in Conns :
       Registered(c) /\ Registered(d) /\ runners[c] = runners[d] => c = d
  /\ \A c \in Conns : runners[c] \notin ejected

\* A connection id not handed out yet is not in the table, and a connection
\* outside the table holds no job: what makes the properties above inductive.
Vacant ==
  \A c \in Conns : /\ c > connSeq => ~Registered(c)
                   /\ ~Registered(c) => inflight[c] = {} /\ active[c] = 0
SafetyInv == Vacant /\ TrackedOnce /\ WithinCapacity /\ OneConnection

\* What the dispatcher keeps beside its connections agrees with them.
\* GetStatus tells the truth: the record of a connected runner equals its
\* connection in every field, and a runner is reported reachable only while
\* connected.  An affinity entry names a connected runner that may be given
\* work: pausing, losing or ejecting a runner leaves none pointing at it.
RegistryMirrors ==
  /\ \A c \in Conns : Registered(c) =>
       record[runners[c]] = Snapshot(c, active[c], inflight[c], allow[c], TRUE)
  /\ \A id \in Runners : record[id] # NoRecord =>
       /\ record[id].reachable => runners[record[id].conn] = id
       /\ ~record[id].reachable =>
            record[id].active = 0 /\ record[id].inflight = {}
  /\ \A k \in Keys : affinity[k] # NoRunner =>
       \E c \in RunnerByID(affinity[k]) : allow[c]

\* The jobs of a live connection are exactly those in its channel and those
\* its runner works on, so no slot of a runner is held by a job it never had.
InflightAccounted ==
  \A c \in Conns : Registered(c) /\ link[c] =>
    /\ inflight[c] = (ToSet(sendCh[c]) \ {Note}) \cup delivered[c]
    /\ ToSet(sendCh[c]) \cap delivered[c] = {}

\* A run the dispatcher knows of, a pumpQueue's private list included.
Held(r) == Tracked(r) \/ \E w \in Pumps : r \in ToSet(pumpJobs[w])

\* The dispatcher forgets a run only when a pump found its status closed or
\* when the runner that has it reports its end.
NoSilentLoss ==
  [][\A r \in Runs : Held(r) /\ ~Held(r)' =>
       \/ r \notin open
       \/ \E c \in Conns : r \in delivered[c] \ delivered'[c]]_vars

\* A run the dispatcher holds is given to a runner once some connected runner
\* has room for it and keeps it: no order of submissions, pumps taking the
\* queue away and results that start no pump leaves it behind for ever.
HeldRunAssigned ==
  \A r \in Runs :
    <>[](r \in open /\ \E c \in Conns : link[c] /\ Eligible(c, r))
      => [](Held(r) => <>(Assigned(r) \/ ~Held(r)))

\* A runner whose revocation stays in the settings ends up disconnected for
\* good, though answers of older polls may still let it in for a while.
RevocationPrevails ==
  \A id \in Revocable :
    <>[](id \in settings.ejected) => <>[](RunnerByID(id) = {})

\* A job is given only to a runner that is connected, not paused, not ejected,
\* serves the job's scope and has a free slot, on every path of the search.
AssignmentRespectsPolicy ==
  [][\A c \in Conns, r \in Runs : r \in inflight'[c] \ inflight[c] =>
       /\ allow[c] /\ runners[c] \in Runners \ ejected
       /\ HasScope(runners[c], JobScope[r])
       /\ HasRoom(c)]_vars
=============================================================================
