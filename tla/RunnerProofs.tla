---------------------------- MODULE RunnerProofs ----------------------------
(***************************************************************************)
(* What holds of a runner for any number of runs, jobs, streams and        *)
(* faults, with any room in its channel: it gives back every slot the      *)
(* dispatcher counts as taken, and waits for every agent at work.          *)
(*                                                                         *)
(* The first rests on what a new stream finds: no job is in flight at the  *)
(* dispatcher before it is served.  The second rests on goroutines that    *)
(* come to life with a job and not before: none has a container yet, and   *)
(* none works for a stream to come.                                        *)
(***************************************************************************)
EXTENDS Runner, TLAPS

\* A dispatcher without the connection has no job in flight on it.
Owned == ~served => \A r \in Runs : place[r] # "runner"

\* Goroutines have a run and work for a stream that was opened, and have no
\* container before they create one.
Fresh ==
    \A j \in Jobs :
        /\ on[j] <= stream
        /\ at[j] \in {"none", "accept", "prepare"} => container[j] = "none"
        /\ at[j] # "none" => run[j] \in Runs

IInv == TypeOK /\ Owned /\ Fresh /\ SlotBacked /\ NobodyUnwatched

-----------------------------------------------------------------------------
(* The channel and the goroutines that will report.                        *)

Silent == {"none", "cleanup", "over"}

LEMMA NoMessage == <<>> \in Seq(Message) /\ Len(<<>>) = 0 /\ 0 <= SendBuf
BY RunnerAssumption DEF RunnerAssumption

LEMMA Appended ==
  ASSUME TypeOK, NEW m, sendCh' = Append(sendCh, m), NEW r
  PROVE  /\ Announced(r) => Announced(r)'
         /\ m \in {r} \X Outcome => Announced(r)'
<1>1. sendCh \in Seq(Message)
  BY DEF TypeOK
<1>2. /\ DOMAIN sendCh' = 1..(Len(sendCh) + 1) /\ DOMAIN sendCh = 1..Len(sendCh)
      /\ \A i \in DOMAIN sendCh : sendCh'[i] = sendCh[i]
      /\ sendCh'[Len(sendCh) + 1] = m /\ Len(sendCh) \in Nat
  BY <1>1
<1> QED
  BY <1>2 DEF Announced

LEMMA Sent ==
  ASSUME TypeOK, sendCh # <<>>, sendCh' = Tail(sendCh), NEW r, Announced(r)
  PROVE  Announced(r)' \/ Head(sendCh) \in {r} \X Outcome
<1>1. sendCh \in Seq(Message)
  BY DEF TypeOK
<1>2. /\ DOMAIN sendCh = 1..Len(sendCh) /\ DOMAIN sendCh' = 1..(Len(sendCh) - 1)
      /\ \A i \in DOMAIN sendCh' : sendCh'[i] = sendCh[i + 1]
      /\ Head(sendCh) = sendCh[1] /\ Len(sendCh) \in Nat
  BY <1>1
<1>3. PICK i \in DOMAIN sendCh : sendCh[i] \in {r} \X Outcome
  BY DEF Announced
<1>4. CASE i = 1
  BY <1>2, <1>3, <1>4
<1>5. CASE i # 1
  <2>1. i - 1 \in DOMAIN sendCh' /\ sendCh'[i - 1] = sendCh[i]
    BY <1>2, <1>3, <1>5
  <2> QED BY <1>3, <2>1 DEF Announced
<1> QED
  BY <1>4, <1>5

\* A message of a job is one the channel may hold.
LEMMA ChannelType ==
  ASSUME TypeOK, HasRoom, NEW m \in Message, sendCh' = Append(sendCh, m)
  PROVE  sendCh' \in Seq(Message) /\ Len(sendCh') <= SendBuf
BY RunnerAssumption DEF TypeOK, HasRoom, RunnerAssumption

-----------------------------------------------------------------------------
(* What a step that does not touch a part leaves true of it.               *)

\* A goroutine that has not reported goes from one stage to another.
LEMMA Onward ==
  ASSUME TypeOK, SlotBacked, TypeOK', NEW j \in Jobs, NEW stage \in Stage \ Silent,
         at[j] \notin Silent, at' = [at EXCEPT ![j] = stage],
         UNCHANGED <<runtime, link, run, on, sendCh, dropped>>
  PROVE  SlotBacked'
<1>1. \A i \in Jobs : at[i] \notin Silent => at'[i] \notin Silent
  BY DEF TypeOK
<1>2. \A r : WorkedOn(r) => WorkedOn(r)'
  BY <1>1 DEF WorkedOn, Live, link, Silent
<1>3. \A r : WillReport(r) => WillReport(r)'
  BY <1>2 DEF WillReport, Announced, link
<1> QED
  BY <1>3 DEF SlotBacked, link

\* Nothing of the stream or of what goroutines will report changes.
LEMMA SlotsKept ==
  ASSUME SlotBacked, UNCHANGED <<runtime, link, run, on, at, sendCh, dropped>>
  PROVE  SlotBacked'
BY DEF SlotBacked, WillReport, WorkedOn, Announced, Live, link

\* Stages and containers are left alone, streams do not come back and faults
\* are not taken back.
LEMMA WatchKept ==
  ASSUME TypeOK, NobodyUnwatched, UNCHANGED <<runtime, stream, on, at, container, faults>>,
         open' => open
  PROVE  NobodyUnwatched'
BY DEF NobodyUnwatched, Live

\* What a stopping call does: the container ends, or the call fails.
LEMMA Stopping ==
  ASSUME TypeOK, NEW j \in Jobs, TryToStop(j)
  PROVE  /\ container' \in [Jobs -> {"none", "created", "running", "stopped", "gone"}]
         /\ \A i \in Jobs \ {j} : container'[i] = container[i]
         /\ faults' \in 0..MaxFaults /\ faults' >= faults
         /\ faults' > 0 \/ container'[j] # "running"
<1>1. /\ container \in [Jobs -> {"none", "created", "running", "stopped", "gone"}]
      /\ faults \in 0..MaxFaults /\ MaxFaults \in Nat
  BY RunnerAssumption DEF TypeOK, RunnerAssumption
<1>2. CASE Fault /\ UNCHANGED container
  BY <1>1, <1>2 DEF Fault
<1>3. CASE /\ container' = [container EXCEPT ![j] =
                              IF @ = "gone" THEN @
                              ELSE IF runtime = "docker" THEN "stopped" ELSE "gone"]
           /\ UNCHANGED faults
  BY <1>1, <1>3
<1> QED
  BY <1>2, <1>3 DEF TryToStop

-----------------------------------------------------------------------------
(* The stream.                                                             *)

LEMMA InitIInv == Init => IInv
<1> SUFFICES ASSUME Init PROVE IInv
  OBVIOUS
<1>1. TypeOK
  <2>1. stream \in 0..MaxStreams /\ faults \in 0..MaxFaults
    BY RunnerAssumption DEF Init, RunnerAssumption
  <2>2. /\ place \in [Runs -> Place] /\ wire \subseteq Runs
        /\ status \in [Runs -> {"open", "cancelled", "ended"}]
        /\ stoppedRuns \subseteq Runs /\ dropped \subseteq Runs
    BY DEF Init, Place
  <2>3. sendCh \in Seq(Message) /\ Len(sendCh) <= SendBuf
    BY NoMessage DEF Init
  <2>4. runtime \in Runtimes /\ open \in BOOLEAN /\ served \in BOOLEAN
    BY DEF Init
  <2>5. /\ run \in [Jobs -> Runs \cup {NoRun}] /\ on \in [Jobs -> 0..MaxStreams]
        /\ at \in [Jobs -> Stage] /\ result \in [Jobs -> Outcome]
        /\ monitor \in [Jobs -> {"off", "polling", "stopping", "over"}]
        /\ container \in [Jobs -> {"none", "created", "running", "stopped", "gone"}]
    BY RunnerAssumption DEF Init, RunnerAssumption, Stage, Outcome
  <2> QED BY <2>1, <2>2, <2>3, <2>4, <2>5 DEF TypeOK
<1> QED
  BY <1>1 DEF Init, IInv, Owned, Fresh, SlotBacked, NobodyUnwatched

LEMMA ConnectIInv ==
  ASSUME IInv, Connect
  PROVE  IInv'
<1>1. TypeOK /\ Owned /\ Fresh /\ NobodyUnwatched /\ ~served /\ ~open
      /\ stream' = stream + 1
  BY DEF IInv, Connect
<1>2. TypeOK'
  BY <1>1, RunnerAssumption DEF Connect, TypeOK, RunnerAssumption, jobVars
<1>3. Fresh'
  BY <1>1 DEF Connect, Fresh, TypeOK, jobVars
<1>4. Owned' /\ SlotBacked'
  BY <1>1 DEF Connect, Owned, SlotBacked
<1>5. \A j \in Jobs : ~Live(j) /\ ~Live(j)'
  BY <1>1 DEF Connect, Fresh, Live, TypeOK, jobVars
<1>6. NobodyUnwatched'
  BY <1>1, <1>5 DEF Connect, NobodyUnwatched, jobVars
<1> QED
  BY <1>2, <1>3, <1>4, <1>6 DEF IInv

LEMMA DropConnectionIInv ==
  ASSUME IInv, DropConnection
  PROVE  IInv'
<1>1. TypeOK /\ Fresh /\ NobodyUnwatched
  BY DEF IInv
<1>2. TypeOK'
  BY <1>1 DEF DropConnection, TypeOK, Place, jobVars
<1>3. Fresh' /\ NobodyUnwatched'
  BY <1>1 DEF DropConnection, Fresh, NobodyUnwatched, Live, jobVars
<1>4. Owned' /\ SlotBacked'
  BY <1>1 DEF DropConnection, Owned, SlotBacked, TypeOK
<1> QED
  BY <1>2, <1>3, <1>4 DEF IInv

LEMMA EndStreamIInv ==
  ASSUME IInv, EndStream
  PROVE  IInv'
<1>1. TypeOK /\ Owned /\ Fresh /\ NobodyUnwatched
  BY DEF IInv
<1>2. TypeOK'
  BY <1>1, NoMessage DEF EndStream, TypeOK, jobVars
<1>3. Owned' /\ Fresh' /\ SlotBacked'
  BY <1>1 DEF EndStream, Owned, Fresh, SlotBacked, jobVars
<1>4. NobodyUnwatched'
  BY <1>1, WatchKept DEF EndStream, jobVars
<1> QED
  BY <1>2, <1>3, <1>4 DEF IInv

LEMMA CrashIInv ==
  ASSUME IInv, Crash
  PROVE  IInv'
<1>1. TypeOK /\ Owned /\ Fresh /\ faults' = faults + 1 /\ faults < MaxFaults
  BY DEF IInv, Crash, Fault
<1>2. TypeOK'
  <2>1. open' \in BOOLEAN /\ sendCh' \in Seq(Message) /\ Len(sendCh') <= SendBuf
    BY NoMessage DEF Crash
  <2>2. faults' \in 0..MaxFaults
    BY <1>1, RunnerAssumption DEF TypeOK, RunnerAssumption
  <2>3. /\ at' \in [Jobs -> Stage]
        /\ monitor' \in [Jobs -> {"off", "polling", "stopping", "over"}]
    BY DEF Crash, Stage
  <2> QED BY <1>1, <2>1, <2>2, <2>3 DEF Crash, TypeOK
<1>3. Owned' /\ Fresh' /\ SlotBacked'
  BY <1>1 DEF Crash, Owned, Fresh, SlotBacked, TypeOK
<1>4. NobodyUnwatched'
  BY <1>1 DEF NobodyUnwatched, TypeOK
<1> QED
  BY <1>2, <1>3, <1>4 DEF IInv

LEMMA DispatchIInv ==
  ASSUME IInv, NEW r \in Runs, Dispatch(r)
  PROVE  IInv'
<1>1. TypeOK /\ Fresh /\ SlotBacked /\ NobodyUnwatched
  BY DEF IInv
<1>2. TypeOK'
  BY <1>1 DEF Dispatch, TypeOK, Place, jobVars
<1>3. Owned' /\ Fresh' /\ NobodyUnwatched'
  BY <1>1 DEF Dispatch, Owned, Fresh, NobodyUnwatched, Live, jobVars
<1>4. SlotBacked'
  <2>1. \A q : WillReport(q) => WillReport(q)'
    BY DEF Dispatch, WillReport, WorkedOn, Announced, Live, jobVars
  <2>2. r \in wire'
    BY DEF Dispatch
  <2>3. \A q \in Runs : q # r => place'[q] = place[q]
    BY <1>1 DEF Dispatch, TypeOK
  <2> QED BY <1>1, <2>1, <2>2, <2>3 DEF Dispatch, SlotBacked, WillReport
<1> QED
  BY <1>2, <1>3, <1>4 DEF IInv

LEMMA ReceiveJobIInv ==
  ASSUME IInv, NEW r \in Runs, NEW j \in Jobs, ReceiveJob(r, j)
  PROVE  IInv'
<1>1. TypeOK /\ Owned /\ Fresh /\ SlotBacked /\ NobodyUnwatched
  BY DEF IInv
<1>2. /\ open /\ at[j] = "none" /\ container[j] = "none"
      /\ run' = [run EXCEPT ![j] = r] /\ on' = [on EXCEPT ![j] = stream]
      /\ at' = [at EXCEPT ![j] = "accept"] /\ wire' = wire \ {r}
      /\ UNCHANGED <<runtime, stream, open, served, place, sendCh, status, result,
                     monitor, container, stoppedRuns, dropped, faults>>
  BY <1>1 DEF ReceiveJob, Goto, Fresh
<1>3. TypeOK'
  BY <1>1, <1>2 DEF TypeOK, Stage
<1>4. Owned' /\ Fresh'
  BY <1>1, <1>2 DEF Owned, Fresh, TypeOK
<1>5. NobodyUnwatched'
  BY <1>1, <1>2 DEF NobodyUnwatched, Live, TypeOK
<1>6. SlotBacked'
  <2>1. \A q : WorkedOn(q) => WorkedOn(q)'
    BY <1>1, <1>2 DEF WorkedOn, Live, TypeOK
  <2>2. WorkedOn(r)'
    BY <1>1, <1>2 DEF WorkedOn, Live, TypeOK
  <2>3. \A q : Announced(q) => Announced(q)'
    BY <1>2 DEF Announced
  <2>4. \A q : WillReport(q) => WillReport(q)'
    BY <1>2, <2>1, <2>2, <2>3 DEF WillReport
  <2> QED BY <1>1, <1>2, <2>4 DEF SlotBacked
<1> QED
  BY <1>3, <1>4, <1>5, <1>6 DEF IInv

LEMMA SendNextIInv ==
  ASSUME IInv, SendNext
  PROVE  IInv'
<1>1. TypeOK /\ Owned /\ Fresh /\ SlotBacked /\ NobodyUnwatched
  BY DEF IInv
<1>2. /\ open /\ sendCh # <<>> /\ sendCh' = Tail(sendCh) /\ HandleMessage(Head(sendCh))
      /\ UNCHANGED <<runtime, stream, open, served, wire, run, on, at, result, monitor,
                     container, stoppedRuns, dropped, faults>>
  BY DEF SendNext, jobVars
<1> DEFINE m == Head(sendCh)
<1>3. /\ m \in Message /\ sendCh' \in Seq(Message) /\ Len(sendCh') <= SendBuf
  BY <1>1, <1>2, RunnerAssumption DEF TypeOK, RunnerAssumption
<1>4. \/ /\ served /\ m[2] \in Outcome /\ m[1] \in Runs
         /\ place' = [place EXCEPT ![m[1]] = IF @ = "runner" THEN "over" ELSE @]
         /\ status' = [status EXCEPT ![m[1]] =
                         IF m[2] = "failed" /\ @ = "open" THEN "ended" ELSE @]
      \/ ~(served /\ m[2] \in Outcome) /\ UNCHANGED <<place, status>>
  BY <1>2, <1>3 DEF HandleMessage, Message, Outcome
<1>5. TypeOK' /\ Owned' /\ \A q \in Runs : place'[q] = "runner" => place[q] = "runner"
  <2>1. /\ place' \in [Runs -> Place]
        /\ \A q \in Runs : place'[q] = "runner" => place[q] = "runner"
    <3>1. CASE place' = [place EXCEPT ![m[1]] = IF @ = "runner" THEN "over" ELSE @]
      BY <1>1, <3>1 DEF TypeOK, Place
    <3>2. CASE UNCHANGED place
      BY <1>1, <3>2 DEF TypeOK
    <3> QED BY <1>4, <3>1, <3>2
  <2>2. status' \in [Runs -> {"open", "cancelled", "ended"}]
    BY <1>1, <1>4 DEF TypeOK
  <2>3. TypeOK'
    BY <1>1, <1>2, <1>3, <2>1, <2>2 DEF TypeOK
  <2> QED BY <1>1, <1>2, <2>1, <2>3 DEF Owned
<1>6. Fresh' /\ NobodyUnwatched'
  BY <1>1, <1>2 DEF Fresh, NobodyUnwatched, Live
<1>7. SlotBacked'
  <2>1. \A q \in Runs : m \in {q} \X Outcome /\ served => place'[q] # "runner"
    BY <1>1, <1>4 DEF TypeOK
  <2>2. \A q : Announced(q) => Announced(q)' \/ m \in {q} \X Outcome
    BY <1>1, <1>2, Sent
  <2>3. \A q : WorkedOn(q) => WorkedOn(q)'
    BY <1>2 DEF WorkedOn, Live
  <2>4. \A q : WillReport(q) => WillReport(q)' \/ m \in {q} \X Outcome
    BY <1>2, <2>2, <2>3 DEF WillReport
  <2> QED BY <1>1, <1>2, <1>5, <2>1, <2>4 DEF SlotBacked
<1> QED
  BY <1>5, <1>6, <1>7 DEF IInv

LEMMA HeartbeatIInv ==
  ASSUME IInv, Heartbeat
  PROVE  IInv'
<1>1. TypeOK /\ Owned /\ Fresh /\ SlotBacked /\ NobodyUnwatched
  BY DEF IInv
<1>2. /\ HasRoom /\ sendCh' = Append(sendCh, <<NoRun, "heartbeat">>)
      /\ UNCHANGED <<runtime, stream, open, served, place, wire, status, run, on, at,
                     result, monitor, container, stoppedRuns, dropped, faults>>
  BY DEF Heartbeat, link, jobVars
<1>3. <<NoRun, "heartbeat">> \in Message
  BY DEF Message
<1>4. TypeOK'
  BY <1>1, <1>2, <1>3, ChannelType DEF TypeOK
<1>5. Owned' /\ Fresh' /\ NobodyUnwatched'
  BY <1>1, <1>2 DEF Owned, Fresh, NobodyUnwatched, Live
<1>6. \A q : WillReport(q) => WillReport(q)'
  <2>1. \A q : Announced(q) => Announced(q)'
    BY <1>1, <1>2, Appended
  <2>2. \A q : WorkedOn(q) => WorkedOn(q)'
    BY <1>2 DEF WorkedOn, Live
  <2> QED BY <1>2, <2>1, <2>2 DEF WillReport
<1>7. SlotBacked'
  BY <1>1, <1>2, <1>6 DEF SlotBacked
<1> QED
  BY <1>4, <1>5, <1>7 DEF IInv

-----------------------------------------------------------------------------
(* handleJob.                                                              *)

\* What a message leaves true of the channel and of what was announced in it.
LEMMA Sending ==
  ASSUME TypeOK, NEW j \in Jobs, run[j] \in Runs, UNCHANGED run,
         NEW message \in Outcome \cup {"accepted"}, SendJobResult(j, message)
  PROVE  /\ sendCh' \in Seq(Message) /\ Len(sendCh') <= SendBuf
         /\ dropped \subseteq dropped' /\ dropped' \subseteq Runs
         /\ \A r : Announced(r) => Announced(r)'
         /\ message \in Outcome =>
              \/ ~Live(j) \/ Announced(run[j])'
              \/ runtime = "kubernetes" /\ run[j] \in dropped'
<1> DEFINE m == <<run[j], message>>
<1>1. CASE Live(j) /\ HasRoom /\ sendCh' = Append(sendCh, m) /\ UNCHANGED dropped
  <2>1. m \in Message
    BY DEF Message
  <2>2. message \in Outcome => m \in {run[j]} \X Outcome
    OBVIOUS
  <2>3. sendCh' \in Seq(Message) /\ Len(sendCh') <= SendBuf
    BY <1>1, <2>1, ChannelType
  <2>4. \A r : Announced(r) => Announced(r)'
    BY <1>1, Appended
  <2>5. message \in Outcome => Announced(run[j])'
    BY <1>1, <2>2, Appended
  <2> QED BY <1>1, <2>3, <2>4, <2>5 DEF TypeOK
<1>2. CASE UNCHANGED sendCh
  <2>1. /\ sendCh' \in Seq(Message) /\ Len(sendCh') <= SendBuf
        /\ \A r : Announced(r) => Announced(r)'
    BY <1>2 DEF TypeOK, Announced
  <2>2. CASE ~Live(j) /\ UNCHANGED dropped
    BY <2>1, <2>2 DEF TypeOK
  <2>3. CASE /\ runtime = "kubernetes"
             /\ dropped' = (IF message \in Outcome THEN dropped \cup {run[j]} ELSE dropped)
    BY <2>1, <2>3 DEF TypeOK
  <2>4. CASE Live(j) /\ HasRoom /\ sendCh' = Append(sendCh, m)
    <3>1. Len(sendCh') = Len(sendCh) + 1 /\ Len(sendCh) \in Nat
      BY <2>4 DEF TypeOK
    <3> QED BY <1>2, <3>1
  <2> QED BY <1>2, <2>2, <2>3, <2>4 DEF SendJobResult
<1> QED
  BY <1>1, <1>2 DEF SendJobResult

\* A step of one goroutine: the others and their containers are left alone.
LEMMA Step ==
  ASSUME TypeOK, Fresh, NobodyUnwatched, TypeOK', NEW j \in Jobs, at[j] # "none",
         \A i \in Jobs \ {j} : at'[i] = at[i] /\ container'[i] = container[i],
         UNCHANGED <<runtime, link, run, on>>, faults' >= faults,
         at'[j] # "none", at'[j] \in {"accept", "prepare"} => container'[j] = "none",
         container'[j] = "running" =>
           at'[j] \in {"wait", "stop"} \/ faults' > 0 \/ (runtime = "docker" /\ ~Live(j))
  PROVE  Fresh' /\ NobodyUnwatched'
<1>1. Fresh'
  BY DEF Fresh, link
<1>2. \A i \in Jobs : Live(i)' <=> Live(i)
  BY DEF Live, link
<1>3. faults \in Nat /\ faults' \in Nat
  BY RunnerAssumption DEF TypeOK, RunnerAssumption
<1>4. \A i \in Jobs \ {j} : container'[i] = "running" =>
        at'[i] \in {"wait", "stop"} \/ faults' > 0 \/ (runtime' = "docker" /\ ~Live(i)')
  BY <1>2, <1>3 DEF NobodyUnwatched
<1>5. NobodyUnwatched'
  BY <1>2, <1>4 DEF NobodyUnwatched
<1> QED
  BY <1>1, <1>5

LEMMA AcceptIInv ==
  ASSUME IInv, NEW j \in Jobs, Accept(j)
  PROVE  IInv'
<1>1. /\ TypeOK /\ Owned /\ Fresh /\ SlotBacked /\ NobodyUnwatched
      /\ at[j] = "accept" /\ run[j] \in Runs /\ container[j] = "none"
  BY DEF IInv, Accept, Fresh
<1>2. /\ at' = [at EXCEPT ![j] = "prepare"] /\ SendJobResult(j, "accepted")
      /\ UNCHANGED <<runtime, link, status, run, on, result, monitor, container,
                     stoppedRuns, faults>>
  BY DEF Accept, Goto
<1>3. /\ sendCh' \in Seq(Message) /\ Len(sendCh') <= SendBuf
      /\ dropped \subseteq dropped' /\ dropped' \subseteq Runs
      /\ \A r : Announced(r) => Announced(r)'
  BY <1>1, <1>2, Sending
<1>4. TypeOK'
  BY <1>1, <1>2, <1>3 DEF TypeOK, link, Stage
<1>5. Owned' /\ Fresh' /\ NobodyUnwatched'
  <2>1. at'[j] = "prepare" /\ \A i \in Jobs \ {j} : at'[i] = at[i]
    BY <1>1, <1>2 DEF TypeOK
  <2>2. faults' >= faults
    BY <1>1, <1>2, RunnerAssumption DEF TypeOK, RunnerAssumption
  <2> QED BY <1>1, <1>2, <1>4, <2>1, <2>2, Step DEF Owned, link
<1>6. SlotBacked'
  <2>1. \A r : WorkedOn(r) => WorkedOn(r)'
    BY <1>1, <1>2 DEF WorkedOn, Live, link, TypeOK
  <2>2. \A r : WillReport(r) => WillReport(r)'
    BY <1>2, <1>3, <2>1 DEF WillReport, link
  <2> QED BY <1>1, <1>2, <1>3, <2>2 DEF SlotBacked, link
<1> QED
  BY <1>4, <1>5, <1>6 DEF IInv

\* A step of a goroutine that has accepted its job and not reported yet.
LEMMA Working ==
  ASSUME IInv, TypeOK', NEW j \in Jobs, at[j] \notin Silent,
         NEW stage \in {"create", "start", "wait", "stop", "report"},
         at' = [at EXCEPT ![j] = stage],
         \A i \in Jobs \ {j} : container'[i] = container[i], faults' >= faults,
         container'[j] = "running" =>
           stage \in {"wait", "stop"} \/ faults' > 0 \/ (runtime = "docker" /\ ~Live(j)),
         UNCHANGED <<runtime, link, sendCh, run, on, dropped>>
  PROVE  IInv'
<1>1. TypeOK /\ Owned /\ Fresh /\ SlotBacked /\ NobodyUnwatched
  BY DEF IInv
<1>2. at'[j] = stage /\ \A i \in Jobs \ {j} : at'[i] = at[i]
  BY <1>1 DEF TypeOK
<1>3. Fresh' /\ NobodyUnwatched'
  BY <1>1, <1>2, Step DEF Silent
<1>4. stage \in Stage \ Silent
  BY DEF Stage, Silent
<1>5. SlotBacked'
  BY <1>1, <1>4, Onward
<1>6. Owned'
  BY <1>1 DEF Owned, link
<1> QED
  BY <1>3, <1>5, <1>6 DEF IInv

LEMMA FaultCount ==
  ASSUME TypeOK, Fault \/ UNCHANGED faults
  PROVE  faults' \in 0..MaxFaults /\ faults' >= faults /\ (Fault => faults' > 0)
BY RunnerAssumption DEF TypeOK, Fault, RunnerAssumption

LEMMA PrepareIInv ==
  ASSUME IInv, NEW j \in Jobs, Prepare(j)
  PROVE  IInv'
<1>1. TypeOK /\ at[j] \notin Silent /\ container[j] = "none"
  BY DEF IInv, Prepare, Fresh, Silent
<1>2. PICK stage \in {"create", "report"} : at' = [at EXCEPT ![j] = stage]
  BY DEF Prepare, Conclude, Goto
<1>3. UNCHANGED <<runtime, link, sendCh, status, run, on, monitor, container, stoppedRuns,
                  dropped, faults>>
  BY DEF Prepare
<1>4. result' \in [Jobs -> Outcome]
  BY <1>1 DEF Prepare, Conclude, TypeOK, Outcome
<1>5. TypeOK'
  BY <1>1, <1>2, <1>3, <1>4 DEF TypeOK, link, Stage
<1> QED
  BY <1>1, <1>2, <1>3, <1>5, Working, FaultCount

LEMMA CreateIInv ==
  ASSUME IInv, NEW j \in Jobs, Create(j)
  PROVE  IInv'
<1>1. TypeOK /\ NobodyUnwatched /\ at[j] = "create" /\ at[j] \notin Silent
  BY DEF IInv, Create, Silent
<1>2. UNCHANGED <<runtime, link, sendCh, status, run, on, stoppedRuns, dropped, faults>>
  BY DEF Create
<1>3. /\ result' \in [Jobs -> Outcome]
      /\ monitor' \in [Jobs -> {"off", "polling", "stopping", "over"}]
      /\ container' \in [Jobs -> {"none", "created", "running", "stopped", "gone"}]
      /\ \A i \in Jobs \ {j} : container'[i] = container[i]
  BY <1>1 DEF Create, Conclude, TypeOK, Outcome
<1>4. PICK stage \in {"start", "wait", "report"} :
        /\ at' = [at EXCEPT ![j] = stage]
        /\ stage # "wait" => container'[j] \in {"created", container[j]}
  BY <1>1 DEF Create, Conclude, Goto, TypeOK
<1>5. TypeOK'
  BY <1>1, <1>2, <1>3, <1>4 DEF TypeOK, link, Stage
<1>6. container'[j] = "running" =>
        stage \in {"wait", "stop"} \/ faults' > 0 \/ (runtime = "docker" /\ ~Live(j))
  BY <1>1, <1>2, <1>4 DEF NobodyUnwatched
<1> QED
  BY <1>1, <1>2, <1>3, <1>4, <1>5, <1>6, Working, FaultCount

LEMMA StartIInv ==
  ASSUME IInv, NEW j \in Jobs, Start(j)
  PROVE  IInv'
<1>1. TypeOK /\ at[j] \notin Silent
  BY DEF IInv, Start, Silent
<1>2. UNCHANGED <<runtime, link, sendCh, status, run, on, stoppedRuns, dropped>>
  BY DEF Start
<1>3. /\ result' \in [Jobs -> Outcome]
      /\ monitor' \in [Jobs -> {"off", "polling", "stopping", "over"}]
      /\ container' \in [Jobs -> {"none", "created", "running", "stopped", "gone"}]
      /\ \A i \in Jobs \ {j} : container'[i] = container[i]
  BY <1>1 DEF Start, Conclude, TypeOK, Outcome
<1>4. PICK stage \in {"wait", "report"} :
        /\ at' = [at EXCEPT ![j] = stage]
        /\ Fault \/ UNCHANGED faults
        /\ container'[j] = "running" => stage = "wait" \/ Fault
  BY <1>1 DEF Start, Conclude, Goto, TypeOK
<1>5. TypeOK'
  BY <1>1, <1>2, <1>3, <1>4, FaultCount DEF TypeOK, link, Stage
<1> QED
  BY <1>1, <1>2, <1>3, <1>4, <1>5, Working, FaultCount

LEMMA WaitIInv ==
  ASSUME IInv, NEW j \in Jobs, Wait(j)
  PROVE  IInv'
<1>1. TypeOK /\ at[j] \notin Silent
  BY DEF IInv, Wait, Silent
<1>2. UNCHANGED <<runtime, link, sendCh, status, run, on, monitor, container, stoppedRuns,
                  dropped>>
  BY DEF Wait
<1>3. result' \in [Jobs -> Outcome]
  BY <1>1 DEF Wait, Conclude, TypeOK, Outcome
<1>4. PICK stage \in {"stop", "report"} :
        /\ at' = [at EXCEPT ![j] = stage]
        /\ Fault \/ UNCHANGED faults
        /\ \/ container[j] # "running" \/ Fault
           \/ runtime = "docker" /\ ~Live(j)
  BY DEF Wait, Conclude, Goto
<1>5. TypeOK'
  BY <1>1, <1>2, <1>3, <1>4, FaultCount DEF TypeOK, link, Stage
<1> QED
  BY <1>1, <1>2, <1>4, <1>5, Working, FaultCount

LEMMA StopIInv ==
  ASSUME IInv, NEW j \in Jobs, Stop(j)
  PROVE  IInv'
<1>1. TypeOK /\ at[j] \notin Silent /\ TryToStop(j)
  BY DEF IInv, Stop, Silent
<1>2. /\ UNCHANGED <<runtime, link, sendCh, status, run, on, monitor, stoppedRuns, dropped>>
      /\ at' = [at EXCEPT ![j] = "report"] /\ result' \in [Jobs -> Outcome]
  BY <1>1 DEF Stop, Conclude, Goto, TypeOK, Outcome
<1>3. TypeOK'
  BY <1>1, <1>2, Stopping DEF TypeOK, link, Stage
<1> QED
  BY <1>1, <1>2, <1>3, Working, Stopping

LEMMA ReportIInv ==
  ASSUME IInv, NEW j \in Jobs, Report(j)
  PROVE  IInv'
<1>1. /\ TypeOK /\ Owned /\ Fresh /\ SlotBacked /\ NobodyUnwatched
      /\ at[j] = "report" /\ run[j] \in Runs /\ result[j] \in Outcome
  BY DEF IInv, Report, Fresh, TypeOK
<1>2. /\ at' = [at EXCEPT ![j] = "cleanup"] /\ SendJobResult(j, result[j])
      /\ UNCHANGED <<runtime, link, status, run, on, result, monitor, container,
                     stoppedRuns, faults>>
  BY DEF Report, Goto
<1>3. /\ sendCh' \in Seq(Message) /\ Len(sendCh') <= SendBuf
      /\ dropped \subseteq dropped' /\ dropped' \subseteq Runs
      /\ \A r : Announced(r) => Announced(r)'
      /\ \/ ~Live(j) \/ Announced(run[j])'
         \/ runtime = "kubernetes" /\ run[j] \in dropped'
  BY <1>1, <1>2, Sending
<1>4. TypeOK'
  BY <1>1, <1>2, <1>3 DEF TypeOK, link, Stage
<1>5. Owned' /\ Fresh' /\ NobodyUnwatched'
  <2>1. at'[j] = "cleanup" /\ \A i \in Jobs \ {j} : at'[i] = at[i]
    BY <1>1, <1>2 DEF TypeOK
  <2>2. faults' >= faults
    BY <1>1, <1>2, FaultCount
  <2>3. container[j] = "running" => faults > 0 \/ (runtime = "docker" /\ ~Live(j))
    BY <1>1 DEF NobodyUnwatched
  <2> QED BY <1>1, <1>2, <1>4, <2>1, <2>2, <2>3, Step DEF Owned, link
<1>6. SlotBacked'
  <2>1. ASSUME NEW r, WorkedOn(r)
        PROVE  WorkedOn(r)' \/ (run[j] = r /\ Live(j))
    <3>1. PICK i \in Jobs :
            Live(i) /\ run[i] = r /\ at[i] \notin {"none", "cleanup", "over"}
      BY <2>1 DEF WorkedOn
    <3>2. i # j => at'[i] = at[i]
      BY <1>1, <1>2 DEF TypeOK
    <3> QED BY <1>2, <3>1, <3>2 DEF WorkedOn, Live, link
  <2>2. ASSUME NEW r \in Runs, WillReport(r)
        PROVE  WillReport(r)' \/ (runtime = "kubernetes" /\ r \in dropped')
    <3>1. CASE run[j] = r /\ Live(j)
      <4>1. (run[j])' = r
        BY <1>2, <3>1
      <4> QED BY <1>3, <3>1, <4>1 DEF WillReport
    <3>2. CASE ~(run[j] = r /\ Live(j))
      BY <1>2, <1>3, <2>1, <2>2, <3>2 DEF WillReport, link
    <3> QED BY <3>1, <3>2
  <2> QED BY <1>1, <1>2, <1>3, <2>2 DEF SlotBacked, link
<1> QED
  BY <1>4, <1>5, <1>6 DEF IInv

LEMMA CleanupIInv ==
  ASSUME IInv, NEW j \in Jobs, Cleanup(j)
  PROVE  IInv'
<1>1. /\ TypeOK /\ Owned /\ Fresh /\ SlotBacked /\ NobodyUnwatched /\ at[j] = "cleanup"
  BY DEF IInv, Cleanup
<1>2. /\ at' = [at EXCEPT ![j] = "over"] /\ stoppedRuns' \subseteq Runs
      /\ UNCHANGED <<runtime, link, sendCh, status, run, on, result, monitor, dropped>>
      /\ TryToStop(j) \/ UNCHANGED <<container, faults>>
  BY <1>1 DEF Cleanup, Goto, TypeOK
<1>3. /\ container' \in [Jobs -> {"none", "created", "running", "stopped", "gone"}]
      /\ \A i \in Jobs \ {j} : container'[i] = container[i]
      /\ faults' \in 0..MaxFaults /\ faults' >= faults
      /\ faults' > 0 \/ container'[j] # "running" \/ container'[j] = container[j]
  BY <1>1, <1>2, Stopping, FaultCount DEF TypeOK
<1>4. TypeOK'
  BY <1>1, <1>2, <1>3 DEF TypeOK, link, Stage
<1>5. Owned' /\ Fresh' /\ NobodyUnwatched'
  <2>1. at'[j] = "over" /\ \A i \in Jobs \ {j} : at'[i] = at[i]
    BY <1>1, <1>2 DEF TypeOK
  <2>2. container[j] = "running" => faults > 0 \/ (runtime = "docker" /\ ~Live(j))
    BY <1>1 DEF NobodyUnwatched
  <2>3. faults > 0 => faults' > 0
    BY <1>1, <1>3, RunnerAssumption DEF TypeOK, RunnerAssumption
  <2> QED BY <1>1, <1>2, <1>3, <1>4, <2>1, <2>2, <2>3, Step DEF Owned, link
<1>6. SlotBacked'
  <2>1. \A r : WorkedOn(r) => WorkedOn(r)'
    BY <1>1, <1>2 DEF WorkedOn, Live, link, TypeOK
  <2>2. \A r : WillReport(r) => WillReport(r)'
    BY <1>2, <2>1 DEF WillReport, Announced, link
  <2> QED BY <1>1, <1>2, <2>2 DEF SlotBacked, link
<1> QED
  BY <1>4, <1>5, <1>6 DEF IInv

-----------------------------------------------------------------------------
(* Monitors, agents and users.                                             *)

\* A monitor at work follows a container that was created.
Followed ==
    \A j \in Jobs : monitor[j] \in {"polling", "stopping"} =>
        at[j] \notin {"none", "accept", "prepare"}

LEMMA FollowedStep ==
  ASSUME TypeOK, Followed, [Next]_vars
  PROVE  Followed'
<1> USE DEF Followed, TypeOK
<1>1. CASE UNCHANGED vars
  BY <1>1 DEF vars, jobVars
<1>2. CASE Connect \/ DropConnection \/ EndStream \/ SendNext \/ Heartbeat
  BY <1>2 DEF Connect, DropConnection, EndStream, SendNext, Heartbeat, jobVars
<1>3. CASE Crash
  BY <1>3 DEF Crash
<1>4. CASE \E r \in Runs : Dispatch(r) \/ CancelRun(r)
  BY <1>4 DEF Dispatch, CancelRun, jobVars
<1>5. ASSUME NEW r \in Runs, NEW j \in Jobs, ReceiveJob(r, j)
      PROVE  Followed'
  BY <1>5 DEF ReceiveJob, Goto
<1>6. ASSUME NEW j \in Jobs, HandleJob(j)
      PROVE  Followed'
  <2>1. CASE Accept(j) \/ Prepare(j)
    BY <2>1 DEF Accept, Prepare, Conclude, Goto
  <2>2. CASE Create(j)
    BY <2>2 DEF Create, Conclude, Goto
  <2>3. CASE Start(j)
    BY <2>3 DEF Start, Conclude, Goto
  <2>4. CASE Wait(j) \/ Stop(j) \/ Report(j) \/ Cleanup(j)
    BY <2>4 DEF Wait, Stop, Report, Cleanup, Conclude, Goto
  <2> QED BY <1>6, <2>1, <2>2, <2>3, <2>4 DEF HandleJob
<1>7. ASSUME NEW j \in Jobs, MonitorPoll(j) \/ MonitorStop(j)
      PROVE  Followed'
  BY <1>7 DEF MonitorPoll, MonitorStop, Watching, jobVars
<1>8. ASSUME NEW j \in Jobs, AgentEnds(j) \/ RemoveEnded(j)
      PROVE  Followed'
  BY <1>8 DEF AgentEnds, RemoveEnded, jobVars
<1> QED
  BY <1>1, <1>2, <1>3, <1>4, <1>5, <1>6, <1>7, <1>8 DEF Next

\* A step that moves no goroutine of a job, and starts no agent.
LEMMA Aside ==
  ASSUME IInv, TypeOK', UNCHANGED <<runtime, link, sendCh, jobVars, dropped>>,
         faults' >= faults,
         \A j \in Jobs : container'[j] = "running" => container[j] = "running",
         \A j \in Jobs : at[j] \in {"none", "accept", "prepare"} =>
           container'[j] = container[j]
  PROVE  IInv'
<1>1. TypeOK /\ Owned /\ Fresh /\ SlotBacked /\ NobodyUnwatched
  BY DEF IInv
<1>2. Owned' /\ Fresh' /\ SlotBacked'
  BY <1>1, SlotsKept DEF Owned, Fresh, link, jobVars
<1>3. faults > 0 => faults' > 0
  BY <1>1, RunnerAssumption DEF TypeOK, RunnerAssumption
<1>4. NobodyUnwatched'
  BY <1>1, <1>3 DEF NobodyUnwatched, Live, link, jobVars
<1> QED
  BY <1>2, <1>4 DEF IInv

LEMMA MonitorPollIInv ==
  ASSUME IInv, NEW j \in Jobs, MonitorPoll(j)
  PROVE  IInv'
<1>1. TypeOK /\ Fresh /\ at[j] # "none"
  BY DEF IInv, MonitorPoll, Watching
<1>2. /\ UNCHANGED <<runtime, link, sendCh, status, jobVars, container, dropped, faults>>
      /\ \E state \in {"stopping", "over"} : monitor' = [monitor EXCEPT ![j] = state]
      /\ stoppedRuns' \subseteq stoppedRuns \cup {run[j]}
  BY DEF MonitorPoll
<1>3. TypeOK'
  <2>1. stoppedRuns' \subseteq Runs
    BY <1>1, <1>2 DEF TypeOK, Fresh
  <2>2. monitor' \in [Jobs -> {"off", "polling", "stopping", "over"}]
    BY <1>1, <1>2 DEF TypeOK
  <2> QED BY <1>1, <1>2, <2>1, <2>2 DEF TypeOK, link, jobVars
<1> QED
  BY <1>1, <1>2, <1>3, Aside, FaultCount

LEMMA MonitorStopIInv ==
  ASSUME IInv, Followed, NEW j \in Jobs, MonitorStop(j)
  PROVE  IInv'
<1>1. TypeOK /\ at[j] \notin {"none", "accept", "prepare"} /\ TryToStop(j)
  BY DEF IInv, MonitorStop, Followed
<1>2. /\ UNCHANGED <<runtime, link, sendCh, status, jobVars, stoppedRuns, dropped>>
      /\ monitor' \in [Jobs -> {"off", "polling", "stopping", "over"}]
  BY <1>1 DEF MonitorStop, TypeOK
<1>3. TypeOK'
  BY <1>1, <1>2, Stopping DEF TypeOK, link, jobVars
<1>4. \A i \in Jobs : container'[i] = "running" => container[i] = "running"
  <2>1. container'[j] = "running" => container[j] = "running"
    BY <1>1 DEF TryToStop, TypeOK
  <2> QED BY <1>1, <2>1, Stopping
<1> QED
  BY <1>1, <1>2, <1>3, <1>4, Aside, Stopping

LEMMA AgentIInv ==
  ASSUME IInv, NEW j \in Jobs, AgentEnds(j) \/ RemoveEnded(j)
  PROVE  IInv'
<1>1. TypeOK /\ Fresh
  BY DEF IInv
<1>2. /\ UNCHANGED <<runtime, link, sendCh, jobVars, monitor, stoppedRuns, dropped, faults>>
      /\ container[j] \notin {"none", "created"}
      /\ \E ended \in {"stopped", "gone"} : container' = [container EXCEPT ![j] = ended]
  BY DEF AgentEnds, RemoveEnded
<1>3. status' \in [Runs -> {"open", "cancelled", "ended"}]
  <2>1. CASE UNCHANGED status
    BY <1>1, <2>1 DEF TypeOK
  <2>2. CASE status' = [status EXCEPT ![run[j]] = "ended"]
    BY <1>1, <2>2 DEF TypeOK
  <2> QED BY <2>1, <2>2 DEF AgentEnds, RemoveEnded
<1>4. TypeOK'
  BY <1>1, <1>2, <1>3 DEF TypeOK, link, jobVars
<1>5. /\ \A i \in Jobs : container'[i] = "running" => container[i] = "running"
      /\ \A i \in Jobs : at[i] \in {"none", "accept", "prepare"} =>
           container'[i] = container[i]
  BY <1>1, <1>2 DEF TypeOK, Fresh
<1> QED
  BY <1>1, <1>2, <1>4, <1>5, Aside, FaultCount

LEMMA CancelRunIInv ==
  ASSUME IInv, NEW r \in Runs, CancelRun(r)
  PROVE  IInv'
<1>1. TypeOK
  BY DEF IInv
<1>2. /\ UNCHANGED <<runtime, link, sendCh, jobVars, monitor, container, stoppedRuns,
                     dropped, faults>>
      /\ status' \in [Runs -> {"open", "cancelled", "ended"}]
  BY <1>1 DEF CancelRun, TypeOK
<1>3. TypeOK'
  BY <1>1, <1>2 DEF TypeOK, link, jobVars
<1> QED
  BY <1>1, <1>2, <1>3, Aside, FaultCount

-----------------------------------------------------------------------------
(* The theorems.                                                           *)

LEMMA NextIInv ==
  ASSUME IInv, Followed, [Next]_vars
  PROVE  IInv'
<1>1. CASE UNCHANGED vars
  <2>1. TypeOK' /\ TypeOK
    BY <1>1 DEF IInv, TypeOK, vars, link, jobVars
  <2> QED BY <1>1, <2>1, Aside, FaultCount DEF vars
<1>2. CASE Connect \/ DropConnection \/ EndStream \/ SendNext \/ Heartbeat \/ Crash
  BY <1>2, ConnectIInv, DropConnectionIInv, EndStreamIInv, SendNextIInv, HeartbeatIInv,
     CrashIInv
<1>3. CASE \E r \in Runs : Dispatch(r) \/ CancelRun(r)
  BY <1>3, DispatchIInv, CancelRunIInv
<1>4. CASE \E r \in Runs, j \in Jobs : ReceiveJob(r, j)
  BY <1>4, ReceiveJobIInv
<1>5. ASSUME NEW j \in Jobs, HandleJob(j)
      PROVE  IInv'
  BY <1>5, AcceptIInv, PrepareIInv, CreateIInv, StartIInv, WaitIInv, StopIInv, ReportIInv,
     CleanupIInv
  DEF HandleJob
<1>6. ASSUME NEW j \in Jobs,
             MonitorPoll(j) \/ MonitorStop(j) \/ AgentEnds(j) \/ RemoveEnded(j)
      PROVE  IInv'
  BY <1>6, MonitorPollIInv, MonitorStopIInv, AgentIInv
<1> QED
  BY <1>1, <1>2, <1>3, <1>4, <1>5, <1>6 DEF Next

LEMMA Always == Spec => [](IInv /\ Followed)
<1>1. Init => IInv /\ Followed
  BY InitIInv DEF Init, Followed
<1>2. IInv /\ Followed /\ [Next]_vars => (IInv /\ Followed)'
  BY NextIInv, FollowedStep DEF IInv
<1> QED
  BY <1>1, <1>2, PTL DEF Spec

\* The state of connectAndServe, handleJob and the monitors keeps its types, and
\* the channel never holds more than its room.
THEOREM Typed == Spec => []TypeOK
<1>1. IInv => TypeOK
  BY DEF IInv
<1> QED
  BY <1>1, Always, PTL

\* sendJobResult, handleJobResult and the loss of a connection: a slot that the
\* dispatcher counts as taken is one the runner will give back.
THEOREM SlotGivenBack == Spec => []SlotBacked
<1>1. IInv => SlotBacked
  BY DEF IInv
<1> QED
  BY <1>1, Always, PTL

\* handleJob: no agent is at work that its goroutine does not wait for, unless
\* a call failed, the runner crashed, or a Docker job lost its stream.
THEOREM AgentsWaitedFor == Spec => []NobodyUnwatched
<1>1. IInv => NobodyUnwatched
  BY DEF IInv
<1> QED
  BY <1>1, Always, PTL

=============================================================================
