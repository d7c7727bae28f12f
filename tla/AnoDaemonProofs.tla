-------------------------- MODULE AnoDaemonProofs --------------------------
(***************************************************************************)
(* Proofs about AnoDaemon for any number of clients, daemons and versions. *)
(*                                                                         *)
(* ExactlyOnceUnlessUnsure is not inductive: it has to be known where each *)
(* exec request is (ClientInv), that a queue holds exactly accepted        *)
(* requests (QueueInv) and that a connection leads to a process that was   *)
(* spawned, whose version is thus fixed (BornInv).  QueueIsExact needs the *)
(* converse of QueueInv as well, and that a start finds no other dispatch  *)
(* under way (SerialInv).                                                  *)
(***************************************************************************)
EXTENDS AnoDaemon, FiniteSetTheorems, TLAPS

\* The command has been started by the daemon, may have been, or has not.
Started(c) == exec[c] \in {"running", "orphaned", "answered"}
Lost(c) == exec[c] = "lost"
NotStarted(c) == ~Started(c) /\ ~Lost(c)

\* How often the client has run its command itself.
Direct(c) == IF pc[c] = "done" /\ why[c] # "served" THEN 1 ELSE 0

RunsInv(c) ==
  /\ NotStarted(c) => runs[c] = Direct(c)
  /\ Started(c) => runs[c] = Direct(c) + 1
  /\ Lost(c) => runs[c] \in {Direct(c), Direct(c) + 1}

\* What the client's position says about its request.
PcInv(c) ==
  /\ pc[c] \in {"idle", "breaker", "probe", "ping", "pinging", "attempt"} =>
       exec[c] = "none"
  /\ pc[c] = "waiting" => exec[c] # "none"
  /\ exec[c] # "none" \/ pc[c] = "pinging" => peer[c] # None

\* What its reason for returning says about its request.
WhyInv(c) ==
  /\ pc[c] \in {"kill", "unlink"} => why[c] \in Unsure \cup {"unhealthy"}
  /\ pc[c] = "direct" => why[c] \notin {"none", "served"}
  /\ pc[c] \in {"kill", "unlink", "direct", "done"} =>
       /\ why[c] # "none"
       /\ why[c] \in {"bypass", "breaker", "no_daemon", "unhealthy", "connect"}
            => exec[c] = "none"
       /\ why[c] = "declined" => exec[c] = "declined"
       /\ why[c] = "error" => exec[c] = "reset"
       /\ why[c] = "served" => exec[c] = "answered"

ReplyInv(c) ==
  /\ reply[c] # "none" => pc[c] \in {"pinging", "waiting"}
  /\ reply[c] = "pong" => pc[c] = "pinging"
  /\ reply[c] = "ok" => exec[c] = "answered"
  /\ reply[c] = "internal" => exec[c] \in {"declined", "orphaned", "lost"}
  /\ reply[c] \in {"version_mismatch", "unknown_method"} =>
       exec[c] = "declined"

ClientInv == \A c \in Clients : RunsInv(c) /\ PcInv(c) /\ WhyInv(c) /\ ReplyInv(c)

QueueInv ==
  \A d \in Daemons : \A i \in 1..Len(queue[d]) :
    /\ exec[queue[d][i]] = "queued"
    /\ peer[queue[d][i]] = d
    /\ \A j \in 1..Len(queue[d]) : queue[d][i] = queue[d][j] => i = j

BornInv ==
  /\ sock # None => dpc[sock] # "unborn"
  /\ \A c \in Clients : peer[c] # None => dpc[peer[c]] # "unborn"

IInv == TypeOK /\ ClientInv /\ QueueInv /\ BornInv /\ HostsOnlyItsOwn

\* An empty queue is a queue.
LEMMA EmptyQueue == <<>> \in Seq(Clients) /\ Len(<<>>) = 0
  OBVIOUS

\* Before the first invocation nothing has run and no daemon is up.
LEMMA InitInv == Init => IInv
<1> SUFFICES ASSUME Init PROVE IInv
  OBVIOUS
<1> USE ClientsAssumption, DaemonsAssumption DEF Init
<1>1. TypeOK
  BY EmptyQueue DEF TypeOK, ClientPc, Reasons, ExecStage, Replies, DaemonPc
<1>2. ClientInv /\ BornInv /\ HostsOnlyItsOwn
  BY DEF ClientInv, RunsInv, PcInv, WhyInv, ReplyInv, Started, Lost,
         NotStarted, Direct, BornInv, HostsOnlyItsOwn
<1>3. \A d \in Daemons : Len(queue[d]) = 0
  BY EmptyQueue
<1>4. QueueInv
  BY <1>3 DEF QueueInv
<1>. QED BY <1>1, <1>2, <1>4 DEF IInv

\* spawnDaemon() turns an unborn process into a daemon of a given version.
LEMMA SpawnFacts ==
  ASSUME TypeOK, NEW v \in Versions, Spawn(v)
  PROVE  /\ dpc' \in [Daemons -> DaemonPc]
         /\ dver' \in [Daemons -> Versions \cup {None}]
         /\ \A d \in Daemons : dpc[d] # "unborn" =>
              dpc'[d] # "unborn" /\ dver'[d] = dver[d]
  BY DEF TypeOK, Spawn, DaemonPc

\* A queue that something joined is another queue.
LEMMA AppendChanges ==
  ASSUME NEW q \in Seq(Clients), NEW c \in Clients
  PROVE  Append(q, c) # q
  OBVIOUS

\* A daemon's death keeps the types of what dies with it.
LEMMA DieType ==
  ASSUME TypeOK, NEW d \in Daemons, Die(d)
  PROVE  /\ dpc' \in [Daemons -> DaemonPc]
         /\ queue' \in [Daemons -> Seq(Clients)]
         /\ stopping' \in [Daemons -> BOOLEAN]
         /\ exec' \in [Clients -> ExecStage]
  BY EmptyQueue DEF TypeOK, Die, DaemonPc, ExecStage


\* Invoke
LEMMA InvokeInv ==
  ASSUME IInv, NEW c \in Clients, Invoke(c)
  PROVE  IInv'
<1> USE ClientsAssumption, DaemonsAssumption DEF IInv, Invoke, Goto
<1>1. TypeOK'
  BY DEF TypeOK, ClientPc, Reasons, ExecStage, Replies, DaemonPc, clientVars, requestVars, daemonVars, fileVars
<1>2. ClientInv'
  BY DEF TypeOK, ClientPc, Reasons, ExecStage, Replies, DaemonPc, clientVars, requestVars, daemonVars, fileVars,
         ClientInv, RunsInv, PcInv, WhyInv, ReplyInv, Started, Lost,
         NotStarted, Direct, Unsure
<1>3. QueueInv'
  BY DEF TypeOK, clientVars, requestVars, daemonVars, fileVars, QueueInv
<1>4. BornInv'
  BY DEF TypeOK, clientVars, requestVars, daemonVars, fileVars, BornInv
<1>5. HostsOnlyItsOwn'
  BY DEF TypeOK, clientVars, requestVars, daemonVars, fileVars, HostsOnlyItsOwn, Refused, ClientInv, PcInv, BornInv
<1>. QED BY <1>1, <1>2, <1>3, <1>4, <1>5

\* Bypass
LEMMA BypassInv ==
  ASSUME IInv, NEW c \in Clients, Bypass(c)
  PROVE  IInv'
<1> USE ClientsAssumption, DaemonsAssumption DEF IInv, Bypass, RunDirectlyBecause, Goto
<1>1. TypeOK'
  BY DEF TypeOK, ClientPc, Reasons, ExecStage, Replies, DaemonPc, clientVars, requestVars, daemonVars, fileVars
<1>2. ClientInv'
  BY DEF TypeOK, ClientPc, Reasons, ExecStage, Replies, DaemonPc, clientVars, requestVars, daemonVars, fileVars,
         ClientInv, RunsInv, PcInv, WhyInv, ReplyInv, Started, Lost,
         NotStarted, Direct, Unsure
<1>3. QueueInv'
  BY DEF TypeOK, clientVars, requestVars, daemonVars, fileVars, QueueInv
<1>4. BornInv'
  BY DEF TypeOK, clientVars, requestVars, daemonVars, fileVars, BornInv
<1>5. HostsOnlyItsOwn'
  BY DEF TypeOK, clientVars, requestVars, daemonVars, fileVars, HostsOnlyItsOwn, Refused, ClientInv, PcInv, BornInv
<1>. QED BY <1>1, <1>2, <1>3, <1>4, <1>5

\* ReadBreaker
LEMMA ReadBreakerInv ==
  ASSUME IInv, NEW c \in Clients, ReadBreaker(c)
  PROVE  IInv'
<1> USE ClientsAssumption, DaemonsAssumption DEF IInv, ReadBreaker, RunDirectlyBecause, Goto
<1>1. TypeOK'
  BY DEF TypeOK, ClientPc, Reasons, ExecStage, Replies, DaemonPc, clientVars, requestVars, daemonVars, fileVars
<1>2. ClientInv'
  BY DEF TypeOK, ClientPc, Reasons, ExecStage, Replies, DaemonPc, clientVars, requestVars, daemonVars, fileVars,
         ClientInv, RunsInv, PcInv, WhyInv, ReplyInv, Started, Lost,
         NotStarted, Direct, Unsure
<1>3. QueueInv'
  BY DEF TypeOK, clientVars, requestVars, daemonVars, fileVars, QueueInv
<1>4. BornInv'
  BY DEF TypeOK, clientVars, requestVars, daemonVars, fileVars, BornInv
<1>5. HostsOnlyItsOwn'
  BY DEF TypeOK, clientVars, requestVars, daemonVars, fileVars, HostsOnlyItsOwn, Refused, ClientInv, PcInv, BornInv
<1>. QED BY <1>1, <1>2, <1>3, <1>4, <1>5

\* ProbeSocket
LEMMA ProbeSocketInv ==
  ASSUME IInv, NEW c \in Clients, ProbeSocket(c)
  PROVE  IInv'
<1> USE ClientsAssumption, DaemonsAssumption DEF IInv, ProbeSocket, Spawn, RunDirectlyBecause, Goto
<1>1. TypeOK'
  BY SpawnFacts DEF TypeOK, ClientPc, Reasons, ExecStage, Replies, DaemonPc, clientVars, requestVars, daemonVars, fileVars
<1>2. ClientInv'
  BY DEF TypeOK, ClientPc, Reasons, ExecStage, Replies, DaemonPc, clientVars, requestVars, daemonVars, fileVars,
         ClientInv, RunsInv, PcInv, WhyInv, ReplyInv, Started, Lost,
         NotStarted, Direct, Unsure
<1>3. QueueInv'
  BY DEF TypeOK, clientVars, requestVars, daemonVars, fileVars, QueueInv
<1>4. BornInv'
  BY DEF TypeOK, clientVars, requestVars, daemonVars, fileVars, BornInv
<1>5. HostsOnlyItsOwn'
  BY DEF TypeOK, clientVars, requestVars, daemonVars, fileVars, HostsOnlyItsOwn, Refused, ClientInv, PcInv, BornInv
<1>. QED BY <1>1, <1>2, <1>3, <1>4, <1>5

\* ConnectPing
LEMMA ConnectPingInv ==
  ASSUME IInv, NEW c \in Clients, ConnectPing(c)
  PROVE  IInv'
<1> USE ClientsAssumption, DaemonsAssumption DEF IInv, ConnectPing, Serving, KillBecause, Goto
<1>1. TypeOK'
  BY DEF TypeOK, ClientPc, Reasons, ExecStage, Replies, DaemonPc, clientVars, requestVars, daemonVars, fileVars
<1>2. ClientInv'
  BY DEF TypeOK, ClientPc, Reasons, ExecStage, Replies, DaemonPc, clientVars, requestVars, daemonVars, fileVars,
         ClientInv, RunsInv, PcInv, WhyInv, ReplyInv, Started, Lost,
         NotStarted, Direct, Unsure
<1>3. QueueInv'
  BY DEF TypeOK, clientVars, requestVars, daemonVars, fileVars, QueueInv,
         ClientInv, PcInv
<1>4. BornInv'
  BY DEF TypeOK, clientVars, requestVars, daemonVars, fileVars, BornInv
<1>5. HostsOnlyItsOwn'
  BY DEF TypeOK, clientVars, requestVars, daemonVars, fileVars, HostsOnlyItsOwn, Refused, ClientInv, PcInv, BornInv
<1>. QED BY <1>1, <1>2, <1>3, <1>4, <1>5

\* TakePong
LEMMA TakePongInv ==
  ASSUME IInv, NEW c \in Clients, TakePong(c)
  PROVE  IInv'
<1> USE ClientsAssumption, DaemonsAssumption DEF IInv, TakePong, KillBecause, Goto
<1>1. TypeOK'
  BY DEF TypeOK, ClientPc, Reasons, ExecStage, Replies, DaemonPc, clientVars, requestVars, daemonVars, fileVars
<1>2. ClientInv'
  BY DEF TypeOK, ClientPc, Reasons, ExecStage, Replies, DaemonPc, clientVars, requestVars, daemonVars, fileVars,
         ClientInv, RunsInv, PcInv, WhyInv, ReplyInv, Started, Lost,
         NotStarted, Direct, Unsure
<1>3. QueueInv'
  BY DEF TypeOK, clientVars, requestVars, daemonVars, fileVars, QueueInv
<1>4. BornInv'
  BY DEF TypeOK, clientVars, requestVars, daemonVars, fileVars, BornInv
<1>5. HostsOnlyItsOwn'
  BY DEF TypeOK, clientVars, requestVars, daemonVars, fileVars, HostsOnlyItsOwn, Refused, ClientInv, PcInv, BornInv
<1>. QED BY <1>1, <1>2, <1>3, <1>4, <1>5

\* PingFails
LEMMA PingFailsInv ==
  ASSUME IInv, NEW c \in Clients, PingFails(c)
  PROVE  IInv'
<1> USE ClientsAssumption, DaemonsAssumption DEF IInv, PingFails, KillBecause, Goto
<1>1. TypeOK'
  BY DEF TypeOK, ClientPc, Reasons, ExecStage, Replies, DaemonPc, clientVars, requestVars, daemonVars, fileVars
<1>2. ClientInv'
  BY DEF TypeOK, ClientPc, Reasons, ExecStage, Replies, DaemonPc, clientVars, requestVars, daemonVars, fileVars,
         ClientInv, RunsInv, PcInv, WhyInv, ReplyInv, Started, Lost,
         NotStarted, Direct, Unsure
<1>3. QueueInv'
  BY DEF TypeOK, clientVars, requestVars, daemonVars, fileVars, QueueInv
<1>4. BornInv'
  BY DEF TypeOK, clientVars, requestVars, daemonVars, fileVars, BornInv
<1>5. HostsOnlyItsOwn'
  BY DEF TypeOK, clientVars, requestVars, daemonVars, fileVars, HostsOnlyItsOwn, Refused, ClientInv, PcInv, BornInv
<1>. QED BY <1>1, <1>2, <1>3, <1>4, <1>5

\* Kill
LEMMA KillInv ==
  ASSUME IInv, NEW c \in Clients, Kill(c)
  PROVE  IInv'
<1> USE ClientsAssumption, DaemonsAssumption DEF IInv, Kill, Goto
<1>1. TypeOK'
  BY DieType DEF TypeOK, ClientPc, Reasons, ExecStage, Replies, DaemonPc, clientVars, requestVars, daemonVars, fileVars
<1>2. ClientInv'
  BY DEF Die, TypeOK, ClientPc, Reasons, ExecStage, Replies, DaemonPc, clientVars, requestVars, daemonVars, fileVars,
         ClientInv, RunsInv, PcInv, WhyInv, ReplyInv, Started, Lost,
         NotStarted, Direct, Unsure
<1>3. QueueInv'
  <2>1. CASE UNCHANGED <<dpc, queue, stopping, exec>>
    BY <2>1 DEF QueueInv
  <2>2. CASE target[c] \in Daemons /\ Die(target[c])
    <3>1. \A d \in Daemons : d # target[c] => queue'[d] = queue[d]
      BY <2>2 DEF Die, TypeOK
    <3>2. Len(queue'[target[c]]) = 0
      BY <2>2, EmptyQueue DEF Die, TypeOK
    <3>3. \A x \in Clients : peer[x] # target[c] => exec'[x] = exec[x]
      BY <2>2 DEF Die, TypeOK
    <3>. QED BY <3>1, <3>2, <3>3 DEF QueueInv, TypeOK
  <2>. QED BY <2>1, <2>2 DEF TypeOK
<1>4. BornInv'
  BY DEF Die, TypeOK, clientVars, requestVars, daemonVars, fileVars, BornInv
<1>5. HostsOnlyItsOwn'
  BY DEF Die, TypeOK, clientVars, requestVars, daemonVars, fileVars, HostsOnlyItsOwn, Refused, ClientInv, PcInv, BornInv
<1>. QED BY <1>1, <1>2, <1>3, <1>4, <1>5

\* Unlink
LEMMA UnlinkInv ==
  ASSUME IInv, NEW c \in Clients, Unlink(c)
  PROVE  IInv'
<1> USE ClientsAssumption, DaemonsAssumption DEF IInv, Unlink, Spawn, Goto
<1>1. TypeOK'
  BY SpawnFacts DEF TypeOK, ClientPc, Reasons, ExecStage, Replies, DaemonPc, clientVars, requestVars, daemonVars, fileVars
<1>2. ClientInv'
  BY DEF TypeOK, ClientPc, Reasons, ExecStage, Replies, DaemonPc, clientVars, requestVars, daemonVars, fileVars,
         ClientInv, RunsInv, PcInv, WhyInv, ReplyInv, Started, Lost,
         NotStarted, Direct, Unsure
<1>3. QueueInv'
  BY DEF TypeOK, clientVars, requestVars, daemonVars, fileVars, QueueInv
<1>4. BornInv'
  BY DEF TypeOK, clientVars, requestVars, daemonVars, fileVars, BornInv
<1>5. HostsOnlyItsOwn'
  BY DEF TypeOK, clientVars, requestVars, daemonVars, fileVars, HostsOnlyItsOwn, Refused, ClientInv, PcInv, BornInv
<1>. QED BY <1>1, <1>2, <1>3, <1>4, <1>5

\* ConnectExec
LEMMA ConnectExecInv ==
  ASSUME IInv, NEW c \in Clients, ConnectExec(c)
  PROVE  IInv'
<1> USE ClientsAssumption, DaemonsAssumption DEF IInv, ConnectExec, Serving, RunDirectlyBecause, Goto
<1>1. TypeOK'
  BY DEF TypeOK, ClientPc, Reasons, ExecStage, Replies, DaemonPc, clientVars, requestVars, daemonVars, fileVars
<1>2. ClientInv'
  BY DEF TypeOK, ClientPc, Reasons, ExecStage, Replies, DaemonPc, clientVars, requestVars, daemonVars, fileVars,
         ClientInv, RunsInv, PcInv, WhyInv, ReplyInv, Started, Lost,
         NotStarted, Direct, Unsure
<1>3. QueueInv'
  BY DEF TypeOK, clientVars, requestVars, daemonVars, fileVars, QueueInv,
         ClientInv, PcInv
<1>4. BornInv'
  BY DEF TypeOK, clientVars, requestVars, daemonVars, fileVars, BornInv
<1>5. HostsOnlyItsOwn'
  BY DEF TypeOK, clientVars, requestVars, daemonVars, fileVars, HostsOnlyItsOwn, Refused, ClientInv, PcInv, BornInv
<1>. QED BY <1>1, <1>2, <1>3, <1>4, <1>5

\* ConnectTimeout
LEMMA ConnectTimeoutInv ==
  ASSUME IInv, NEW c \in Clients, ConnectTimeout(c)
  PROVE  IInv'
<1> USE ClientsAssumption, DaemonsAssumption DEF IInv, ConnectTimeout, RunDirectlyBecause, Goto
<1>1. TypeOK'
  BY DEF TypeOK, ClientPc, Reasons, ExecStage, Replies, DaemonPc, clientVars, requestVars, daemonVars, fileVars
<1>2. ClientInv'
  BY DEF TypeOK, ClientPc, Reasons, ExecStage, Replies, DaemonPc, clientVars, requestVars, daemonVars, fileVars,
         ClientInv, RunsInv, PcInv, WhyInv, ReplyInv, Started, Lost,
         NotStarted, Direct, Unsure
<1>3. QueueInv'
  BY DEF TypeOK, clientVars, requestVars, daemonVars, fileVars, QueueInv
<1>4. BornInv'
  BY DEF TypeOK, clientVars, requestVars, daemonVars, fileVars, BornInv
<1>5. HostsOnlyItsOwn'
  BY DEF TypeOK, clientVars, requestVars, daemonVars, fileVars, HostsOnlyItsOwn, Refused, ClientInv, PcInv, BornInv
<1>. QED BY <1>1, <1>2, <1>3, <1>4, <1>5

\* TakeReply
LEMMA TakeReplyInv ==
  ASSUME IInv, NEW c \in Clients, TakeReply(c)
  PROVE  IInv'
<1> USE ClientsAssumption, DaemonsAssumption DEF IInv, TakeReply, TakeOk, TakeInternal, KillBecause, RunDirectlyBecause, Goto
<1>1. TypeOK'
  <2>1. CASE TakeOk(c)
    BY <2>1 DEF TypeOK, ClientPc, Reasons, ExecStage, Replies, DaemonPc,
         clientVars, requestVars, daemonVars, fileVars
  <2>2. CASE TakeInternal(c)
    BY <2>2 DEF TypeOK, ClientPc, Reasons, ExecStage, Replies, DaemonPc,
         clientVars, requestVars, daemonVars, fileVars
  <2>3. CASE RunDirectlyBecause(c, "declined") /\ UNCHANGED <<target, breaker>>
    BY <2>3 DEF TypeOK, ClientPc, Reasons, ExecStage, Replies, DaemonPc,
         clientVars, requestVars, daemonVars, fileVars
  <2>. QED BY <2>1, <2>2, <2>3
<1>2. ClientInv'
  BY DEF TypeOK, ClientPc, Reasons, ExecStage, Replies, DaemonPc, clientVars, requestVars, daemonVars, fileVars,
         ClientInv, RunsInv, PcInv, WhyInv, ReplyInv, Started, Lost,
         NotStarted, Direct, Unsure
<1>3. QueueInv'
  BY DEF TypeOK, clientVars, requestVars, daemonVars, fileVars, QueueInv
<1>4. BornInv'
  BY DEF TypeOK, clientVars, requestVars, daemonVars, fileVars, BornInv
<1>5. HostsOnlyItsOwn'
  BY DEF TypeOK, clientVars, requestVars, daemonVars, fileVars, HostsOnlyItsOwn, Refused, ClientInv, PcInv, BornInv
<1>. QED BY <1>1, <1>2, <1>3, <1>4, <1>5

\* ResponseTimeout
LEMMA ResponseTimeoutInv ==
  ASSUME IInv, NEW c \in Clients, ResponseTimeout(c)
  PROVE  IInv'
<1> USE ClientsAssumption, DaemonsAssumption DEF IInv, ResponseTimeout, GiveUpWaiting, KillBecause, Goto
<1>1. TypeOK'
  BY DEF TypeOK, ClientPc, Reasons, ExecStage, Replies, DaemonPc, clientVars, requestVars, daemonVars, fileVars
<1>2. ClientInv'
  BY DEF TypeOK, ClientPc, Reasons, ExecStage, Replies, DaemonPc, clientVars, requestVars, daemonVars, fileVars,
         ClientInv, RunsInv, PcInv, WhyInv, ReplyInv, Started, Lost,
         NotStarted, Direct, Unsure
<1>3. QueueInv'
  BY DEF TypeOK, clientVars, requestVars, daemonVars, fileVars, QueueInv
<1>4. BornInv'
  BY DEF TypeOK, clientVars, requestVars, daemonVars, fileVars, BornInv
<1>5. HostsOnlyItsOwn'
  BY DEF TypeOK, clientVars, requestVars, daemonVars, fileVars, HostsOnlyItsOwn, Refused, ClientInv, PcInv, BornInv
<1>. QED BY <1>1, <1>2, <1>3, <1>4, <1>5

\* ConnectionReset
LEMMA ConnectionResetInv ==
  ASSUME IInv, NEW c \in Clients, ConnectionReset(c)
  PROVE  IInv'
<1> USE ClientsAssumption, DaemonsAssumption DEF IInv, ConnectionReset, RunDirectlyBecause, Goto
<1>1. TypeOK'
  BY DEF TypeOK, ClientPc, Reasons, ExecStage, Replies, DaemonPc, clientVars, requestVars, daemonVars, fileVars
<1>2. ClientInv'
  <2>1. SUFFICES ASSUME NEW x \in Clients
                 PROVE  (RunsInv(x) /\ PcInv(x) /\ WhyInv(x) /\ ReplyInv(x))'
    BY DEF ClientInv
  <2>2. /\ pc'[c] = "direct" /\ why'[c] = "error"
        /\ x # c => pc'[x] = pc[x] /\ why'[x] = why[x]
        /\ UNCHANGED <<exec, reply, runs, peer>>
    BY DEF TypeOK, ClientPc, Reasons, ExecStage, Replies, DaemonPc,
         clientVars, requestVars, daemonVars, fileVars
  <2>3. RunsInv(x) /\ PcInv(x) /\ WhyInv(x) /\ ReplyInv(x)
    BY DEF ClientInv
  <2>4. CASE x # c
    BY <2>2, <2>3, <2>4 DEF RunsInv, PcInv, WhyInv, ReplyInv, Started, Lost,
         NotStarted, Direct
  <2>5. CASE x = c
    <3>1. reply[c] = "none"
      BY <2>3, <2>5 DEF ReplyInv, TypeOK, Replies
    <3>. QED BY <3>1, <2>2, <2>3, <2>5 DEF RunsInv, PcInv, WhyInv, ReplyInv,
         Started, Lost, NotStarted, Direct, Unsure
  <2>. QED BY <2>4, <2>5
<1>3. QueueInv'
  BY DEF TypeOK, clientVars, requestVars, daemonVars, fileVars, QueueInv
<1>4. BornInv'
  BY DEF TypeOK, clientVars, requestVars, daemonVars, fileVars, BornInv
<1>5. HostsOnlyItsOwn'
  BY DEF TypeOK, clientVars, requestVars, daemonVars, fileVars, HostsOnlyItsOwn, Refused, ClientInv, PcInv, BornInv
<1>. QED BY <1>1, <1>2, <1>3, <1>4, <1>5

\* RunDirectly
LEMMA RunDirectlyInv ==
  ASSUME IInv, NEW c \in Clients, RunDirectly(c)
  PROVE  IInv'
<1> USE ClientsAssumption, DaemonsAssumption DEF IInv, RunDirectly, Goto
<1>1. TypeOK'
  BY DEF TypeOK, ClientPc, Reasons, ExecStage, Replies, DaemonPc, clientVars, requestVars, daemonVars, fileVars
<1>2. ClientInv'
  BY DEF TypeOK, ClientPc, Reasons, ExecStage, Replies, DaemonPc, clientVars, requestVars, daemonVars, fileVars,
         ClientInv, RunsInv, PcInv, WhyInv, ReplyInv, Started, Lost,
         NotStarted, Direct, Unsure
<1>3. QueueInv'
  BY DEF TypeOK, clientVars, requestVars, daemonVars, fileVars, QueueInv
<1>4. BornInv'
  BY DEF TypeOK, clientVars, requestVars, daemonVars, fileVars, BornInv
<1>5. HostsOnlyItsOwn'
  BY DEF TypeOK, clientVars, requestVars, daemonVars, fileVars, HostsOnlyItsOwn, Refused, ClientInv, PcInv, BornInv
<1>. QED BY <1>1, <1>2, <1>3, <1>4, <1>5

\* CleanStaleSocket
LEMMA CleanStaleSocketInv ==
  ASSUME IInv, NEW d \in Daemons, CleanStaleSocket(d)
  PROVE  IInv'
<1> USE ClientsAssumption, DaemonsAssumption DEF IInv, CleanStaleSocket
<1>1. TypeOK'
  BY DEF TypeOK, ClientPc, Reasons, ExecStage, Replies, DaemonPc, clientVars, requestVars, daemonVars, fileVars
<1>2. ClientInv'
  BY DEF TypeOK, ClientPc, Reasons, ExecStage, Replies, DaemonPc, clientVars, requestVars, daemonVars, fileVars,
         ClientInv, RunsInv, PcInv, WhyInv, ReplyInv, Started, Lost,
         NotStarted, Direct, Unsure
<1>3. QueueInv'
  BY DEF TypeOK, clientVars, requestVars, daemonVars, fileVars, QueueInv
<1>4. BornInv'
  BY DEF TypeOK, clientVars, requestVars, daemonVars, fileVars, BornInv
<1>5. HostsOnlyItsOwn'
  BY DEF TypeOK, clientVars, requestVars, daemonVars, fileVars, HostsOnlyItsOwn, Refused, ClientInv, PcInv, BornInv
<1>. QED BY <1>1, <1>2, <1>3, <1>4, <1>5

\* Listen
LEMMA ListenInv ==
  ASSUME IInv, NEW d \in Daemons, Listen(d)
  PROVE  IInv'
<1> USE ClientsAssumption, DaemonsAssumption DEF IInv, Listen
<1>1. TypeOK'
  BY DEF TypeOK, ClientPc, Reasons, ExecStage, Replies, DaemonPc, clientVars, requestVars, daemonVars, fileVars
<1>2. ClientInv'
  BY DEF TypeOK, ClientPc, Reasons, ExecStage, Replies, DaemonPc, clientVars, requestVars, daemonVars, fileVars,
         ClientInv, RunsInv, PcInv, WhyInv, ReplyInv, Started, Lost,
         NotStarted, Direct, Unsure
<1>3. QueueInv'
  BY DEF TypeOK, clientVars, requestVars, daemonVars, fileVars, QueueInv
<1>4. BornInv'
  BY DEF TypeOK, clientVars, requestVars, daemonVars, fileVars, BornInv
<1>5. HostsOnlyItsOwn'
  BY DEF TypeOK, clientVars, requestVars, daemonVars, fileVars, HostsOnlyItsOwn, Refused, ClientInv, PcInv, BornInv
<1>. QED BY <1>1, <1>2, <1>3, <1>4, <1>5

\* WritePidFile
LEMMA WritePidFileInv ==
  ASSUME IInv, NEW d \in Daemons, WritePidFile(d)
  PROVE  IInv'
<1> USE ClientsAssumption, DaemonsAssumption DEF IInv, WritePidFile
<1>1. TypeOK'
  BY DEF TypeOK, ClientPc, Reasons, ExecStage, Replies, DaemonPc, clientVars, requestVars, daemonVars, fileVars
<1>2. ClientInv'
  BY DEF TypeOK, ClientPc, Reasons, ExecStage, Replies, DaemonPc, clientVars, requestVars, daemonVars, fileVars,
         ClientInv, RunsInv, PcInv, WhyInv, ReplyInv, Started, Lost,
         NotStarted, Direct, Unsure
<1>3. QueueInv'
  BY DEF TypeOK, clientVars, requestVars, daemonVars, fileVars, QueueInv
<1>4. BornInv'
  BY DEF TypeOK, clientVars, requestVars, daemonVars, fileVars, BornInv
<1>5. HostsOnlyItsOwn'
  BY DEF TypeOK, clientVars, requestVars, daemonVars, fileVars, HostsOnlyItsOwn, Refused, ClientInv, PcInv, BornInv
<1>. QED BY <1>1, <1>2, <1>3, <1>4, <1>5

\* Pong
LEMMA PongInv ==
  ASSUME IInv, NEW d \in Daemons, NEW c \in Clients, Pong(d, c)
  PROVE  IInv'
<1> USE ClientsAssumption, DaemonsAssumption DEF IInv, Pong
<1>1. TypeOK'
  BY DEF TypeOK, ClientPc, Reasons, ExecStage, Replies, DaemonPc, clientVars, requestVars, daemonVars, fileVars
<1>2. ClientInv'
  BY DEF TypeOK, ClientPc, Reasons, ExecStage, Replies, DaemonPc, clientVars, requestVars, daemonVars, fileVars,
         ClientInv, RunsInv, PcInv, WhyInv, ReplyInv, Started, Lost,
         NotStarted, Direct, Unsure
<1>3. QueueInv'
  BY DEF TypeOK, clientVars, requestVars, daemonVars, fileVars, QueueInv
<1>4. BornInv'
  BY DEF TypeOK, clientVars, requestVars, daemonVars, fileVars, BornInv
<1>5. HostsOnlyItsOwn'
  BY DEF TypeOK, clientVars, requestVars, daemonVars, fileVars, HostsOnlyItsOwn, Refused, ClientInv, PcInv, BornInv
<1>. QED BY <1>1, <1>2, <1>3, <1>4, <1>5

\* ReceiveExec
LEMMA ReceiveExecInv ==
  ASSUME IInv, NEW d \in Daemons, NEW c \in Clients, ReceiveExec(d, c)
  PROVE  IInv'
<1> USE ClientsAssumption, DaemonsAssumption DEF IInv, ReceiveExec, RefuseLongRunning, Refused, Decline, Enqueue, Answer
<1>1. TypeOK'
  <2>1. Append(queue[d], c) \in Seq(Clients)
    BY DEF TypeOK
  <2>2. queue' \in [Daemons -> Seq(Clients)]
    BY <2>1 DEF TypeOK
  <2>3. /\ exec' \in [Clients -> ExecStage]
        /\ reply' \in [Clients -> Replies]
        /\ stopping' \in [Daemons -> BOOLEAN]
    BY DEF TypeOK, ExecStage, Replies
  <2>. QED BY <2>2, <2>3 DEF TypeOK, ClientPc, Reasons, ExecStage, Replies, DaemonPc,
         clientVars, requestVars, daemonVars, fileVars
<1>2. ClientInv'
  BY DEF TypeOK, ClientPc, Reasons, ExecStage, Replies, DaemonPc, clientVars, requestVars, daemonVars, fileVars,
         ClientInv, RunsInv, PcInv, WhyInv, ReplyInv, Started, Lost,
         NotStarted, Direct, Unsure
<1>3. QueueInv'
  <2>1. CASE UNCHANGED queue
    BY <2>1 DEF TypeOK, clientVars, QueueInv
  <2>2. CASE queue' = [queue EXCEPT ![d] = Append(queue[d], c)]
    <3>1. /\ exec' = [exec EXCEPT ![c] = "queued"]
          /\ UNCHANGED peer
      BY <2>2, AppendChanges DEF TypeOK, clientVars
    <3>2. /\ Len(queue'[d]) = Len(queue[d]) + 1
          /\ \A i \in 1..Len(queue[d]) : queue'[d][i] = queue[d][i]
          /\ queue'[d][Len(queue[d]) + 1] = c
          /\ \A e \in Daemons : e # d => queue'[e] = queue[e]
      BY <2>2 DEF TypeOK
    <3>3. \A e \in Daemons : \A i \in 1..Len(queue[e]) :
            /\ queue[e][i] \in Clients
            /\ queue[e][i] # c
      BY DEF TypeOK, QueueInv
    <3>4. \A i \in 1..Len(queue'[d]) : i \in 1..Len(queue[d]) \/ i = Len(queue[d]) + 1
      BY <3>2 DEF TypeOK
    <3>5. ASSUME NEW e \in Daemons, e # d, NEW i \in 1..Len(queue[e])
          PROVE  /\ exec'[queue'[e][i]] = "queued"
                 /\ peer'[queue'[e][i]] = e
                 /\ \A j \in 1..Len(queue[e]) :
                      queue'[e][i] = queue'[e][j] => i = j
      BY <3>1, <3>2, <3>3, <3>5 DEF QueueInv, TypeOK
    <3>6. ASSUME NEW i \in 1..Len(queue'[d])
          PROVE  /\ exec'[queue'[d][i]] = "queued"
                 /\ peer'[queue'[d][i]] = d
      <4>1. CASE i \in 1..Len(queue[d])
        <5>1. /\ queue'[d][i] = queue[d][i]
              /\ queue[d][i] \in Clients
              /\ queue[d][i] # c
          BY <4>1, <3>2, <3>3
        <5>2. exec[queue[d][i]] = "queued" /\ peer[queue[d][i]] = d
          BY <4>1 DEF QueueInv
        <5>. QED BY <5>1, <5>2, <3>1 DEF TypeOK
      <4>2. CASE i = Len(queue[d]) + 1
        BY <4>2, <3>1, <3>2 DEF TypeOK
      <4>. QED BY <4>1, <4>2, <3>4
    <3>7. ASSUME NEW i \in 1..Len(queue'[d]), NEW j \in 1..Len(queue'[d]),
                 queue'[d][i] = queue'[d][j]
          PROVE  i = j
      BY <3>7, <3>2, <3>3, <3>4 DEF QueueInv
    <3>. QED BY <3>2, <3>5, <3>6, <3>7 DEF QueueInv
  <2>. QED BY <2>1, <2>2
<1>4. BornInv'
  BY DEF TypeOK, clientVars, requestVars, daemonVars, fileVars, BornInv
<1>5. HostsOnlyItsOwn'
  BY DEF TypeOK, clientVars, requestVars, daemonVars, fileVars, HostsOnlyItsOwn, Refused, ClientInv, PcInv, BornInv
<1>. QED BY <1>1, <1>2, <1>3, <1>4, <1>5

\* StartDispatch
LEMMA StartDispatchInv ==
  ASSUME IInv, NEW d \in Daemons, StartDispatch(d)
  PROVE  IInv'
<1> USE ClientsAssumption, DaemonsAssumption DEF IInv, StartDispatch, NextUp
<1>0. /\ Head(queue[d]) \in Clients
      /\ exec[Head(queue[d])] = "queued"
      /\ peer[Head(queue[d])] = d
      /\ Tail(queue[d]) \in Seq(Clients)
  BY DEF TypeOK, QueueInv
<1>1. TypeOK'
  BY DEF TypeOK, ClientPc, Reasons, ExecStage, Replies, DaemonPc, clientVars, requestVars, daemonVars, fileVars
<1>2. ClientInv'
  <2> DEFINE h == Head(queue[d])
  <2>1. SUFFICES ASSUME NEW x \in Clients
                 PROVE  (RunsInv(x) /\ PcInv(x) /\ WhyInv(x) /\ ReplyInv(x))'
    BY DEF ClientInv
  <2>2. CASE x # h
    BY <1>0, <2>2 DEF TypeOK, ClientPc, Reasons, ExecStage, Replies, DaemonPc,
         clientVars, requestVars, daemonVars, fileVars,
         ClientInv, RunsInv, PcInv, WhyInv, ReplyInv, Started, Lost,
         NotStarted, Direct, Unsure
  <2>3. CASE x = h
    BY <1>0, <2>3 DEF TypeOK, ClientPc, Reasons, ExecStage, Replies, DaemonPc,
         clientVars, requestVars, daemonVars, fileVars,
         ClientInv, RunsInv, PcInv, WhyInv, ReplyInv, Started, Lost,
         NotStarted, Direct, Unsure
  <2>. QED BY <2>2, <2>3
<1>3. QueueInv'
  BY DEF TypeOK, clientVars, requestVars, daemonVars, fileVars, QueueInv
<1>4. BornInv'
  BY DEF TypeOK, clientVars, requestVars, daemonVars, fileVars, BornInv
<1>5. HostsOnlyItsOwn'
  BY <1>0 DEF TypeOK, clientVars, requestVars, daemonVars, fileVars, HostsOnlyItsOwn, Refused, ClientInv, PcInv, BornInv
<1>. QED BY <1>1, <1>2, <1>3, <1>4, <1>5

\* RejectDispatch
LEMMA RejectDispatchInv ==
  ASSUME IInv, NEW d \in Daemons, RejectDispatch(d)
  PROVE  IInv'
<1> USE ClientsAssumption, DaemonsAssumption DEF IInv, RejectDispatch, NextUp, Decline, Answer
<1>0. /\ Head(queue[d]) \in Clients
      /\ exec[Head(queue[d])] = "queued"
      /\ peer[Head(queue[d])] = d
      /\ Tail(queue[d]) \in Seq(Clients)
  BY DEF TypeOK, QueueInv
<1>1. TypeOK'
  BY DEF TypeOK, ClientPc, Reasons, ExecStage, Replies, DaemonPc, clientVars, requestVars, daemonVars, fileVars
<1>2. ClientInv'
  <2> DEFINE h == Head(queue[d])
  <2>1. SUFFICES ASSUME NEW x \in Clients
                 PROVE  (RunsInv(x) /\ PcInv(x) /\ WhyInv(x) /\ ReplyInv(x))'
    BY DEF ClientInv
  <2>2. CASE x # h
    BY <1>0, <2>2 DEF TypeOK, ClientPc, Reasons, ExecStage, Replies, DaemonPc,
         clientVars, requestVars, daemonVars, fileVars,
         ClientInv, RunsInv, PcInv, WhyInv, ReplyInv, Started, Lost,
         NotStarted, Direct, Unsure
  <2>3. CASE x = h
    <3>1. /\ exec'[x] = "declined"
          /\ reply'[x] = IF pc[x] = "waiting" THEN "internal" ELSE reply[x]
          /\ UNCHANGED <<pc, why, peer, runs>>
      BY <1>0, <2>3 DEF TypeOK, clientVars
    <3>2. RunsInv(x) /\ PcInv(x) /\ WhyInv(x) /\ ReplyInv(x)
      BY DEF ClientInv
    <3>3. RunsInv(x)' /\ PcInv(x)'
      BY <3>1, <3>2, <2>3, <1>0 DEF RunsInv, PcInv, Started, Lost, NotStarted, Direct
    <3>4. WhyInv(x)' /\ ReplyInv(x)'
      BY <3>1, <3>2, <2>3, <1>0 DEF WhyInv, ReplyInv, PcInv
    <3>. QED BY <3>3, <3>4, <2>3
  <2>. QED BY <2>2, <2>3
<1>3. QueueInv'
  BY DEF TypeOK, clientVars, requestVars, daemonVars, fileVars, QueueInv
<1>4. BornInv'
  BY DEF TypeOK, clientVars, requestVars, daemonVars, fileVars, BornInv
<1>5. HostsOnlyItsOwn'
  BY DEF TypeOK, clientVars, requestVars, daemonVars, fileVars, HostsOnlyItsOwn, Refused, ClientInv, PcInv, BornInv
<1>. QED BY <1>1, <1>2, <1>3, <1>4, <1>5

\* EndDispatch
LEMMA EndDispatchInv ==
  ASSUME IInv, NEW d \in Daemons, NEW c \in Clients, EndDispatch(d, c)
  PROVE  IInv'
<1> USE ClientsAssumption, DaemonsAssumption DEF IInv, EndDispatch, Running, Answer
<1>1. TypeOK'
  BY DEF TypeOK, ClientPc, Reasons, ExecStage, Replies, DaemonPc, clientVars, requestVars, daemonVars, fileVars
<1>2. ClientInv'
  BY DEF TypeOK, ClientPc, Reasons, ExecStage, Replies, DaemonPc, clientVars, requestVars, daemonVars, fileVars,
         ClientInv, RunsInv, PcInv, WhyInv, ReplyInv, Started, Lost,
         NotStarted, Direct, Unsure
<1>3. QueueInv'
  BY DEF TypeOK, clientVars, requestVars, daemonVars, fileVars, QueueInv
<1>4. BornInv'
  BY DEF TypeOK, clientVars, requestVars, daemonVars, fileVars, BornInv
<1>5. HostsOnlyItsOwn'
  BY DEF TypeOK, clientVars, requestVars, daemonVars, fileVars, HostsOnlyItsOwn, Refused, ClientInv, PcInv, BornInv
<1>. QED BY <1>1, <1>2, <1>3, <1>4, <1>5

\* DispatchTimeout
LEMMA DispatchTimeoutInv ==
  ASSUME IInv, NEW d \in Daemons, NEW c \in Clients, DispatchTimeout(d, c)
  PROVE  IInv'
<1> USE ClientsAssumption, DaemonsAssumption DEF IInv, DispatchTimeout, Running, Answer
<1>1. TypeOK'
  BY DEF TypeOK, ClientPc, Reasons, ExecStage, Replies, DaemonPc, clientVars, requestVars, daemonVars, fileVars
<1>2. ClientInv'
  BY DEF TypeOK, ClientPc, Reasons, ExecStage, Replies, DaemonPc, clientVars, requestVars, daemonVars, fileVars,
         ClientInv, RunsInv, PcInv, WhyInv, ReplyInv, Started, Lost,
         NotStarted, Direct, Unsure
<1>3. QueueInv'
  BY DEF TypeOK, clientVars, requestVars, daemonVars, fileVars, QueueInv
<1>4. BornInv'
  BY DEF TypeOK, clientVars, requestVars, daemonVars, fileVars, BornInv
<1>5. HostsOnlyItsOwn'
  BY DEF TypeOK, clientVars, requestVars, daemonVars, fileVars, HostsOnlyItsOwn, Refused, ClientInv, PcInv, BornInv
<1>. QED BY <1>1, <1>2, <1>3, <1>4, <1>5

\* ShutDown
LEMMA ShutDownInv ==
  ASSUME IInv, NEW d \in Daemons, ShutDown(d)
  PROVE  IInv'
<1> USE ClientsAssumption, DaemonsAssumption DEF IInv, ShutDown
<1>1. TypeOK'
  BY DieType DEF TypeOK, ClientPc, Reasons, ExecStage, Replies, DaemonPc, clientVars, requestVars, daemonVars, fileVars
<1>2. ClientInv'
  BY DEF Die, TypeOK, ClientPc, Reasons, ExecStage, Replies, DaemonPc, clientVars, requestVars, daemonVars, fileVars,
         ClientInv, RunsInv, PcInv, WhyInv, ReplyInv, Started, Lost,
         NotStarted, Direct, Unsure
<1>3. QueueInv'
  BY EmptyQueue DEF Die, TypeOK, clientVars, requestVars, daemonVars, fileVars, QueueInv
<1>4. BornInv'
  BY DEF Die, TypeOK, clientVars, requestVars, daemonVars, fileVars, BornInv
<1>5. HostsOnlyItsOwn'
  BY DEF Die, TypeOK, clientVars, requestVars, daemonVars, fileVars, HostsOnlyItsOwn, Refused, ClientInv, PcInv, BornInv
<1>. QED BY <1>1, <1>2, <1>3, <1>4, <1>5

\* Crash
LEMMA CrashInv ==
  ASSUME IInv, NEW d \in Daemons, Crash(d)
  PROVE  IInv'
<1> USE ClientsAssumption, DaemonsAssumption DEF IInv, Crash
<1>1. TypeOK'
  BY DieType DEF TypeOK, ClientPc, Reasons, ExecStage, Replies, DaemonPc, clientVars, requestVars, daemonVars, fileVars
<1>2. ClientInv'
  BY DEF Die, TypeOK, ClientPc, Reasons, ExecStage, Replies, DaemonPc, clientVars, requestVars, daemonVars, fileVars,
         ClientInv, RunsInv, PcInv, WhyInv, ReplyInv, Started, Lost,
         NotStarted, Direct, Unsure
<1>3. QueueInv'
  BY EmptyQueue DEF Die, TypeOK, clientVars, requestVars, daemonVars, fileVars, QueueInv
<1>4. BornInv'
  BY DEF Die, TypeOK, clientVars, requestVars, daemonVars, fileVars, BornInv
<1>5. HostsOnlyItsOwn'
  BY DEF Die, TypeOK, clientVars, requestVars, daemonVars, fileVars, HostsOnlyItsOwn, Refused, ClientInv, PcInv, BornInv
<1>. QED BY <1>1, <1>2, <1>3, <1>4, <1>5

\* StartCommand
LEMMA StartCommandInv ==
  ASSUME IInv, NEW v \in Versions, StartCommand(v)
  PROVE  IInv'
<1> USE ClientsAssumption, DaemonsAssumption DEF IInv, StartCommand
<1>1. TypeOK'
  BY SpawnFacts DEF TypeOK, ClientPc, Reasons, ExecStage, Replies, DaemonPc,
         clientVars, requestVars, daemonVars, fileVars
<1>2. ClientInv'
  BY SpawnFacts DEF TypeOK, clientVars, requestVars,
         ClientInv, RunsInv, PcInv, WhyInv, ReplyInv, Started, Lost,
         NotStarted, Direct, Unsure
<1>3. QueueInv'
  BY DEF TypeOK, clientVars, requestVars, daemonVars, QueueInv
<1>4. BornInv' /\ HostsOnlyItsOwn'
  BY SpawnFacts DEF TypeOK, clientVars, requestVars, daemonVars, fileVars, BornInv,
         HostsOnlyItsOwn, Refused, ClientInv, PcInv
<1>. QED BY <1>1, <1>2, <1>3, <1>4

\* StopCommand
LEMMA StopCommandInv ==
  ASSUME IInv, StopCommand
  PROVE  IInv'
<1> USE ClientsAssumption, DaemonsAssumption DEF IInv, StopCommand, Serving
<1>1. TypeOK'
  BY DEF TypeOK, ClientPc, Reasons, ExecStage, Replies, DaemonPc,
         clientVars, requestVars, daemonVars, fileVars
<1>2. ClientInv'
  BY DEF TypeOK, clientVars, requestVars,
         ClientInv, RunsInv, PcInv, WhyInv, ReplyInv, Started, Lost,
         NotStarted, Direct, Unsure
<1>3. QueueInv'
  BY DEF TypeOK, clientVars, requestVars, daemonVars, QueueInv
<1>4. BornInv' /\ HostsOnlyItsOwn'
  BY DEF TypeOK, clientVars, requestVars, daemonVars, fileVars, BornInv,
         HostsOnlyItsOwn, Refused, ClientInv, PcInv
<1>. QED BY <1>1, <1>2, <1>3, <1>4

\* ResetDaemonState
LEMMA ResetDaemonStateInv ==
  ASSUME IInv, NEW found \in SUBSET Daemons, ResetDaemonState(found)
  PROVE  IInv'
<1> USE ClientsAssumption, DaemonsAssumption DEF IInv, ResetDaemonState
<1>1. stopping' \in [Daemons -> BOOLEAN]
  BY Zenon DEF TypeOK
<1>2. TypeOK'
  BY <1>1 DEF TypeOK, ClientPc, Reasons, ExecStage, Replies, DaemonPc,
         clientVars, requestVars, daemonVars, fileVars
<1>3. ClientInv'
  BY DEF TypeOK, clientVars, requestVars,
         ClientInv, RunsInv, PcInv, WhyInv, ReplyInv, Started, Lost,
         NotStarted, Direct, Unsure
<1>4. QueueInv'
  BY DEF TypeOK, clientVars, requestVars, daemonVars, QueueInv
<1>5. BornInv' /\ HostsOnlyItsOwn'
  BY DEF TypeOK, clientVars, requestVars, daemonVars, fileVars, BornInv,
         HostsOnlyItsOwn, Refused, ClientInv, PcInv
<1>. QED BY <1>2, <1>3, <1>4, <1>5

\* BreakerExpires
LEMMA BreakerExpiresInv ==
  ASSUME IInv, BreakerExpires
  PROVE  IInv'
<1> USE ClientsAssumption, DaemonsAssumption DEF IInv, BreakerExpires
<1>1. TypeOK'
  BY DEF TypeOK, ClientPc, Reasons, ExecStage, Replies, DaemonPc,
         clientVars, requestVars, daemonVars, fileVars
<1>2. ClientInv'
  BY DEF TypeOK, clientVars, requestVars,
         ClientInv, RunsInv, PcInv, WhyInv, ReplyInv, Started, Lost,
         NotStarted, Direct, Unsure
<1>3. QueueInv'
  BY DEF TypeOK, clientVars, requestVars, daemonVars, QueueInv
<1>4. BornInv' /\ HostsOnlyItsOwn'
  BY DEF TypeOK, clientVars, requestVars, daemonVars, fileVars, BornInv,
         HostsOnlyItsOwn, Refused, ClientInv, PcInv
<1>. QED BY <1>1, <1>2, <1>3, <1>4

\* Stutter
LEMMA StutterInv ==
  ASSUME IInv, UNCHANGED vars
  PROVE  IInv'
<1> USE ClientsAssumption, DaemonsAssumption DEF IInv, vars
<1>1. TypeOK'
  BY DEF TypeOK, ClientPc, Reasons, ExecStage, Replies, DaemonPc,
         clientVars, requestVars, daemonVars, fileVars
<1>2. ClientInv'
  BY DEF TypeOK, clientVars, requestVars,
         ClientInv, RunsInv, PcInv, WhyInv, ReplyInv, Started, Lost,
         NotStarted, Direct, Unsure
<1>3. QueueInv'
  BY DEF TypeOK, clientVars, requestVars, daemonVars, QueueInv
<1>4. BornInv' /\ HostsOnlyItsOwn'
  BY DEF TypeOK, clientVars, requestVars, daemonVars, fileVars, BornInv,
         HostsOnlyItsOwn, Refused, ClientInv, PcInv
<1>. QED BY <1>1, <1>2, <1>3, <1>4

-----------------------------------------------------------------------------
\* Every step of every client, daemon and operator preserves the invariant.
LEMMA NextInv == IInv /\ [Next]_vars => IInv'
<1> SUFFICES ASSUME IInv, [Next]_vars PROVE IInv'
  OBVIOUS
<1>1. ASSUME NEW c \in Clients, ClientStep(c) PROVE IInv'
  BY <1>1, InvokeInv, BypassInv, ReadBreakerInv, ProbeSocketInv, ConnectPingInv,
     TakePongInv, PingFailsInv, KillInv, UnlinkInv, ConnectExecInv,
     ConnectTimeoutInv, TakeReplyInv, ResponseTimeoutInv, ConnectionResetInv,
     RunDirectlyInv DEF ClientStep
<1>2. ASSUME NEW d \in Daemons, ServeStep(d) PROVE IInv'
  BY <1>2, CleanStaleSocketInv, ListenInv, WritePidFileInv, PongInv,
     ReceiveExecInv, EndDispatchInv, DispatchTimeoutInv, StartDispatchInv,
     RejectDispatchInv DEF ServeStep
<1>3. ASSUME NEW d \in Daemons, StopStep(d) PROVE IInv'
  BY <1>3, ShutDownInv, CrashInv
  DEF StopStep, TimedShutdown, IdleShutdown, Signal
<1>4. ASSUME OperatorStep PROVE IInv'
  BY <1>4, StartCommandInv, StopCommandInv, ResetDaemonStateInv, BreakerExpiresInv
  DEF OperatorStep
<1>5. CASE UNCHANGED vars
  BY <1>5, StutterInv
<1>. QED BY <1>1, <1>2, <1>3, <1>4, <1>5 DEF Next

\* The invariant holds in every reachable state.
THEOREM Invariance == Spec => []IInv
  BY InitInv, NextInv, PTL DEF Spec

\* Every variable of the client, the daemon and the shared files keeps its
\* type, and HostsOnlyItsOwn holds: no daemon takes a command of another CLI
\* version, or one that would never return, into its queue.
THEOREM DaemonHostsOnlyItsOwn == Spec => [](TypeOK /\ HostsOnlyItsOwn)
<1>1. IInv => TypeOK /\ HostsOnlyItsOwn
  BY DEF IInv
<1>. QED BY <1>1, Invariance, PTL

-----------------------------------------------------------------------------
(* A daemon's queue and what it runs. *)

\* One dispatch at a time, and who has been accepted has a place.
SerialInv ==
  /\ \A d \in Daemons : \A x, y \in Running(d) : x = y
  /\ \A c \in Clients : exec[c] = "queued" => \E i \in 1..Len(queue[peer[c]]) : queue[peer[c]][i] = c

\* A step that neither accepts a request nor takes one from a queue.
LEMMA SerialKept ==
  ASSUME SerialInv,
         \A c \in Clients : exec'[c] = "running" => exec[c] = "running" /\ peer'[c] = peer[c],
         \A c \in Clients : exec'[c] = "queued" =>
           exec[c] = "queued" /\ peer'[c] = peer[c] /\ queue'[peer[c]] = queue[peer[c]]
  PROVE  SerialInv'
  BY DEF SerialInv, Running

\* The death of a daemon ends what it ran and what waited for it.
LEMMA DieSerial ==
  ASSUME IInv, SerialInv, NEW d \in Daemons, Die(d), peer' = peer
  PROVE  SerialInv'
<1>1. \A c \in Clients : exec'[c] \in {"running", "queued"} => exec'[c] = exec[c] /\ peer[c] # d
  BY DEF Die, IInv, TypeOK
<1>2. \A e \in Daemons : e # d => queue'[e] = queue[e]
  BY DEF Die, IInv, TypeOK
<1>3. \A c \in Clients : exec[c] # "none" => peer[c] \in Daemons
  BY DEF IInv, TypeOK, ClientInv, PcInv
<1>. QED BY <1>1, <1>2, <1>3, SerialKept

\* A client's step accepts nothing and starts nothing at a daemon.
LEMMA ClientSerial ==
  ASSUME IInv, SerialInv, NEW c \in Clients, ClientStep(c)
  PROVE  SerialInv'
<1>1. /\ pc[c] \in {"ping", "attempt"} => exec[c] = "none"
      /\ peer \in [Clients -> Daemons \cup {None}] /\ exec \in [Clients -> ExecStage]
  BY DEF IInv, TypeOK, ClientInv, PcInv
<1>2. CASE Kill(c) /\ exec' # exec
  <2>1. target[c] \in Daemons /\ Die(target[c]) /\ peer' = peer
    BY <1>2 DEF Kill, IInv, TypeOK
  <2>. QED BY <2>1, DieSerial
<1>3. CASE Kill(c) /\ exec' = exec
  <2>1. \/ queue' = queue /\ peer' = peer
        \/ target[c] \in Daemons /\ Die(target[c]) /\ peer' = peer
    BY <1>3 DEF Kill, IInv, TypeOK
  <2>. QED BY <1>3, <2>1, DieSerial, SerialKept
<1>4. CASE ~Kill(c) /\ ~ConnectPing(c) /\ ~ConnectExec(c)
  <2>1. UNCHANGED <<exec, queue, peer>>
    BY <1>4 DEF ClientStep, Invoke, Bypass, ReadBreaker, ProbeSocket, TakePong, PingFails, Unlink, ConnectTimeout,
       TakeReply, ResponseTimeout, GiveUpWaiting, ConnectionReset, RunDirectly, Spawn,
       clientVars, requestVars, daemonVars, fileVars
  <2>. QED BY <2>1, SerialKept
<1>5. CASE ConnectPing(c) \/ ConnectExec(c)
  <2>1. /\ queue' = queue /\ exec[c] = "none" /\ exec'[c] \in {"none", "sent"}
        /\ \A x \in Clients \ {c} : exec'[x] = exec[x] /\ peer'[x] = peer[x]
    BY <1>1, <1>5 DEF ConnectPing, ConnectExec, requestVars, daemonVars
  <2>. QED BY <2>1, SerialKept
<1>. QED BY <1>2, <1>3, <1>4, <1>5

\* A request that is accepted takes the last place.
LEMMA ReceiveSerial ==
  ASSUME IInv, SerialInv, NEW d \in Daemons, NEW c \in Clients, ReceiveExec(d, c)
  PROVE  SerialInv'
<1>1. /\ exec \in [Clients -> ExecStage] /\ queue \in [Daemons -> Seq(Clients)]
      /\ exec[c] = "sent" /\ peer[c] = d /\ peer' = peer
      /\ \A x \in Clients : exec[x] # "none" => peer[x] \in Daemons
  BY DEF ReceiveExec, clientVars, IInv, TypeOK, ClientInv, PcInv
<1>2. CASE queue' = queue /\ exec' = [exec EXCEPT ![c] = "declined"]
  BY <1>1, <1>2, SerialKept
<1>3. CASE Enqueue(d, c)
  <2>1. /\ exec' = [exec EXCEPT ![c] = "queued"]
        /\ Len(queue'[d]) = Len(queue[d]) + 1 /\ Len(queue[d]) \in Nat
        /\ \A i \in 1..Len(queue[d]) : queue'[d][i] = queue[d][i]
        /\ queue'[d][Len(queue[d]) + 1] = c
        /\ \A e \in Daemons : e # d => queue'[e] = queue[e]
    BY <1>1, <1>3 DEF Enqueue
  <2>2. \A e \in Daemons : Running(e)' = Running(e)
    BY <1>1, <2>1 DEF Running
  <2>3. ASSUME NEW x \in Clients, exec'[x] = "queued"
        PROVE  \E i \in 1..Len(queue'[peer[x]]) : queue'[peer[x]][i] = x
    <3>1. CASE x = c
      BY <1>1, <2>1, <3>1
    <3>2. CASE x # c
      <4>1. exec[x] = "queued" /\ peer[x] \in Daemons
        BY <1>1, <2>1, <2>3, <3>2
      <4>2. PICK i \in 1..Len(queue[peer[x]]) : queue[peer[x]][i] = x
        BY <4>1 DEF SerialInv
      <4>3. i \in 1..Len(queue'[peer[x]]) /\ queue'[peer[x]][i] = x
        BY <2>1, <4>1, <4>2
      <4>. QED BY <4>3
    <3>. QED BY <3>1, <3>2
  <2>. QED BY <1>1, <2>2, <2>3 DEF SerialInv
<1>. QED BY <1>2, <1>3 DEF ReceiveExec, RefuseLongRunning, Decline

\* The head leaves a queue, and runs only where nothing else does.
LEMMA HeadSerial ==
  ASSUME IInv, SerialInv, NEW d \in Daemons, StartDispatch(d) \/ RejectDispatch(d)
  PROVE  SerialInv'
<1> DEFINE h == Head(queue[d])
<1>1. /\ exec \in [Clients -> ExecStage] /\ queue \in [Daemons -> Seq(Clients)]
      /\ \A x \in Clients : exec[x] # "none" => peer[x] \in Daemons
  BY DEF IInv, TypeOK, ClientInv, PcInv
<1>2. /\ queue[d] # <<>> /\ Running(d) = {} /\ peer' = peer
      /\ queue' = [queue EXCEPT ![d] = Tail(@)]
      /\ exec' = [exec EXCEPT ![h] = "running"] \/ exec' = [exec EXCEPT ![h] = "declined"]
  BY DEF StartDispatch, RejectDispatch, NextUp, Decline, clientVars
<1>3. /\ h \in Clients /\ h = queue[d][1] /\ Len(queue[d]) \in Nat \ {0} /\ peer[h] = d
      /\ Len(queue'[d]) = Len(queue[d]) - 1
      /\ \A i \in 1..(Len(queue[d]) - 1) : queue'[d][i] = queue[d][i + 1]
      /\ \A e \in Daemons : e # d => queue'[e] = queue[e]
  BY <1>1, <1>2 DEF IInv, QueueInv
<1>4. \A e \in Daemons : \A x, y \in Running(e)' : x = y
  BY <1>1, <1>2, <1>3 DEF SerialInv, Running
<1>5. ASSUME NEW x \in Clients, exec'[x] = "queued"
      PROVE  \E i \in 1..Len(queue'[peer[x]]) : queue'[peer[x]][i] = x
  <2>1. x # h /\ exec[x] = "queued" /\ peer[x] \in Daemons
    BY <1>1, <1>2, <1>3, <1>5
  <2>2. PICK i \in 1..Len(queue[peer[x]]) : queue[peer[x]][i] = x
    BY <2>1 DEF SerialInv
  <2>3. CASE peer[x] # d
    BY <1>3, <2>1, <2>2, <2>3
  <2>4. CASE peer[x] = d
    <3>1. i - 1 \in 1..(Len(queue[d]) - 1)
      BY <1>3, <2>1, <2>2, <2>4
    <3>2. queue'[d][i - 1] = x
      BY <1>3, <2>2, <2>4, <3>1
    <3>. QED BY <1>3, <2>4, <3>1, <3>2
  <2>. QED BY <2>3, <2>4
<1>. QED BY <1>2, <1>4, <1>5 DEF SerialInv

\* Every step keeps the queues in order.
LEMMA SerialStep ==
  ASSUME IInv, SerialInv, [Next]_vars
  PROVE  SerialInv'
<1>1. ASSUME NEW c \in Clients, ClientStep(c) PROVE SerialInv'
  BY <1>1, ClientSerial
<1>2. ASSUME NEW d \in Daemons, ServeStep(d) PROVE SerialInv'
  <2>1. CASE CleanStaleSocket(d) \/ Listen(d) \/ WritePidFile(d) \/ \E c \in Clients : Pong(d, c)
    <3>1. UNCHANGED <<exec, queue, peer>>
      BY <2>1 DEF CleanStaleSocket, Listen, WritePidFile, Pong, clientVars, requestVars, daemonVars
    <3>. QED BY <3>1, SerialKept
  <2>2. ASSUME NEW c \in Clients, EndDispatch(d, c) \/ DispatchTimeout(d, c)
        PROVE  SerialInv'
    <3>1. /\ UNCHANGED <<queue, peer>>
          /\ \A x \in Clients : exec'[x] \in {"running", "queued"} => exec'[x] = exec[x]
      BY <2>2 DEF EndDispatch, DispatchTimeout, clientVars, daemonVars, IInv, TypeOK
    <3>. QED BY <3>1, SerialKept
  <2>3. ASSUME NEW c \in Clients, ReceiveExec(d, c)
        PROVE  SerialInv'
    BY <2>3, ReceiveSerial
  <2>4. CASE StartDispatch(d) \/ RejectDispatch(d)
    BY <2>4, HeadSerial
  <2>. QED BY <1>2, <2>1, <2>2, <2>3, <2>4 DEF ServeStep
<1>3. ASSUME NEW d \in Daemons, StopStep(d) PROVE SerialInv'
  <2>1. Die(d) /\ peer' = peer
    BY <1>3 DEF StopStep, TimedShutdown, IdleShutdown, Signal, ShutDown, Crash, clientVars
  <2>. QED BY <2>1, DieSerial
<1>4. CASE OperatorStep \/ UNCHANGED vars
  <2>1. UNCHANGED <<exec, queue, peer>>
    BY <1>4 DEF OperatorStep, StartCommand, StopCommand, ResetDaemonState, BreakerExpires,
       vars, clientVars, requestVars, daemonVars
  <2>. QED BY <2>1, SerialKept
<1>. QED BY <1>1, <1>2, <1>3, <1>4 DEF Next

\* A daemon dispatches one request at a time, and a request that it accepted is
\* in its queue once, and in no other.
THEOREM QueuesAreExact == Spec => []QueueIsExact
<1>1. Init => SerialInv
  BY DEF Init, SerialInv, Running
<1>2. ASSUME IInv, SerialInv
      PROVE  QueueIsExact
  <2>1. ASSUME NEW d \in Daemons
        PROVE  Cardinality(Running(d)) <= 1
    <3>1. CASE Running(d) = {}
      BY <3>1, FS_EmptySet
    <3>2. CASE Running(d) # {}
      <4>1. PICK x : x \in Running(d)
        BY <3>2
      <4>2. \A y \in Running(d) : y = x
        BY <1>2, <4>1 DEF SerialInv
      <4>3. Running(d) = {x}
        BY <4>1, <4>2
      <4>4. Cardinality(Running(d)) = 1
        BY <4>3, FS_Singleton
      <4>. QED BY <4>4
    <3>. QED BY <3>1, <3>2
  <2>2. ASSUME NEW c \in Clients, NEW d \in Daemons
        PROVE  Cardinality({i \in 1..Len(queue[d]) : queue[d][i] = c})
                 = IF exec[c] = "queued" /\ peer[c] = d THEN 1 ELSE 0
    <3> DEFINE Places == {i \in 1..Len(queue[d]) : queue[d][i] = c}
    <3>1. CASE exec[c] = "queued" /\ peer[c] = d
      <4>1. PICK i \in 1..Len(queue[d]) : queue[d][i] = c
        BY <1>2, <3>1 DEF SerialInv
      <4>2. Places = {i}
        BY <1>2, <4>1 DEF IInv, QueueInv
      <4>. QED BY <3>1, <4>2, FS_Singleton
    <3>2. CASE ~(exec[c] = "queued" /\ peer[c] = d)
      <4>1. Places = {}
        BY <1>2, <3>2 DEF IInv, QueueInv
      <4>. QED BY <3>2, <4>1, FS_EmptySet
    <3>. QED BY <3>1, <3>2
  <2>. QED BY <2>1, <2>2 DEF QueueIsExact
<1>. QED BY InitInv, NextInv, SerialStep, <1>1, <1>2, PTL DEF Spec

\* What is known of the runs of a command and of why its client ended is enough
\* for ExactlyOnceUnlessUnsure.
LEMMA InvGivesExactlyOnce == IInv => ExactlyOnceUnlessUnsure
<1> SUFFICES ASSUME IInv, NEW c \in Clients, pc[c] = "done"
             PROVE  /\ runs[c] \in {1, 2}
                    /\ why[c] \notin Unsure => runs[c] = 1
  BY DEF ExactlyOnceUnlessUnsure
<1>1. RunsInv(c) /\ WhyInv(c) /\ why[c] \in Reasons /\ exec[c] \in ExecStage
  BY DEF IInv, ClientInv, TypeOK
<1>2. CASE why[c] = "served"
  BY <1>1, <1>2 DEF RunsInv, WhyInv, Direct, Started, Unsure
<1>3. CASE why[c] \in Unsure
  BY <1>1, <1>3 DEF RunsInv, Direct, Started, Lost, NotStarted, Unsure
<1>4. CASE why[c] \notin Unsure \cup {"served"}
  BY <1>1, <1>4
  DEF RunsInv, WhyInv, Direct, Started, Lost, NotStarted, Unsure, Reasons
<1>. QED BY <1>2, <1>3, <1>4

\* ExactlyOnceUnlessUnsure: when an invocation returns, its command has run,
\* and it has run once unless the client gave up on a request that a daemon
\* already held (response timeout, or an "internal" reply).
THEOREM ExactlyOnce == Spec => []ExactlyOnceUnlessUnsure
  BY Invariance, InvGivesExactlyOnce, PTL

-----------------------------------------------------------------------------
(* Refinement of CommandService.  A step that changes neither runs nor what *)
(* an invocation looks like from outside is a stuttering step of it.        *)

\* A step that changes neither a command's runs nor how its invocation looks from
\* outside is none of the abstract service's.
LEMMA HiddenStep ==
  ASSUME UNCHANGED runs, \A c \in Clients : Status(c)' = Status(c)
  PROVE  UNCHANGED Service!vars
  BY DEF Service!vars

\* The first states are first states of the abstract service.
LEMMA InitImplements == Init => Service!Init
  BY DEF Init, Service!Init, Status

\* Invoke opens the invocation.
LEMMA InvokeImplements ==
  ASSUME IInv, NEW c \in Clients, Invoke(c)
  PROVE  Service!Open(c)
<1>1. /\ pc[c] = "idle" /\ pc'[c] = "breaker"
      /\ \A x \in Clients : x # c => pc'[x] = pc[x] /\ why'[x] = why[x]
      /\ UNCHANGED runs
  BY DEF IInv, TypeOK, Invoke, Goto, requestVars
<1>. QED BY <1>1 DEF Service!Open, Status

\* So does a command that goes past the daemon.
LEMMA BypassImplements ==
  ASSUME IInv, NEW c \in Clients, Bypass(c)
  PROVE  Service!Open(c)
<1>1. /\ pc[c] = "idle" /\ pc'[c] = "direct"
      /\ \A x \in Clients : x # c => pc'[x] = pc[x] /\ why'[x] = why[x]
      /\ UNCHANGED runs
  BY DEF IInv, TypeOK, Bypass, RunDirectlyBecause, Goto, requestVars
<1>. QED BY <1>1 DEF Service!Open, Status

\* The step ends the open invocation c with certainty.
Settled(c) ==
  /\ Status(c) = "open"
  /\ [x \in Clients |-> Status(x)]' =
       [[x \in Clients |-> Status(x)] EXCEPT ![c] = "settled"]

\* A reply "ok" settles the invocation: the daemon has run the command once.
LEMMA TakeReplyImplements ==
  ASSUME IInv, NEW c \in Clients, TakeReply(c)
  PROVE  Service!Settle(c) \/ UNCHANGED Service!vars
<1>1. /\ pc[c] = "waiting"
      /\ pc'[c] \in {"done", "kill", "direct"}
      /\ \A x \in Clients : x # c => pc'[x] = pc[x] /\ why'[x] = why[x]
      /\ UNCHANGED runs
  BY DEF IInv, TypeOK, TakeReply, TakeOk, TakeInternal, KillBecause,
         RunDirectlyBecause, Goto
<1>2. CASE pc'[c] = "done"
  <2>1. reply[c] = "ok" /\ why'[c] = "served"
    BY <1>2 DEF IInv, TypeOK, TakeReply, TakeOk, TakeInternal, KillBecause,
         RunDirectlyBecause, Goto
  <2>2. runs[c] = 1
    BY <1>1, <2>1
    DEF IInv, ClientInv, ReplyInv, RunsInv, Started, Direct
  <2>3. runs' = [runs EXCEPT ![c] = 1]
    BY <1>1, <2>2 DEF IInv, TypeOK
  <2>4. Settled(c)
    BY <1>1, <1>2, <2>1 DEF Settled, Status, Unsure
  <2>. QED BY <2>2, <2>3, <2>4 DEF Service!Settle, Settled
<1>3. CASE pc'[c] # "done"
  BY <1>1, <1>3, HiddenStep DEF Status
<1>. QED BY <1>2, <1>3

\* Running the command directly ends the invocation, certain or not.
LEMMA RunDirectlyImplements ==
  ASSUME IInv, NEW c \in Clients, RunDirectly(c)
  PROVE  Service!Settle(c) \/ Service!RunAnyway(c)
<1>1. /\ pc[c] = "direct" /\ pc'[c] = "done"
      /\ \A x \in Clients : x # c => pc'[x] = pc[x]
      /\ runs' = [runs EXCEPT ![c] = @ + 1]
      /\ UNCHANGED why
  BY DEF IInv, TypeOK, RunDirectly, Goto
<1>2. RunsInv(c) /\ WhyInv(c) /\ why[c] \in Reasons /\ exec[c] \in ExecStage
      /\ runs[c] \in Nat
  BY DEF IInv, ClientInv, TypeOK
<1>3. CASE why[c] \in Unsure
  <2>1. runs[c] < 2
    BY <1>1, <1>2 DEF RunsInv, Direct, Started, Lost, NotStarted
  <2>. QED BY <1>1, <1>3, <2>1 DEF Service!RunAnyway, Status
<1>4. CASE why[c] \notin Unsure
  <2>1. runs[c] = 0
    BY <1>1, <1>2, <1>4
    DEF RunsInv, WhyInv, Direct, Started, Lost, NotStarted, Unsure, Reasons
  <2>2. runs' = [runs EXCEPT ![c] = 1]
    BY <1>1, <2>1
  <2>3. Settled(c)
    BY <1>1, <1>4 DEF Settled, Status
  <2>. QED BY <2>1, <2>2, <2>3 DEF Service!Settle, Settled
<1>. QED BY <1>3, <1>4

\* Every other step of a client leaves an open invocation open.
LEMMA ClientImplements ==
  ASSUME IInv, NEW c \in Clients, ClientStep(c)
  PROVE  [Service!Next]_(Service!vars)
<1>1. CASE Invoke(c)
  BY <1>1, InvokeImplements DEF Service!Next
<1>5. CASE Bypass(c)
  BY <1>5, BypassImplements DEF Service!Next
<1>2. CASE TakeReply(c)
  BY <1>2, TakeReplyImplements DEF Service!Next
<1>3. CASE RunDirectly(c)
  BY <1>3, RunDirectlyImplements DEF Service!Next
<1>4. CASE \/ ReadBreaker(c) \/ ProbeSocket(c) \/ ConnectPing(c)
           \/ TakePong(c) \/ PingFails(c) \/ Kill(c) \/ Unlink(c)
           \/ ConnectExec(c) \/ ConnectTimeout(c) \/ ResponseTimeout(c)
           \/ ConnectionReset(c)
  <2>1. /\ pc[c] \notin {"idle", "done"} /\ pc'[c] \notin {"idle", "done"}
        /\ \A x \in Clients : x # c => pc'[x] = pc[x] /\ why'[x] = why[x]
        /\ UNCHANGED runs
    BY <1>4 DEF IInv, TypeOK, ReadBreaker, ProbeSocket, ConnectPing, TakePong,
       PingFails, Kill, Unlink, ConnectExec, ConnectTimeout, ResponseTimeout,
       GiveUpWaiting, ConnectionReset, RunDirectlyBecause, KillBecause, Goto,
       requestVars
  <2>. QED BY <2>1, HiddenStep DEF Status
<1>. QED BY <1>1, <1>2, <1>3, <1>4, <1>5 DEF ClientStep

\* The daemon starts a command whose invocation is open, or has been given up.
LEMMA StartDispatchImplements ==
  ASSUME IInv, NEW d \in Daemons, StartDispatch(d)
  PROVE  [Service!Next]_(Service!vars)
<1> DEFINE h == Head(queue[d])
<1>1. h \in Clients /\ exec[h] = "queued" /\ runs[h] \in Nat
  BY DEF IInv, TypeOK, QueueInv, StartDispatch, NextUp
<1>2. RunsInv(h) /\ PcInv(h) /\ WhyInv(h) /\ why[h] \in Reasons
      /\ pc[h] \in ClientPc
  BY <1>1 DEF IInv, ClientInv, TypeOK
<1>3. Status(h) \in {"open", "unsettled"} /\ runs[h] < 2
  BY <1>1, <1>2
  DEF Status, RunsInv, PcInv, WhyInv, Direct, Started, Lost, NotStarted,
      Unsure, Reasons
<1>4. /\ runs' = [runs EXCEPT ![h] = @ + 1]
      /\ \A x \in Clients : Status(x)' = Status(x)
  BY DEF StartDispatch, clientVars, Status
<1>5. Service!Start(h)
  BY <1>1, <1>3, <1>4 DEF Service!Start
<1>. QED BY <1>1, <1>5 DEF Service!Next

\* Every step is one of the abstract service's, or none of its business.
LEMMA StepImplements == IInv /\ [Next]_vars => [Service!Next]_(Service!vars)
<1> SUFFICES ASSUME IInv, [Next]_vars PROVE [Service!Next]_(Service!vars)
  OBVIOUS
<1>1. ASSUME NEW c \in Clients, ClientStep(c)
      PROVE  [Service!Next]_(Service!vars)
  BY <1>1, ClientImplements
<1>2. ASSUME NEW d \in Daemons, StartDispatch(d)
      PROVE  [Service!Next]_(Service!vars)
  BY <1>2, StartDispatchImplements
<1>3. ASSUME UNCHANGED <<clientVars, runs>>
      PROVE  [Service!Next]_(Service!vars)
  BY <1>3, HiddenStep DEF clientVars, Status
<1>4. ASSUME NEW d \in Daemons, ServeStep(d)
      PROVE  StartDispatch(d) \/ UNCHANGED <<clientVars, runs>>
  BY <1>4 DEF ServeStep, CleanStaleSocket, Listen, WritePidFile, Pong,
     ReceiveExec, EndDispatch, DispatchTimeout, RejectDispatch, requestVars
<1>5. ASSUME NEW d \in Daemons, StopStep(d)
      PROVE  UNCHANGED <<clientVars, runs>>
  BY <1>5 DEF StopStep, TimedShutdown, IdleShutdown, Signal, Crash, ShutDown
<1>6. ASSUME OperatorStep PROVE UNCHANGED <<clientVars, runs>>
  BY <1>6 DEF OperatorStep, StartCommand, StopCommand, ResetDaemonState,
     BreakerExpires, requestVars
<1>7. CASE UNCHANGED vars
  BY <1>7, <1>3 DEF vars, requestVars
<1>. QED BY <1>1, <1>2, <1>3, <1>4, <1>5, <1>6, <1>7 DEF Next

\* ImplementsService: the client, the daemon, the files between them, and
\* every crash, kill and restart together implement CommandService.
THEOREM Implementation == Spec => ImplementsService
  BY InitImplements, StepImplements, Invariance, PTL
  DEF Spec, ImplementsService, Service!Spec
=============================================================================
