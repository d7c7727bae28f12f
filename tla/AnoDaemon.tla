----------------------------- MODULE AnoDaemon -----------------------------
(***************************************************************************)
(* The warm daemon of ano-cli and the clients that use it:                 *)
(* src/daemon/client.ts (every `ano` invocation), src/daemon/server.ts     *)
(* (`ano daemon serve`), and the three files they share: the Unix socket,  *)
(* the pid file and the circuit-breaker file.                              *)
(*                                                                         *)
(* A client is one invocation of the CLI; a daemon is one process that     *)
(* runs startDaemon.  Timers fire at any moment after they are armed.      *)
(* Synchronous code between two waits of one process is one step, except   *)
(* where another process can act in between and it matters: the client's   *)
(* probe, connect, kill and unlink, and the daemon's three start-up steps. *)
(***************************************************************************)
EXTENDS Naturals, Sequences, FiniteSets

CONSTANTS
  Clients,      \* invocations of the CLI
  Daemons,      \* processes that can be spawned as a daemon (bounds the model)
  Versions,     \* CLI versions installed while the model runs
  VersionOf,    \* the version of each client's binary
  LongRunning,  \* clients whose command a daemon of a version refuses to host
  PsAvailable,  \* whether `ps` works, which isOurDaemon() needs
  AlwaysOn,     \* daemons started with ANO_DAEMON_IDLE_MS=0: no idle exit
  None          \* no daemon

ASSUME ClientsAssumption == VersionOf \in [Clients -> Versions]

ASSUME LongRunningAssumption == LongRunning \in [Versions -> SUBSET Clients]

ASSUME DaemonsAssumption ==
  /\ PsAvailable \in BOOLEAN
  /\ None \notin Daemons

ASSUME AlwaysOnAssumption == AlwaysOn \subseteq Daemons

VARIABLES
  pc,       \* where each client is
  why,      \* why a client runs its command itself, or "served"
  peer,     \* the daemon a client is (or was) connected to
  target,   \* the process a client is about to kill
  exec,     \* what has become of the client's exec request
  reply,    \* the reply that waits in the client's socket
  runs,     \* how many times the client's command was started (history)
  dpc,      \* where each daemon process is
  dver,     \* the CLI version of each daemon
  queue,    \* each daemon's queue of accepted exec requests
  stopping, \* whether a daemon has armed its 50 ms shutdown timer
  sock,     \* the daemon whose socket is bound at the socket path
  pidFile,  \* the daemon the pid file names
  breaker   \* whether the circuit breaker is tripped

clientVars == <<pc, why, peer, target>>
requestVars == <<exec, reply, runs>>
daemonVars == <<dpc, dver, queue, stopping>>
fileVars == <<sock, pidFile, breaker>>
vars == <<clientVars, requestVars, daemonVars, fileVars>>

ClientPc == {"idle", "breaker", "probe", "ping", "pinging", "kill", "unlink",
             "attempt", "waiting", "direct", "done"}
Reasons == {"none", "bypass", "breaker", "no_daemon", "unhealthy", "connect", "declined",
            "error", "timeout", "internal", "served"}
ExecStage == {"none", "sent", "declined", "queued", "running", "orphaned",
              "answered", "lost", "reset"}
Replies == {"none", "pong", "ok", "internal", "version_mismatch",
            "unknown_method"}
DaemonPc == {"unborn", "clean", "listen", "bound", "up", "dead"}

(* The reasons for which the code assumes the daemon has misbehaved while   *)
(* it held the request: it may or may not have run it.                      *)
Unsure == {"timeout", "internal"}

TypeOK ==
  /\ pc \in [Clients -> ClientPc]
  /\ why \in [Clients -> Reasons]
  /\ peer \in [Clients -> Daemons \cup {None}]
  /\ target \in [Clients -> Daemons \cup {None}]
  /\ exec \in [Clients -> ExecStage]
  /\ reply \in [Clients -> Replies]
  /\ runs \in [Clients -> Nat]
  /\ dpc \in [Daemons -> DaemonPc]
  /\ dver \in [Daemons -> Versions \cup {None}]
  /\ queue \in [Daemons -> Seq(Clients)]
  /\ stopping \in [Daemons -> BOOLEAN]
  /\ sock \in Daemons \cup {None}
  /\ pidFile \in Daemons \cup {None}
  /\ breaker \in BOOLEAN

Init ==
  /\ pc = [c \in Clients |-> "idle"]
  /\ why = [c \in Clients |-> "none"]
  /\ peer = [c \in Clients |-> None]
  /\ target = [c \in Clients |-> None]
  /\ exec = [c \in Clients |-> "none"]
  /\ reply = [c \in Clients |-> "none"]
  /\ runs = [c \in Clients |-> 0]
  /\ dpc = [d \in Daemons |-> "unborn"]
  /\ dver = [d \in Daemons |-> None]
  /\ queue = [d \in Daemons |-> <<>>]
  /\ stopping = [d \in Daemons |-> FALSE]
  /\ sock = None
  /\ pidFile = None
  /\ breaker = FALSE

-----------------------------------------------------------------------------
(* Helpers                                                                 *)

Alive(d) == dpc[d] \in {"clean", "listen", "bound", "up"}

\* A connect() to the socket path succeeds: a live process is bound there.
Serving == sock # None /\ dpc[sock] \in {"bound", "up"}

Goto(c, where) == pc' = [pc EXCEPT ![c] = where]

RunDirectlyBecause(c, reason) ==
  /\ Goto(c, "direct")
  /\ why' = [why EXCEPT ![c] = reason]

\* The client picks the process to kill and goes on to forceKillDaemon().
KillBecause(c, reason, victim) ==
  /\ Goto(c, "kill")
  /\ why' = [why EXCEPT ![c] = reason]
  /\ target' = [target EXCEPT ![c] = victim]

\* spawnDaemon(): a detached child of the same binary.  It is best effort,
\* and the model has no more processes than Daemons.
Spawn(v) ==
  \/ /\ \A d \in Daemons : dpc[d] # "unborn"
     /\ UNCHANGED <<dpc, dver>>
  \/ \E d \in Daemons :
       /\ dpc[d] = "unborn"
       /\ dpc' = [dpc EXCEPT ![d] = "clean"]
       /\ dver' = [dver EXCEPT ![d] = v]

\* The process d is gone.  A client whose request it had not yet read sees
\* ECONNRESET; the others see only EOF, for which no handler is installed.
Die(d) ==
  /\ dpc' = [dpc EXCEPT ![d] = "dead"]
  /\ queue' = [queue EXCEPT ![d] = <<>>]
  /\ stopping' = [stopping EXCEPT ![d] = FALSE]
  /\ exec' = [c \in Clients |->
               IF peer[c] # d THEN exec[c]
               ELSE IF exec[c] = "sent" THEN "reset"
               ELSE IF exec[c] \in {"queued", "running", "orphaned"} THEN "lost"
               ELSE exec[c]]

\* A reply written to a socket nobody reads any more goes nowhere.
Answer(c, r) ==
  reply' = IF pc[c] = "waiting" THEN [reply EXCEPT ![c] = r] ELSE reply

-----------------------------------------------------------------------------
(* The client                                                              *)

Invoke(c) ==
  /\ pc[c] = "idle"
  /\ Goto(c, "breaker")
  /\ UNCHANGED <<why, peer, target, requestVars, daemonVars, fileVars>>

\* shouldBypass(): a command that serves, signs in, reads its standard input or
\* shows help, or one that the environment or the platform keeps from the daemon.
\* A client's command line is any, so each may be of that kind.
Bypass(c) ==
  /\ pc[c] = "idle"
  /\ RunDirectlyBecause(c, "bypass")
  /\ UNCHANGED <<peer, target, requestVars, daemonVars, fileVars>>

ReadBreaker(c) ==
  /\ pc[c] = "breaker"
  /\ IF breaker
       THEN RunDirectlyBecause(c, "breaker")
       ELSE Goto(c, "probe") /\ UNCHANGED why
  /\ UNCHANGED <<peer, target, requestVars, daemonVars, fileVars>>

\* existsSync(socketPath); without a socket the daemon is started for later.
ProbeSocket(c) ==
  /\ pc[c] = "probe"
  /\ \/ /\ sock = None
        /\ Spawn(VersionOf[c])
        /\ RunDirectlyBecause(c, "no_daemon")
     \/ /\ sock # None
        /\ Goto(c, "ping")
        /\ UNCHANGED <<why, dpc, dver>>
  /\ UNCHANGED <<peer, target, requestVars, queue, stopping, fileVars>>

ConnectPing(c) ==
  /\ pc[c] = "ping"
  /\ \/ /\ Serving
        /\ peer' = [peer EXCEPT ![c] = sock]
        /\ Goto(c, "pinging")
        /\ UNCHANGED <<why, target>>
     \/ /\ ~Serving
        /\ KillBecause(c, "unhealthy", pidFile)
        /\ UNCHANGED peer
  /\ UNCHANGED <<requestVars, daemonVars, fileVars>>

TakePong(c) ==
  /\ pc[c] = "pinging"
  /\ reply[c] = "pong"
  /\ reply' = [reply EXCEPT ![c] = "none"]
  /\ IF dver[peer[c]] = VersionOf[c]
       THEN Goto(c, "attempt") /\ UNCHANGED <<why, target>>
       ELSE KillBecause(c, "unhealthy", peer[c])
  /\ UNCHANGED <<peer, exec, runs, daemonVars, fileVars>>

\* The 1 s ping timer, or an error on the ping connection.
PingFails(c) ==
  /\ pc[c] = "pinging"
  /\ reply' = [reply EXCEPT ![c] = "none"]
  /\ KillBecause(c, "unhealthy", pidFile)
  /\ UNCHANGED <<peer, exec, runs, daemonVars, fileVars>>

\* forceKillDaemon(): SIGKILL, if the pid is verified to be a daemon ...
Kill(c) ==
  /\ pc[c] = "kill"
  /\ IF PsAvailable /\ target[c] # None /\ Alive(target[c])
       THEN Die(target[c])
       ELSE UNCHANGED <<dpc, queue, stopping, exec>>
  /\ target' = [target EXCEPT ![c] = None]
  /\ Goto(c, "unlink")
  /\ UNCHANGED <<why, peer, reply, runs, dver, fileVars>>

\* ... then both files go, whoever owns them by now, and ensureHealthy()
\* (but not onDaemonMisbehavior()) spawns a successor.
Unlink(c) ==
  /\ pc[c] = "unlink"
  /\ sock' = None
  /\ pidFile' = None
  /\ IF why[c] = "unhealthy"
       THEN Spawn(VersionOf[c])
       ELSE UNCHANGED <<dpc, dver>>
  /\ Goto(c, "direct")
  /\ UNCHANGED <<why, peer, target, requestVars, queue, stopping, breaker>>

ConnectExec(c) ==
  /\ pc[c] = "attempt"
  /\ \/ /\ Serving
        /\ peer' = [peer EXCEPT ![c] = sock]
        /\ exec' = [exec EXCEPT ![c] = "sent"]
        /\ Goto(c, "waiting")
        /\ UNCHANGED why
     \/ /\ ~Serving
        /\ RunDirectlyBecause(c, "connect")
        /\ UNCHANGED <<peer, exec>>
  /\ UNCHANGED <<target, reply, runs, daemonVars, fileVars>>

\* The 150 ms connect timer; nothing has been written yet.
ConnectTimeout(c) ==
  /\ pc[c] = "attempt"
  /\ RunDirectlyBecause(c, "connect")
  /\ UNCHANGED <<peer, target, requestVars, daemonVars, fileVars>>

TakeOk(c) ==
  /\ Goto(c, "done")
  /\ why' = [why EXCEPT ![c] = "served"]
  /\ UNCHANGED <<target, breaker>>

TakeInternal(c) ==
  /\ reply[c] = "internal"
  /\ breaker' = TRUE
  /\ KillBecause(c, "internal", pidFile)

\* Mutant of TakeReply: a declined request counts as handled.
TakeReplyHandled(c) ==
  /\ pc[c] = "waiting" /\ reply[c] # "none"
  /\ reply' = [reply EXCEPT ![c] = "none"]
  /\ (reply[c] # "internal" /\ TakeOk(c)) \/ TakeInternal(c)
  /\ UNCHANGED <<peer, exec, runs, daemonVars, sock, pidFile>>

TakeReply(c) ==
  /\ pc[c] = "waiting"
  /\ reply[c] # "none"
  /\ reply' = [reply EXCEPT ![c] = "none"]
  /\ \/ reply[c] = "ok" /\ TakeOk(c)
     \/ TakeInternal(c)
     \/ /\ reply[c] \notin {"ok", "internal"}
        /\ RunDirectlyBecause(c, "declined")
        /\ UNCHANGED <<target, breaker>>
  /\ UNCHANGED <<peer, exec, runs, daemonVars, sock, pidFile>>

\* onDaemonMisbehavior("response_timeout").
GiveUpWaiting(c) ==
  /\ pc[c] = "waiting"
  /\ reply' = [reply EXCEPT ![c] = "none"]
  /\ breaker' = TRUE
  /\ KillBecause(c, "timeout", pidFile)
  /\ UNCHANGED <<peer, exec, runs, daemonVars, sock, pidFile>>

\* Mutant of ResponseTimeout: the timer is cleared when the daemon hangs up.
ResponseTimeoutUnlessClosed(c) == exec[c] # "lost" /\ GiveUpWaiting(c)

\* The 30 s response timer.
ResponseTimeout(c) == GiveUpWaiting(c)

\* Mutant of ConnectionReset: every hang-up counts as "request not received".
ConnectionClosed(c) ==
  /\ pc[c] = "waiting"
  /\ exec[c] \in {"reset", "lost"}
  /\ RunDirectlyBecause(c, "error")
  /\ UNCHANGED <<peer, target, requestVars, daemonVars, fileVars>>

\* sock.on("error"): the daemon died with our request unread.
ConnectionReset(c) ==
  /\ pc[c] = "waiting"
  /\ exec[c] = "reset"
  /\ RunDirectlyBecause(c, "error")
  /\ UNCHANGED <<peer, target, requestVars, daemonVars, fileVars>>

\* runDirectly(): the command runs in the client's own process.
RunDirectly(c) ==
  /\ pc[c] = "direct"
  /\ runs' = [runs EXCEPT ![c] = @ + 1]
  /\ Goto(c, "done")
  /\ UNCHANGED <<why, peer, target, exec, reply, daemonVars, fileVars>>

-----------------------------------------------------------------------------
(* The daemon: start-up                                                    *)

CleanStaleSocket(d) ==
  /\ dpc[d] = "clean"
  /\ sock' = None
  /\ dpc' = [dpc EXCEPT ![d] = "listen"]
  /\ UNCHANGED <<clientVars, requestVars, dver, queue, stopping, pidFile, breaker>>

\* bind() fails on any existing socket file: EADDRINUSE, process.exit(0).
Listen(d) ==
  /\ dpc[d] = "listen"
  /\ \/ /\ sock = None
        /\ sock' = d
        /\ dpc' = [dpc EXCEPT ![d] = "bound"]
     \/ /\ sock # None
        /\ dpc' = [dpc EXCEPT ![d] = "dead"]
        /\ UNCHANGED sock
  /\ UNCHANGED <<clientVars, requestVars, dver, queue, stopping, pidFile, breaker>>

WritePidFile(d) ==
  /\ dpc[d] = "bound"
  /\ pidFile' = d
  /\ dpc' = [dpc EXCEPT ![d] = "up"]
  /\ UNCHANGED <<clientVars, requestVars, dver, queue, stopping, sock, breaker>>

(* The daemon: requests                                                    *)

Pong(d, c) ==
  /\ dpc[d] = "up"
  /\ pc[c] = "pinging"
  /\ peer[c] = d
  /\ reply[c] = "none"
  /\ reply' = [reply EXCEPT ![c] = "pong"]
  /\ UNCHANGED <<clientVars, exec, runs, daemonVars, fileVars>>

Decline(c, code) ==
  /\ exec' = [exec EXCEPT ![c] = "declined"]
  /\ Answer(c, code)

Enqueue(d, c) ==
  /\ exec' = [exec EXCEPT ![c] = "queued"]
  /\ queue' = [queue EXCEPT ![d] = Append(@, c)]
  /\ UNCHANGED <<reply, stopping>>

Refused(d, c) == c \in LongRunning[dver[d]]

RefuseLongRunning(d, c) ==
  /\ Refused(d, c)
  /\ Decline(c, "unknown_method")
  /\ UNCHANGED <<queue, stopping>>

\* The "exec" branch of attachConnection(), up to the serial queue.
ReceiveExec(d, c) ==
  /\ dpc[d] = "up"
  /\ exec[c] = "sent"
  /\ peer[c] = d
  /\ \/ RefuseLongRunning(d, c)
     \/ /\ ~Refused(d, c)
        /\ VersionOf[c] # dver[d]
        /\ Decline(c, "version_mismatch")
        /\ stopping' = [stopping EXCEPT ![d] = TRUE]
        /\ UNCHANGED queue
     \/ /\ ~Refused(d, c)
        /\ VersionOf[c] = dver[d]
        /\ Enqueue(d, c)
  /\ UNCHANGED <<clientVars, runs, dpc, dver, fileVars>>

Running(d) == {c \in Clients : peer[c] = d /\ exec[c] = "running"}

\* Mutant of NextUp: requests are dispatched as they come.
NextUpAtOnce(d) == dpc[d] = "up" /\ queue[d] # <<>>

\* The link at the head of the promise chain is free to take the next one.
NextUp(d) == dpc[d] = "up" /\ queue[d] # <<>> /\ Running(d) = {}

StartDispatch(d) ==
  /\ NextUp(d)
  /\ exec' = [exec EXCEPT ![Head(queue[d])] = "running"]
  /\ runs' = [runs EXCEPT ![Head(queue[d])] = @ + 1]
  /\ queue' = [queue EXCEPT ![d] = Tail(@)]
  /\ UNCHANGED <<clientVars, reply, dpc, dver, stopping, fileVars>>

\* dispatchFn rejects before the command starts (process.cwd() throws when
\* the daemon's own directory is gone): code "internal", no shutdown.
RejectDispatch(d) ==
  /\ NextUp(d)
  /\ Decline(Head(queue[d]), "internal")
  /\ queue' = [queue EXCEPT ![d] = Tail(@)]
  /\ UNCHANGED <<clientVars, runs, dpc, dver, stopping, fileVars>>

EndDispatch(d, c) ==
  /\ dpc[d] = "up"
  /\ c \in Running(d)
  /\ exec' = [exec EXCEPT ![c] = "answered"]
  /\ Answer(c, "ok")
  /\ UNCHANGED <<clientVars, runs, daemonVars, fileVars>>

\* The 60 s dispatch timer wins the race: the dispatch is abandoned but goes
\* on, the queue moves on, and the daemon shuts down 50 ms later.
DispatchTimeout(d, c) ==
  /\ dpc[d] = "up"
  /\ c \in Running(d)
  /\ exec' = [exec EXCEPT ![c] = "orphaned"]
  /\ Answer(c, "internal")
  /\ stopping' = [stopping EXCEPT ![d] = TRUE]
  /\ UNCHANGED <<clientVars, runs, dpc, dver, queue, fileVars>>

(* The daemon: the end                                                     *)

\* ctx.shutdown(): unlinks both paths, whoever owns them by now.
ShutDown(d) ==
  /\ Die(d)
  /\ sock' = None
  /\ pidFile' = None
  /\ UNCHANGED <<clientVars, reply, runs, dver, breaker>>

TimedShutdown(d) == dpc[d] = "up" /\ stopping[d] /\ ShutDown(d)

\* Mutant of IdleShutdown: only the owner of the socket path exits.
IdleShutdownOfOwner(d) ==
  /\ dpc[d] = "up"
  /\ d \notin AlwaysOn
  /\ sock = d
  /\ \A c \in Clients : peer[c] = d => exec[c] \notin {"sent", "queued", "running"}
  /\ ShutDown(d)

\* The idle timer (60 min by default, none if idleMs is 0) is re-armed by every
\* request line and outlasts any dispatch (60 s).
IdleShutdown(d) ==
  /\ dpc[d] = "up"
  /\ d \notin AlwaysOn
  /\ \A c \in Clients : peer[c] = d => exec[c] \notin {"sent", "queued", "running"}
  /\ ShutDown(d)

\* SIGTERM, SIGINT and SIGHUP.
Signal(d) == dpc[d] = "up" /\ ShutDown(d)

\* Any other end of the process; the files stay behind.
Crash(d) ==
  /\ Alive(d)
  /\ Die(d)
  /\ UNCHANGED <<clientVars, reply, runs, dver, fileVars>>

(* The operator                                                            *)

\* `ano daemon start` of version v: clears the breaker, spawns.
StartCommand(v) ==
  /\ \E d \in Daemons : dpc[d] = "unborn"
  /\ breaker' = FALSE
  /\ Spawn(v)
  /\ UNCHANGED <<clientVars, requestVars, queue, stopping, sock, pidFile>>

\* `ano daemon stop`: the shutdown request arms the same timer.
StopCommand ==
  /\ Serving
  /\ dpc[sock] = "up"
  /\ stopping' = [stopping EXCEPT ![sock] = TRUE]
  /\ UNCHANGED <<clientVars, requestVars, dpc, dver, queue, fileVars>>

\* postinstall.mjs, once the binary of another version is in place: SIGTERM to
\* the daemons that pgrep finds by their command line (one that runs as a script
\* has another), whose handlers run next; then the breaker goes, and the socket
\* and the pid file go, whoever owns them, if the script's path is the daemon's:
\* it is with XDG_RUNTIME_DIR, else the script looks under TMPDIR.
ResetDaemonState(found) ==
  /\ stopping' = [d \in Daemons |-> stopping[d] \/ d \in found]
  /\ breaker' = FALSE
  /\ \/ sock' = None /\ pidFile' = None
     \/ UNCHANGED <<sock, pidFile>>
  /\ UNCHANGED <<clientVars, requestVars, dpc, dver, queue>>

\* Ten minutes have passed since the breaker was tripped.
BreakerExpires ==
  /\ breaker
  /\ breaker' = FALSE
  /\ UNCHANGED <<clientVars, requestVars, daemonVars, sock, pidFile>>

-----------------------------------------------------------------------------
ClientStep(c) ==
  \/ Invoke(c) \/ Bypass(c) \/ ReadBreaker(c) \/ ProbeSocket(c) \/ ConnectPing(c)
  \/ TakePong(c) \/ PingFails(c) \/ Kill(c) \/ Unlink(c)
  \/ ConnectExec(c) \/ ConnectTimeout(c) \/ TakeReply(c)
  \/ ResponseTimeout(c) \/ ConnectionReset(c) \/ RunDirectly(c)

ServeStep(d) ==
  \/ CleanStaleSocket(d) \/ Listen(d) \/ WritePidFile(d)
  \/ \E c \in Clients : Pong(d, c) \/ ReceiveExec(d, c)
                        \/ EndDispatch(d, c) \/ DispatchTimeout(d, c)
  \/ StartDispatch(d) \/ RejectDispatch(d)

StopStep(d) == TimedShutdown(d) \/ IdleShutdown(d) \/ Signal(d) \/ Crash(d)

OperatorStep ==
  \/ \E v \in Versions : StartCommand(v)
  \/ StopCommand
  \/ \E found \in SUBSET {d \in Daemons : dpc[d] = "up"} : ResetDaemonState(found)
  \/ BreakerExpires

Next ==
  \/ \E c \in Clients : ClientStep(c)
  \/ \E d \in Daemons : ServeStep(d) \/ StopStep(d)
  \/ OperatorStep

Spec == Init /\ [][Next]_vars

(* An invoked client always goes on: each of its waits has a timer.  Nothing *)
(* is assumed of the daemons or the operator.                                *)
ClientFairness == \A c \in Clients : WF_vars(pc[c] # "idle" /\ ClientStep(c))

(* A daemon's event loop runs, a dispatch ends or its timer fires, and the   *)
(* shutdown timer and, where there is one, the idle timer fire.              *)
DaemonFairness ==
  \A d \in Daemons : /\ WF_vars(ServeStep(d))
                     /\ WF_vars(TimedShutdown(d) \/ IdleShutdown(d))

ClientFairSpec == Spec /\ ClientFairness

-----------------------------------------------------------------------------
(* Safety                                                                  *)

\* A command runs exactly once, however daemons start, stop, restart or are
\* killed around it, unless its client gave up on a request that the daemon
\* already held; then it runs once or twice, and never not at all.
ExactlyOnceUnlessUnsure ==
  \A c \in Clients :
    pc[c] = "done" => /\ runs[c] \in {1, 2}
                      /\ why[c] \notin Unsure => runs[c] = 1

\* A daemon only ever hosts commands of its own CLI version that it can host,
\* even when the daemon that answered the ping is not the one that gets the
\* exec request.
HostsOnlyItsOwn ==
  \A c \in Clients :
    exec[c] \in {"queued", "running", "orphaned", "answered"} =>
      /\ dver[peer[c]] = VersionOf[c]
      /\ ~Refused(peer[c], c)

\* The daemon dispatches one request at a time (an abandoned dispatch that is
\* still running apart) and no accepted request is queued twice or forgotten.
QueueIsExact ==
  /\ \A d \in Daemons : Cardinality(Running(d)) <= 1
  /\ \A c \in Clients, d \in Daemons :
       Cardinality({i \in 1..Len(queue[d]) : queue[d][i] = c})
         = IF exec[c] = "queued" /\ peer[c] = d THEN 1 ELSE 0

(* Liveness                                                                *)

\* Every invocation finishes, whatever the daemons do: hang, crash, restart,
\* answer late, or close the connection (for which there is no handler).
EveryInvocationFinishes ==
  \A c \in Clients : pc[c] # "idle" ~> pc[c] = "done"

\* A daemon that has lost the socket path to another one is never reachable
\* again, and it does not stay for ever: its idle timer ends it.  One that was
\* started with ANO_DAEMON_IDLE_MS=0 has none, and may stay.
UnreachableDaemonExits ==
  DaemonFairness =>
    \A d \in Daemons \ AlwaysOn : (dpc[d] = "up" /\ sock # d) ~> dpc[d] = "dead"

(* Refinement                                                              *)

\* How an invocation looks from outside.
Status(c) ==
  IF pc[c] = "idle" THEN "new"
  ELSE IF pc[c] # "done" THEN "open"
  ELSE IF why[c] \in Unsure THEN "unsettled"
  ELSE "settled"

Service == INSTANCE CommandService WITH
             status <- [c \in Clients |-> Status(c)]

\* The client and the daemon together implement the contract of a command.
ImplementsService == Service!Spec

=============================================================================
