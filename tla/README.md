# ano-cli in TLA+

This directory is a verification project for ano-cli, the `ano` command-line
client of Ano: TLA+ modules translated from the source, TLC configurations that
check them on small instances, and TLAPS proofs of the theorems that matter most
for every size. Paths below are relative to the repository's own `src/`
directory (`daemon/server.ts` is `src/daemon/server.ts` in the repository);
`PROJECT.json` gives the lines behind every definition ("map"), every run, every
hazard at its line, and what was found.

    tlc -workers 2 -config MCAnoDaemonSafety.cfg MCAnoDaemon     # a run
    tlapm AnoDaemonProofs.tla                                    # a proof

1. [The system](#1-the-system)
2. [Modules and code](#2-modules-and-code)
3. [Runs](#3-runs)
4. [What the code does that one might not expect](#4-what-the-code-does-that-one-might-not-expect)
5. [Proofs](#5-proofs)
6. [What is only model-checked, and what is not modelled](#6-what-is-only-model-checked-and-what-is-not-modelled)
7. [What could come next](#7-what-could-come-next)


## 1. The system

An invocation of `ano` is a Node process that parses its arguments, finds its
credentials, makes one or two calls to the Ano API and prints. What makes it more
than a sequential program is everything that outlives one invocation or that two
of them share.

| component | state it keeps | operations |
|---|---|---|
| warm daemon and clients (`daemon/client.ts`, `daemon/server.ts`, `index.ts`, `scripts/postinstall.mjs`) | Unix socket, pid file, breaker file; the daemon's request chain and timers | bypass, ping, exec, kill, spawn, unlink; start-up, dispatch, idle and 50 ms shutdown; `daemon start`, `daemon stop`, an upgrade's reset |
| command dispatch (`dispatchCli`, `commands/agent/stdio-runtime.ts`) | the process's stdout, stderr, exit, working directory and environment, which it replaces and restores | replace, run, restore, time out; end of input |
| API access (`zero/reads.ts`, `zero/writes.ts`, `bridge/retry.ts`, `core/response-cache.ts`, `core/api-client.ts`) | the daemon's Zero client, undelivered mutations, the response cache | read and write over Zero, fall back to REST, retry, cache, invalidate |
| event stream client (`bridge/sse.ts`) | connection, buffer, the event being built, Last-Event-ID | connect, read a chunk, take a line, reconnect |
| agent bridge (`bridge/bridge.ts`) | agentQueue, agentBusy, the answer being collected | start, onEvent, ask OpenClaw, collect, post, commands on stdin and at the control server |
| profiles and credentials (`core/auth.ts`, `core/config.ts`, `commands/auth/*`, `commands/workspaces/use.ts`) | credentials.json | login, key login, complete, logout, refresh-region, use; resolveAuth, resolveBootstrapProfile |
| OAuth sign-in (`core/oauth-flow.ts`, `core/oauth-session.ts`) | two loopback listeners, the session file and its temporary file | listen, callback, time out; save, load, delete a session |
| Zero session (`zero/client.ts`, `zero/auth.ts`, `zero/active-client.ts`, `zero/reads.ts`) | Zero's token and connection, the replica, the registry of its status and of drifted tables | mint, open, drop, refuse, refresh; the four reads |
| background tasks (`core/task-store.ts`, `commands/task/*`) | one JSON file per task | dispatch, run detached, post, list, show, relay |
| names, targets and the commands that use them (`messages/channel-target.ts`, `dm/recipients.ts`, `automations/resolve-automation.ts`, `cli/file-attachments.ts`, `messages/send.ts`, ...) | the channel ids a process remembers | name to id, scope, upload, send, read, archive, remove, run |
| service installation (`bridge/service.ts`, `commands/connect/index.ts`, `bridge-entry.ts`) | a plist or systemd unit per service, and what the manager has read of them | install, uninstall; restart, reload, login |
| Zero storage and schema (`zero/kv-sqlite.ts`, ...) | SQLite store | the adapter the Zero library calls |
| command tree and output (`cli/root.ts`, `cli/register.ts`, `core/output.ts`, ...) | none | parse, format, exit codes |
| developer and set-up commands | none | look at the machine, print |

How they meet:

* A **client** pings the daemon at the socket path, kills and respawns it when it
  does not answer well, and sends its command line as an exec request. Whatever
  goes wrong, it runs the command itself.
* The **daemon** chains exec requests and gives them to **dispatchCli** one at a
  time; the stdio host `ano agent stdio` is a second caller of the same function.
* A dispatched command reaches **API access**: the daemon's Zero client first,
  REST with retries and the response cache second. Both outlive the command.
* The **event stream client** calls the **bridge** with events; the bridge
  queues those for the agent, handles one at a time, and its replies come back
  over the same stream. The **service manager** starts the bridge again with the
  options of its unit file.
* `ano task` writes a **task** file and leaves it to a detached runner; the shell
  hook and every later command read the file.
* The **sign-in commands** hand a session from one process to the next through a
  file, and every command and the daemon read the **credentials** they wrote.

What is hard, and which properties make each part correct:

* *Daemon.* Clients and daemons race for one path, and a client that gives up
  does not know what the daemon has done. Correct: a command runs exactly once,
  unless its client gave up on a request that was held, and then at most twice;
  a daemon hosts only commands of its own version; every invocation ends; a
  daemon that lost its path goes away, if it has an idle timer at all.
* *Dispatch.* A command that times out keeps running in the same process.
  Correct: nothing is mixed up before that; the stdio host answers all it read; a
  hung command does not block the daemon.
* *API access.* Two transports and a cache, lost answers, late mutations, several
  profiles in one process. Correct: fresh reads after writes, one change per
  write, one account per caller.
* *Event stream.* A chunk may end anywhere, a connection may drop anywhere.
  Correct: chunking is invisible; in order, nothing twice, nothing skipped while
  there is an event to resume after.
* *Bridge.* Events arrive while one is handled, replies come back as events.
  Correct: one reply per event, in order, none to itself, none forgotten.
* *Credentials.* Load and save without a lock, a wait between the two, kills in
  the middle, two environments. Correct: other profiles survive, keys and hosts
  match, a session makes one key and its file is whole.
* *Zero session.* A connection that drops, a token that is refused, a schema that
  changes, all while a query is under way. Correct: Zero is asked only while its
  connection stands and no answer comes from a table known to have drifted; no
  read hangs, and the session returns.
* *Tasks.* Separate processes over one file that is emptied before it is written.
  Correct: one run, one result, told once, even when the runner is killed.
* *Targets.* Others rename, archive and join between any two steps of a command,
  and a process remembers what it found. Correct: a name meant one thing when it
  was looked up, a message lands where it was sent with its files, a command
  that reports an error has changed nothing.
* *Service.* An install or uninstall may stop at each of its calls, and goes on when
  the manager fails to stop a bridge. Correct: what runs is what was installed, and
  nothing is left of what was removed, but for a bridge the manager did not stop.

`PROJECT.json` lists each hazard at its line under "hazards", with the property
that would catch it, or why there is none.


## 2. Modules and code

    CommandService   (what an invocation promises)
        ^ implements (ImplementsService)
    AnoDaemon ---- its dispatch step in detail ----> CommandDispatch
                                                         |  what a dispatched
    EventFeed        (what the bridge relies on)         v  command then does
        ^ implements       \ INSTANCE in            ApiAccess
    SseClient             AgentBridge
    OAuthLoopback <--EXTENDS-- Credentials

    TaskLife         (what a task promises)
        ^ implements (ImplementsLife)
    TaskStore

    ZeroSession      (the session and the reads that ApiAccess takes in one step)
    CommandTargets   (what commands do before and after the calls of ApiAccess)
    BridgeService    (the service that restarts AgentBridge's process)

`MC*` modules instantiate a module for TLC, `*Proofs` modules hold the theorems
about one, or about two that belong together: WarmProcessProofs about
CommandTargets and CommandDispatch, AgentBridgeProofs about AgentBridge and
SseClient. What a user of the second one sees, and the properties that speak of
nothing else, are in a module of their own, **DispatchPromises** and
**StreamPromises**: CommandDispatch and SseClient extend these, and so do the
proofs, which then take the mechanism behind as an INSTANCE.

In all modules a step is what one process does between two points at which another
can act (an `await`, a file call, a message), operators that stand for a plausible
slip of the code are marked "Mutant of ..." and are used by no action, and names
follow the source.

**AnoDaemon** (`daemon/client.ts`, `daemon/server.ts`, `index.ts`,
`commands/daemon/index.ts`). `pc[c]` is the place of a client in `main` ->
`runWithDaemon` -> `ensureHealthy` -> `attempt`; `why[c]` is why it ran its
command itself. `exec[c]` and `reply[c]` are its request and the answer, which
belong to the connection and not to a process: a daemon's death makes them
"reset" or "lost". `dpc[d]` is a daemon in `startDaemon` (the three steps of its
start are apart since others act in between), `queue[d]` its promise chain,
`sock` the process bound at the path, `pidFile` and `breaker` the files. Actions:
`ReadBreaker`, `ProbeSocket`, `ConnectPing`, `TakePong`, `PingFails`, `Kill`,
`Unlink`, `Spawn`, `ConnectExec`, `TakeReply`, `ResponseTimeout`,
`ConnectionReset`, `RunDirectly` for the client; `CleanStaleSocket`, `Listen`,
`WritePidFile`, `Pong`, `ReceiveExec`, `StartDispatch`, `EndDispatch`,
`RejectDispatch`, `DispatchTimeout`, `TimedShutdown`, `IdleShutdown`, `Signal`,
`Crash` for the daemon; `StartCommand`, `StopCommand`, `ResetDaemonState` (an
upgrade's postinstall script), `BreakerExpires` around them. `Bypass` is a command
that `shouldBypass` keeps from the daemon. `AlwaysOn` are the daemons that were
started with `ANO_DAEMON_IDLE_MS=0`: they have no idle timer. Timers may fire as
soon as they are armed. `PsAvailable` is FALSE on a system where `isOurDaemon` cannot
look at a process and refuses to kill it.

**CommandService** is the contract behind it: a command starts once; an
invocation that gave up on an answer may start it a second time.

**CommandDispatch** (`dispatchCli`, the chain in `attachConnection`,
`stdio-runtime.ts`). stdout, stderr, exit, cwd and environment are replaced in
one synchronous step and restored in another, so one variable, `installed`, says
whose replacements are in force, and `saved[r]` what `r` found and will put back.
`flaws[r]` records what went wrong with r's result: foreign output in it, its own
output elsewhere, or a foreign environment read. The stdio host's own methods and
the lines it refuses are `AnswerUndispatched`, on the same chain. `RejectDispatch`
is the answer to a dispatch whose own promise is rejected.

**ApiAccess**. One command at a time (`cur`), as the daemon dispatches them. A
read tries Zero (`StartRead`, `ZeroRows`, `ZeroMiss`) and then the cache and
REST; a write tries Zero (`StartWrite`, `MutateThrows`, `ServerConfirms`,
`ServerTimeout`, and `ServerTakesMutation`, which may come long after the timeout)
and then REST (`CallRest`, `ServerHandles`, `NoClearAnswer`, `Retry`, `GiveUp`,
`Refused`, `TakeRead`, `TakeWrite`). Data is a version number per account: every
change increments it, so that "stale" and "whose" can be told. `channels list`
stands for reads, `messages send` for writes.

**EventFeed** is the stream as its user needs it. **SseClient** (`bridge/sse.ts`)
is the client against a server that writes lines: `wire` is what was written and
not read, a chunk is any prefix of it (`Read(n)`), the text of a line is one token
and each character of a line end is one, since the split is what the code may get
wrong. The code splits a chunk at once and then loops over the lines; the model
keeps chunk and remainder together in `buffer` and splits a line off when the loop
takes it (`TakeLine(i)`), which comes to the same since nothing is read before the
last of them (`Incomplete`). `part` is the event being built. **AgentBridge** (`bridge/bridge.ts`)
INSTANCEs EventFeed and takes any step EventFeed allows; `ImplementsEventFeed`
says that these are the steps the client takes. `Handle` is `handleAgentEvent`
cut at its awaits. `HandleCommand` is `send_message` or `send_dm` given on stdin
or at the control server: it goes to the server at once, beside the queue, and
comes back over the stream as a message of the agent's own.

**OAuthLoopback** (`oauth-flow.ts`): `stack[c][s]` is the listener on 127.0.0.1
or ::1, the browser is opened with the first that listens, and every open page
may come back to whoever listens on the port. **Credentials** adds the files:
credentials.json is emptied and then written (`TruncateCredentials`,
`WriteCredentials`, since `writeFileSync` is two file calls), a session is
written by `UnlinkTmp`, `OpenTmp`, `FillTmp`, `RenameTmp`; `inode[c]` is the file
that c created, wherever it is linked. `content[c]` is what c loaded, edited and
will save. `resolveAuth` and `resolveBootstrapProfile` are operators. `before`,
`overlapped`, `unsure` are history: what the file was when a lone command began,
which commands ran beside others, and whose mint was carried out unknown to them.

**TaskStore** (`core/task-store.ts`, `commands/task/index.ts`, `run.ts`): `file[t]`
is the task's JSON file, "torn" between the two file calls of `writeFile`;
`copy[r]` is the task as a runner has read it, which it writes back whole. A
runner goes through `ReadQueued`, `MarkRunning`, claude, the post and the final
write; `RunAgain` is a second `ano task __run` of the same id, `Kill` ends a
runner anywhere. External: the Stop hook of the skills package that relays
results (`Surface`), claude, and the arrival of the posted message. **TaskLife** is
the contract behind it: queued, running, one final state, posts only while
running, until two runners hold the task.

**ZeroSession** (`zero/client.ts`, `auth.ts`, `active-client.ts`, `reads.ts`): `conn`
is the connection as the Zero library has it, `status` what the daemon last heard
of it, `token` and `refused` the tokens, `refresh` the one callback that answers
needs-auth, `drifted` the tables found lacking a column, `result[k]` what each read
came to, by which way, and whether the rows that `validateRowShape` looked at had
every column. `Begin` looks at the status and starts the queries, `AnswersRows`,
`AnswersMembers`, `AnswersNothing`, `AnswersNames` and `TimesOut` end them. An answer
is its first row, the only one the code examines; who is in a roster is left out.
The library, the sync server and the replica are external.

**CommandTargets** (the commands under "names, targets" above): one command at a
time, from its command line (`req`) through `resolveAuth`, the list of names, the
uploads and the call, Zero first where the command tries it, to its `result`.
`known` is the map of remembered channel ids, which outlives commands. `Others`
rename, archive, join, leave and rewrite files between any two steps. `acts` is
what the server carried out, `ever` the states it has been in.

**BridgeService** (`bridge/service.ts`, the two command lines that call it): `unit[s]`
is the file, `loaded[s]` what the manager read of it, `given[s]` what the running
bridge was started with. A command is cut at each call of the manager
(`WriteUnit`, `Unload`, `Load`, `Reload`, `Enable`, `Disable`, `UnlinkUnit`) and may
stop at each (`Stops`). `UnloadFails` and `DisableFails` are a manager that does
not stop a bridge, which the code ignores; `spared` remembers for whom. External:
launchd and systemd, which restart a bridge, reload their files and start at a
login, and the program that a unit starts, of which only the life matters.

Choices a reader should know:

* *Bridge*: a reply that is in flight when the process dies was either taken by
  the server before the death or not at all.
* *Credentials*: a file that does not parse is no profiles (`loadJson`), and two
  writes over each other may leave one. `/route` knows the workspaces of
  production; it answers with the caller's own region for one it does not know.
  `refresh-region` of a staging profile is thus sent to a production host; this is
  why entries carry `set` and `EnvironmentsStayApart` speaks of profiles that a
  sign-in saved.
* *Credentials*: `--profile` is parsed by the root command, so logout, complete,
  use and refresh-region read their own option's default (`Target`).
* *Restart* (EventFeed, AgentBridge): the installed service restarts the bridge.
* *CommandTargets*: a list read over REST may show any state of the last five
  seconds, the life of a cache entry; this allows more than the cache does. A send
  without a scope by a caller who sees no workspace is left to the server, as in
  the code. A failed upload may leave files on the server that no message carries.
* *ZeroSession*: a table that drifted stays so for the daemon's life; `getAuth` is
  called once, when the client is opened, so that its refresh at 80% of a token's
  life never happens.
* *ZeroSession*: the names that `search` prints beside messages are a query of their
  own, which may answer anything: nothing checks it.
* *CommandTargets*: one call over REST stands for all repeats of `retryFetch`, which
  are in ApiAccess. A Zero write whose server promise is rejected was refused, or was
  applied and the answer lost; the second counts as unclear.
* *Credentials*: `saveProfile` leaves the endpoint of the apex out, and `resolveAuth`
  puts it back; the model has "apex" in both places. For such a profile
  `resolveBootstrapProfile` gives no endpoint, and the daemon starts no Zero client
  (`server.ts:214`), which is `StartDaemon`'s way to "rest" in ZeroSession. A write
  of the session that throws leaves the temporary file as it is (`FillTmp`); a
  `writeSync` that is short and does not throw is left out.
* *BridgeService*: commands run one at a time. `--openclaw-agent` given to
  `install-service` is always replaced by its default (`Merged`).


## 3. Runs

| run | instance | distinct states | properties |
|---|---|---|---|
| daemon_safety | 2 clients, 2 daemons, 2 versions, symmetric daemons | 1,610,154 | ExactlyOnceUnlessUnsure, QueueIsExact, ImplementsService |
| daemon_liveness | 1 client, 3 daemons, one of them without an idle timer | 301,711 | EveryInvocationFinishes, UnreachableDaemonExits |
| dispatch | 3 requests, both hosts | 13,841 | CleanUntilTimeout, StdioAnswersEveryLine, HungCommandIsContained |
| api_access | 3 commands, 2 accounts, 2 paths (one of them Zero's), 1 retry | 2,381,900 | FreshAfterRestWrite, AppliedOnceUnlessUnsure, RestIsPerAccount |
| event_stream | 4 events (2 with a type), 3 faults, lines end in \n | 17,766 | ChunkingIsInvisible, ImplementsEventFeed, ResumesAfterDrops |
| agent_bridge | 3 events of others, 1 command, 1 restart, 2 tries for the context, 3 retries | 553,475 | RepliesFollowEvents, AnswersOnlyOthers, NothingIsForgotten, EveryTaskEnds |
| credentials | 2 commands of any kind, 2 profiles, 2 workspaces (one of staging), 1 kill | 1,680,549 | OwnCodeOnly, OneKeyPerSignIn, EnvironmentsStayApart, SessionFileIsWhole, BootstrapMirrorsResolve, OthersKept |
| tasks | 2 tasks, 3 runners (two of one task), 2 sends of a post, 1 kill | 117,120 | ToldOnce, ResultIsKept, TakenTwiceOnlyBeforeStart, TaskIsRelayed, ImplementsLife |
| zero_session | 3 tokens, 2 drops, 2 daemons after each other, 2 altered tables | 140,367 | TrustedOnlyInSync, SessionReturns, EveryReadEnds |
| command_targets | 2 commands after each other, 1 change by others, 2 accounts, 2 workspaces, 3 channels, 2 automations, 2 files | 5,158,262 | NamesMeanOneTarget, SendsLandWhereAsked, MessagesCarryTheirFiles, OneChangeOrAnError |
| bridge_service | 2 services, both platforms, 5 commands, 4 mishaps | 517,944 | RunsAsInstalled, RemovedStaysGone |

One more run, profiles_separate, ends in a violation; section 4 has it. The type
invariants (TypeOK of each module that describes code) are proved, section 5, and
are not part of the runs.

Why the bounds are enough:

* *daemon_safety*: two clients and two daemons have every pairwise race: one
  client probes what the other kills; a daemon takes the path from another; the
  daemon that answered the ping is not the one that gets the request; a queue of
  two behind a hung command. The second version comes by an operator's start, the
  only way a daemon of another version appears. Three daemons are in
  daemon_liveness, so that a kill and a respawn can happen while one is orphaned;
  the one without an idle timer may be any of the three in the race.
* *dispatch*: one request abandoned, one running, one waiting.
* *api_access*: a write, a read by another profile, and a read by the first;
  retryFetch's counter against both of its limits with one retry (`RetriesFor`
  caps application errors separately).
* *event_stream*: two connections' worth of events on both sides of a drop, and a
  drop after a restart; `Typed` has events with and without a type so that a
  leftover type would show.
* *agent_bridge*: one event handled and two waiting, the replies to them, and a
  message sent by command in the midst of them.
* *credentials*: two commands are all pairs: `login` before, after and during any
  other. The first files are none, one of each environment, both, and one without
  a default. `Enter` lets each process be started once.
* *tasks*: one contested task and one of its own beside it; the second send of a
  post is the retry after a lost answer.
* *zero_session*: the first token, one that is refused in its turn and one after
  it; two tables that drift, so that a roster, which reads two, meets either alone
  and both; a daemon that begins after the first has forgotten what drifted.
* *command_targets*: the second command meets what the first has remembered, and
  one change by others can fall between any two steps of either. The requests are
  those in which a name is ambiguous, remembered, moved or gone.
* *bridge_service*: an install, a change of its options, an uninstall, an install
  again and a command for the other service, with as many failures as there are
  calls in any one of them.

Deadlock is not checked where the program may stop: a client's work is done, a
process has exited or all commands are over (each .cfg says so). Credentials ends
in `AllOver` and is checked for deadlock.

### Fairness

* `ClientFairness` (AnoDaemon): an invocation that has begun takes its next step.
  Every wait of the client has a timer (probe, ping, connect and response
  timeouts), and the others are its own code. No daemon is assumed to do
  anything: `EveryInvocationFinishes` holds against daemons that hang for ever.
* `DaemonFairness` is assumed only for `UnreachableDaemonExits`: the event loop
  runs, a dispatch ends or its timer fires, the shutdown timer fires, and the idle
  timer does in the daemons that have one (all but `AlwaysOn`).
* CommandDispatch: the chain, the 60 s timer and the two exits. A command may hang
  for ever (no fairness for its steps).
* SseClient: the server writes what it published, connects succeed at some time,
  chunks are read, the backoff ends. Faults are bounded, and are never forced.
* AgentBridge: `WF(Handle)`. Calls end: retryFetch has timeouts and a last
  attempt. Streamed answers are *assumed* to end: each chunk has 60 seconds, but
  nothing in `bridge.ts` bounds their number, which is listed as a hazard.
* TaskStore: the dispatching command and the runner go on, which assumes that
  claude ends (`runClaude` has no time limit) and that the shell hook runs again.
* ZeroSession: the library keeps reconnecting, a mint is answered, time limits go
  off. Drops and refusals are bounded, and never forced.
* ApiAccess, Credentials, CommandTargets and BridgeService have no liveness
  properties.


## 4. What the code does that one might not expect

The run **profiles_separate** checks one property, stated from a comment, and shows
the code breaking it ("findings" quotes the line): a command for another profile is
served by the Zero client of the daemon's bootstrap profile.

The other properties are stated so that each says what the code does guarantee.
What they leave out, because the code does otherwise, is this:

* A second daemon unlinks the socket of a live one as "stale" and binds its own;
  both stay up until the first one's idle timer (`server.ts:529`,
  UnreachableDaemonExits). A daemon started with `ANO_DAEMON_IDLE_MS=0`
  (`protocol.ts:73-77`, "always-on") has no idle timer (`server.ts:551`) and then stays
  for good; the property excepts it. An upgrade may orphan one too: postinstall's
  `pgrep -f "ano daemon serve"` does not match a daemon that runs as a script of node.
  Without XDG_RUNTIME_DIR that script looks for the socket under TMPDIR, which is not
  where `protocol.ts:49` has it, and removes nothing.
* After a dispatch has timed out, the next is started in the 50 ms before the
  shutdown, and the abandoned command writes into its output and reads its
  environment (`server.ts:386`); CleanUntilTimeout ends there.
* A chunk that ends between \r and \n loses the id or type of the event being built
  (`sse.ts:95`); the run has a server that ends lines with \n.
* `auth logout --profile local` removes "default"; so do complete, refresh-region
  and `workspaces use` act on "default", since the root command takes the flag.
  This is how `Target` is defined, and OthersKept speaks of that profile.
* Credentials are loaded and saved without a lock: OthersKept and SessionFileIsWhole
  speak of commands that run alone.
* Two runners of one task both run it if both read it before either writes
  "running" (`run.ts:75`: "guards against a double-spawn racing the same id");
  TakenTwiceOnlyBeforeStart is what the guard gives. A runner that is killed leaves
  its task running for good.
* needs-auth is answered by one attempt to mint a token (`client.ts:206`). When it
  fails, nothing tries again: SessionReturns excepts it. A server that refuses
  fresh tokens is asked without a pause.
* A roster over Zero has the members whose user row is in the replica and not
  deactivated (`reads.ts:240-265`). It is checked for being empty before the
  deactivated ones are taken out, so it can be partial, or empty where the comment
  has a fallback. No property speaks of who is in it.
* `validateRowShape` looks at the first row of an answer (`reads.ts:70`), and at no row
  of `users` for messages and search, which print the sender's display_name from there
  (`reads.ts:332`, `397-405`, `439`). TrustedOnlyInSync speaks of the rows looked at.
* Remembered channel ids are not kept apart by account, and outlive a rename, an
  archive and a switch of account: NamesMeanOneTarget says that the name meant that
  channel once, to someone.
* Zero may have archived a channel, or removed a member, when the command finds no
  credentials and reports an error (OneChangeOrAnError excepts it).
* A write over Zero does not empty the REST cache: a list may be five seconds old
  if Zero goes down in between.
* On Linux a second install does not restart the bridge that runs (`enable --now`),
  so it keeps the old key until it ends (`kept`). A `disable --now` that fails is
  ignored. If the `daemon-reload` after the unlink fails, a retry of the uninstall
  says "not found".
* On macOS a `launchctl unload` that fails is ignored. An install goes on to a `load`
  that leaves the running job as it is, and reports success with the old options in
  force (`service.ts:179-185`); an uninstall unlinks the plist and reports that the
  service is removed, and launchd keeps restarting it (`service.ts:237-241`). Both last
  until the next login; the two properties except such a service (`spared`).
* `uninstall-service` takes a "Workspace name or 12-char hash", and no name ever
  matches. A key that was rotated makes a second service, since the hash is of the
  key's first 16 characters and the endpoint. The unit runs `npx ano-connect`
  (`service.ts:75`, `122`), which is no binary of this package: that an installed
  bridge comes up is not claimed.
* The bridge looks at no status of a post: a reply that the server refused is
  reported as sent (`bridge.ts:393`). `send_dm` sends a `user_id` as
  `recipient_name` (`bridge.ts:136`).


## 5. Proofs

The proofs hold for every value of the constants that satisfies the named
assumptions of the modules: any sets of clients, daemons, versions, requests,
commands, profiles and workspaces (finite or not), any bound. The assumptions say
that distinguished values are no members of the sets they are told apart from,
that functions have their domains, and that the first credentials file is one that
sign-ins can have left. All of them are evaluated by TLC in the runs.

The theorems about `Dispatch` and `Stream`, the instances of CommandDispatch and
SseClient, state their hypotheses: `HostIsNoLine` is the assumption of
CommandDispatch itself. `StreamAssumption` is narrower than that of SseClient: the
server ends its lines with \n or with \r, and not with both, since for \r\n the
statement is false (section 4: a chunk that ends between the two is taken for a
blank line).

| module | theorem | shows |
|---|---|---|
| AnoDaemonProofs | ExactlyOnce | `Spec => []ExactlyOnceUnlessUnsure` |
| | DaemonHostsOnlyItsOwn | types, and `[]HostsOnlyItsOwn` |
| | QueuesAreExact | `Spec => []QueueIsExact` |
| | Implementation | `Spec => ImplementsService`: AnoDaemon implements CommandService |
| WarmProcessProofs | TypeSafety | `Spec => []TypeOK` (CommandTargets) |
| | NamesMeanOneTargetAlways | `Spec => []NamesMeanOneTarget` |
| | SendsLandAlways | `Spec => []SendsLandWhereAsked` |
| | FilesAlways | `Spec => []MessagesCarryTheirFiles` |
| | OneChangeAlways | `Spec => []OneChangeOrAnError` |
| | DispatchTypeSafety | `Dispatch!Spec => []Dispatch!TypeOK` (CommandDispatch) |
| | NoBleedBeforeTimeout | `Dispatch!Spec => []CleanUntilTimeout` |
| | StdioAnswers | `Dispatch!Spec => []StdioAnswersEveryLine` |
| ApiAccessProofs | TypeSafety | `Spec => []TypeOK` |
| | FreshAlways | `Spec => []FreshAfterRestWrite` |
| | AppliedOnceAlways | `Spec => []AppliedOnceUnlessUnsure` |
| | RestIsPerAccountAlways | `Spec => []RestIsPerAccount` |
| AgentBridgeProofs | TypeSafety | `Spec => []TypeOK` |
| | RepliesInOrder | `Spec => []RepliesFollowEvents` |
| | NoLoop | `Spec => []AnswersOnlyOthers` |
| | QueueKeepsEvents | `Spec => []NothingIsForgotten`, and no event waits while nothing is handled |
| | StreamTypeSafety | `Stream!Spec => []Stream!TypeOK` (SseClient) |
| | EventsArriveWhole | `Stream!Spec => []ChunkingIsInvisible` |
| | StreamImplementsFeed | `Stream!Spec => ImplementsEventFeed`: SseClient implements EventFeed |
| CredentialsProofs | TypeSafety | `Spec => []TypeOK` |
| | OwnCodeAlways | `Spec => []OwnCodeOnly` |
| | ApartAlways | `Spec => []EnvironmentsStayApart` |
| | KeepsOthers | `Spec => OthersKept` |
| | SessionIsWhole | `Spec => []SessionFileIsWhole` |
| | OneKey | `Spec => []OneKeyPerSignIn` |
| | BootstrapMirrors | `Spec => []BootstrapMirrorsResolve` (a fact about any credentials file) |
| TaskStoreProofs | TypeSafety | `Spec => []TypeOK` |
| | ToldOnceAlways | `Spec => []ToldOnce` |
| | ResultIsKeptAlways | `Spec => []ResultIsKept` |
| | TakenTwice | `Spec => TakenTwiceOnlyBeforeStart` |
| | Implementation | `Spec => ImplementsLife`: TaskStore implements TaskLife |
| ZeroSessionProofs | TypeSafety | `Spec => []TypeOK` |
| | TrustedAlways | `Spec => TrustedOnlyInSync` |
| BridgeServiceProofs | TypeSafety | `Spec => []TypeOK` |
| | RunsAsInstalledAlways | `Spec => []RunsAsInstalled` |
| | RemovedStaysGoneAlways | `Spec => []RemovedStaysGone` |

Each module defines an inductive invariant (`IInv`, and `DispatchInv` and
`StreamIInv` for the instances), shows `Init => IInv` and `IInv /\ [Next]_vars =>
IInv'` with a lemma per action, and derives its theorems. Why the strengthening
is needed:

* *AnoDaemon*. That a command ran once depends on where its request is: not sent,
  refused, queued, running, abandoned, answered, lost with its daemon. `ClientInv`
  ties runs, pc, why, exec and reply of a client together; `QueueInv` says that a
  queue holds accepted requests, each once; `BornInv` that a connection leads to a
  process whose version is fixed. For QueueIsExact, `SerialInv` adds that an accepted
  request has a place in its daemon's queue and that no second dispatch starts.
* *The refinement* maps a client to "new", "open", "settled" or "unsettled" by its
  pc and why. `StepImplements` shows that each step of client, daemon or operator
  is a step of CommandService or changes none of it.
* *CommandTargets*. Other members may change anything between two calls, so what a
  command knows is true of some state the servers were in and not of the present
  one. `WorldInv` says that all a list may show was so at some time, `TargetInv` and
  `ScopeInv` that what was found, or remembered, was at some time the only one of
  that name. `FilesInv` ties what is read, uploaded and sent to the order and sizes
  of the files asked for. For OneChangeOrAnError, `ChangeInv` says that a command
  that is not over has changed nothing yet, unless an answer was lost or Zero did it,
  and then only `resolveAuth` is left to it; this rests on `PathInv`, which command can be where.
* *SseClient*. What is dispatched next is what `part` holds and what lies ahead in
  the buffer and on the wire, so the invariant speaks of that text as one sequence,
  wherever a chunk ends. `WellFormed` says that each line is followed by the one that
  belongs there, `PartInv` that `part` is what was written of its event before the
  first line ahead, `AheadInv` that the events ahead come in order, after what was
  dispatched, and that none is missing after the first or after the one to resume
  from. The last is what makes a dispatch a step of EventFeed, which delivers the
  next event and no other. That LastEventId is the last event dispatched, `ResumeInv`,
  carries this over a drop.
* *CommandDispatch*. `HooksInv`: before a timeout, the one dispatch there is found
  the host's own process; `ChainInv`, `AnswerInv`, `ExitInv`: where each accepted
  request is until the process exits.
* *AgentBridge*. Order is kept across four places: what was posted comes before
  the task, before the queue, before the next delivery (`OrderInv`); `KindInv`
  follows what an event is along the same way.
* *Credentials*. What the file will hold is in the hands of commands, several waits
  earlier. `GoodWork` says what they hold is right, `Staged` that they have what
  their stage needs, `OwnerInv` that a token's sign-in keeps its host. `Alone`
  follows the file through the load, the waits and both halves of the save of a
  command that overlaps no other; OthersKept is its last step. `WholeInv` says that a
  sign-in which no other has run beside renames the file it created, and filled it.
  For OneKeyPerSignIn, `KeyMoves` reduces every step to eight moves of sessions, keys
  and tokens; once a key was minted with a token, `KeyInv` says, the token can be had
  from nowhere but a session whose deletion is under way, and a command that takes
  that one runs beside the command that deletes it.
* *ApiAccess*. A change can be carried out by a late mutation long after the command
  that began it went on to REST. `MutationInv` says which mutations are undelivered
  and whose, `CountInv` that a command's changes are at most its mutation and its
  attempts, `OnceInv` that they are one where nothing was unsure; `FreshInv` that no
  cache entry and no answer on its way is older than the last REST write of its
  account.
* *TaskStore*. What a runner will write is in its `copy`: `CopyInv` ties it to the
  file at each place of the runner, `TaskInv` ties posts, the result and the relay
  to the one runner of an uncontested task.
* *ZeroSession*. `MirrorIsHonest`: the status that the reads go by says "connected"
  only when the connection is, in whatever order it drops, is refused and returns.
* *BridgeService*. `InstallInv` and `UninstallInv` say what the command in hand has
  done at each of its calls; `GivenInv` that a running bridge has the options its
  manager has read, unless systemd kept it. Where the manager failed to stop a
  bridge, `spared` stands for what the command can no longer say of it.


## 6. What is only model-checked, and what is not modelled

Checked by TLC and not proved:

* liveness (EveryInvocationFinishes, UnreachableDaemonExits,
  HungCommandIsContained, ResumesAfterDrops, EveryTaskEnds, TaskIsRelayed,
  SessionReturns, EveryReadEnds), which TLAPS's backends do not
  reach here, as ENABLED and fairness are out of their scope. Every invariant,
  action property and refinement that a passing run checks is also a theorem.

A server that ends its lines with \r\n is covered by neither: ChunkingIsInvisible
does not hold there.

Not modelled, and why:

* *Zero storage and schema*: an adapter and declarations for a library that
  decides the order of calls.
* *Command tree and output*: pure functions without state, which the repository's
  unit tests cover.
* *Developer and set-up commands*: they look at the machine and print.
* *Create, dnd and table commands*: options are validated and one call is made,
  which ApiAccess has.
* *Bridge*: webhooks, typing indicators, the health page and the control server's
  routing touch no state of AgentBridge.
* *Inside modelled parts*: wire formats, debug output, prewarm, pagination, backoff
  lengths, the spelling of names and ids, the symbolic-link checks of
  `atomicWriteSecret`, the interactive picker, profiles that were never pinned to a
  workspace.


## 7. What could come next

1. A module that composes SseClient and AgentBridge, so that EventFeed need not
   stand between them, and one that puts ZeroSession in place of ZeroConnects and
   ZeroDrops of ApiAccess.
2. ApiAccess: the clock of the response cache, and pagination.
3. Proofs: once SseClient and AgentBridge are composed, the composition, by the
   theorem StreamImplementsFeed; and for AnoDaemon the safety part of its liveness
   (every wait of a client has a timer that is armed).
