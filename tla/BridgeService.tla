---------------------------- MODULE BridgeService ----------------------------
(***************************************************************************)
(* The bridge as a service of the user's session: src/bridge/service.ts,   *)
(* and the two programs that install and remove one,                       *)
(* src/cli/commands/connect/index.ts and src/bridge-entry.ts.              *)
(*                                                                         *)
(* A command writes or removes a unit file (a plist on macOS) and tells    *)
(* the service manager.  It stops at its first error, or is killed, and    *)
(* nothing is undone; but a failure to stop what runs is ignored.  The     *)
(* service manager is external: it keeps what it has read of the unit      *)
(* files, starts a bridge again when it ends, and starts the installed     *)
(* ones at a login.  One command runs at a time, and a command that is     *)
(* refused for its arguments is left out: it changes nothing.  Of what a   *)
(* unit starts it matters here whether it runs and how it ends: the unit   *)
(* starts `npx ano-connect`, which this repository does not hold.          *)
(***************************************************************************)
EXTENDS Naturals, FiniteSets

CONSTANTS
  Services,     \* what serviceHash() tells apart: endpoint and start of the key
  Agents,       \* values of --openclaw-agent
  Main,         \* its default
  Settings,     \* the other options of a bridge
  Names,        \* names of workspaces, as arguments of uninstall-service
  MaxCommands,  \* bound: commands that are given
  MaxMishaps,   \* bound: bridges that end, calls of the manager that fail, logins
  None          \* no file, no options, no service

Options == [agent : Agents, rest : Settings]

ASSUME ServiceAssumption ==
  /\ Main \in Agents
  /\ Names \cap Services = {}
  /\ None \notin Options \cup Services \cup Names
  /\ MaxCommands \in Nat
  /\ MaxMishaps \in Nat

VARIABLES
  platform,  \* process.platform
  unit,      \* the options in each service's unit file
  loaded,    \* the options the manager has read there
  wanted,    \* the services that systemd starts at a login
  life,      \* what each service's bridge does
  given,     \* the options it was started with
  cmd,       \* the command that runs
  commands,  \* how many were given
  mishaps,   \* how many bridges ended, calls failed and sessions began
  promised,  \* the options an install has reported as installed (history)
  removed,   \* the services an uninstall has reported as removed (history)
  kept,      \* the bridges that ran when systemd last read the files (history)
  spared     \* the services that the manager failed to stop this session (history)

managerVars == <<loaded, wanted>>
bridgeVars == <<life, given>>
historyVars == <<promised, removed, kept, spared>>
vars == <<platform, unit, managerVars, bridgeVars, cmd, commands, mishaps, historyVars>>

NoCommand == [op |-> "none", svc |-> None, opts |-> None, at |-> "over"]

Commands ==
  [op : {"none", "install", "uninstall"}, svc : Services \cup {None},
   opts : Options \cup {None},
   at : {"over", "validate", "write", "unload", "load", "reload", "enable", "disable", "unlink"}]

TypeOK ==
  /\ platform \in {"darwin", "linux"}
  /\ unit \in [Services -> Options \cup {None}]
  /\ loaded \in [Services -> Options \cup {None}]
  /\ wanted \subseteq Services
  /\ life \in [Services -> {"down", "up", "failed", "ended"}]
  /\ given \in [Services -> Options \cup {None}]
  /\ cmd \in Commands
  /\ commands \in 0..MaxCommands
  /\ mishaps \in 0..MaxMishaps
  /\ promised \in [Services -> Options \cup {None}]
  /\ removed \subseteq Services
  /\ kept \subseteq Services
  /\ spared \subseteq Services

Nothing == [s \in Services |-> None]

Init == /\ platform \in {"darwin", "linux"}
        /\ unit = Nothing
        /\ loaded = Nothing
        /\ wanted = {}
        /\ life = [s \in Services |-> "down"]
        /\ given = Nothing
        /\ cmd = NoCommand
        /\ commands = 0
        /\ mishaps = 0
        /\ promised = Nothing
        /\ removed = {}
        /\ kept = {}
        /\ spared = {}

Running(s) == life[s] = "up"

Mishap == /\ mishaps < MaxMishaps
          /\ mishaps' = mishaps + 1

-----------------------------------------------------------------------------
(* The command lines. *)

\* `ano connect` takes the key from the flag or the environment, and removes
\* a service without one.
AnoAccepts(op, key) == op = "uninstall" \/ key # None

\* `ano-bridge` requires the flag, for each of its subcommands.
AnoBridgeAccepts(op, key) == key = "flag"

CanRun(op) == \E key \in {"flag", "environment", None} :
                AnoAccepts(op, key) \/ AnoBridgeAccepts(op, key)

\* The parent's options and then the subcommand's own: the parent has taken
\* every option that was given, but the subcommand has a default for the agent.
Merged(asked) == [asked EXCEPT !.agent = Main]

Give(op, s, o, at) == /\ cmd = NoCommand
                      /\ CanRun(op)
                      /\ commands < MaxCommands
                      /\ commands' = commands + 1
                      /\ cmd' = [op |-> op, svc |-> s, opts |-> o, at |-> at]
                      /\ UNCHANGED <<platform, unit, managerVars, bridgeVars, mishaps, historyVars>>

InstallService(s, asked) == Give("install", s, Merged(asked), "validate")

Installed == {s \in Services : unit[s] # None}

\* The service that is meant: the only one, or the one with that hash.  The
\* hash of a workspace's name is the hash of no service.
Meant(arg) == IF arg # None THEN {arg} \cap Installed
              ELSE IF Cardinality(Installed) = 1 THEN Installed ELSE {}

UninstallService(arg) ==
  \E s \in Meant(arg) :
    Give("uninstall", s, None, IF platform = "darwin" THEN "unload" ELSE "disable")

At(op, at) == /\ cmd.op = op
              /\ cmd.at = at

GoTo(at) == cmd' = [cmd EXCEPT !.at = at]

\* An error is thrown, a call of the manager fails, or the command is killed.
Stops == /\ cmd # NoCommand
         /\ Mishap
         /\ cmd' = NoCommand
         /\ UNCHANGED <<platform, unit, managerVars, bridgeVars, commands, historyVars>>

\* The server knows the key, or the install ends here.
ValidateCredentials ==
  /\ At("install", "validate")
  /\ GoTo("write") \/ cmd' = NoCommand
  /\ UNCHANGED <<platform, unit, managerVars, bridgeVars, commands, mishaps, historyVars>>

WriteUnit ==
  /\ At("install", "write")
  /\ unit' = [unit EXCEPT ![cmd.svc] = cmd.opts]
  /\ promised' = [promised EXCEPT ![cmd.svc] = None]
  /\ removed' = removed \ {cmd.svc}
  /\ GoTo(IF platform = "darwin" THEN "unload" ELSE "reload")
  /\ UNCHANGED <<platform, managerVars, bridgeVars, commands, mishaps, kept, spared>>

-----------------------------------------------------------------------------
(* The commands' calls to the service manager. *)

StartWith(s, o) == /\ life' = [life EXCEPT ![s] = "up"]
                   /\ given' = [given EXCEPT ![s] = o]

StopBridge(s) == /\ life' = [life EXCEPT ![s] = "down"]
                 /\ kept' = kept \ {s}
                 /\ spared' = spared \ {s}
                 /\ UNCHANGED given

Promise == /\ promised' = [promised EXCEPT ![cmd.svc] = cmd.opts]
           /\ cmd' = NoCommand

Withdraw == promised' = [promised EXCEPT ![cmd.svc] = None]

\* Mutant of Unload: an install leaves the job that is loaded.
UnloadForUninstall ==
  /\ cmd.at = "unload"
  /\ IF cmd.op = "install" THEN UNCHANGED <<loaded, bridgeVars, kept, spared>>
     ELSE loaded' = [loaded EXCEPT ![cmd.svc] = None] /\ StopBridge(cmd.svc)
  /\ Withdraw
  /\ GoTo(IF cmd.op = "install" THEN "load" ELSE "unlink")
  /\ UNCHANGED <<platform, unit, wanted, commands, mishaps, removed>>

\* launchctl unload stops the job, or there is none ("May not be loaded yet").
Unload ==
  /\ cmd.at = "unload"
  /\ loaded' = [loaded EXCEPT ![cmd.svc] = None]
  /\ StopBridge(cmd.svc)
  /\ Withdraw
  /\ GoTo(IF cmd.op = "install" THEN "load" ELSE "unlink")
  /\ UNCHANGED <<platform, unit, wanted, commands, mishaps, removed>>

\* launchctl unload fails on a job that is loaded, which is ignored too.
UnloadFails ==
  /\ cmd.at = "unload"
  /\ loaded[cmd.svc] # None
  /\ Mishap
  /\ Withdraw
  /\ spared' = spared \cup {cmd.svc}
  /\ GoTo(IF cmd.op = "install" THEN "load" ELSE "unlink")
  /\ UNCHANGED <<platform, unit, managerVars, bridgeVars, commands, removed, kept>>

\* launchctl load reads the plist and starts the bridge, unless the job is
\* loaded already.
Load ==
  /\ cmd.at = "load"
  /\ \/ /\ loaded[cmd.svc] = None
        /\ loaded' = [loaded EXCEPT ![cmd.svc] = unit[cmd.svc]]
        /\ StartWith(cmd.svc, unit[cmd.svc])
     \/ loaded[cmd.svc] # None /\ UNCHANGED <<loaded, bridgeVars>>
  /\ Promise
  /\ UNCHANGED <<platform, unit, wanted, commands, mishaps, removed, kept, spared>>

\* systemctl daemon-reload reads all unit files; the bridges that run go on.
ReadUnits == /\ loaded' = unit
             /\ kept' = {s \in Services : Running(s)}

Reload ==
  /\ cmd.at = "reload"
  /\ ReadUnits
  /\ \/ cmd.op = "install" /\ GoTo("enable") /\ UNCHANGED removed
     \/ cmd.op = "uninstall" /\ cmd' = NoCommand /\ removed' = removed \cup {cmd.svc}
  /\ UNCHANGED <<platform, unit, wanted, bridgeVars, commands, mishaps, promised, spared>>

\* systemctl enable --now starts a bridge that does not run, and no other.
Enable ==
  /\ cmd.at = "enable"
  /\ loaded[cmd.svc] # None
  /\ wanted' = wanted \cup {cmd.svc}
  /\ \/ Running(cmd.svc) /\ UNCHANGED bridgeVars
     \/ ~Running(cmd.svc) /\ StartWith(cmd.svc, loaded[cmd.svc])
  /\ Promise
  /\ UNCHANGED <<platform, unit, loaded, commands, mishaps, removed, kept, spared>>

Disable ==
  /\ cmd.at = "disable"
  /\ wanted' = wanted \ {cmd.svc}
  /\ StopBridge(cmd.svc)
  /\ Withdraw
  /\ GoTo("unlink")
  /\ UNCHANGED <<platform, unit, loaded, commands, mishaps, removed>>

\* systemctl disable --now fails, which is ignored ("May already be stopped").
DisableFails ==
  /\ cmd.at = "disable"
  /\ Mishap
  /\ Withdraw
  /\ spared' = spared \cup {cmd.svc}
  /\ GoTo("unlink")
  /\ UNCHANGED <<platform, unit, managerVars, bridgeVars, commands, removed, kept>>

\* Mutant of UnlinkUnit: systemd is not told that the file has gone.
UnlinkOnly ==
  /\ cmd.at = "unlink"
  /\ unit' = [unit EXCEPT ![cmd.svc] = None]
  /\ cmd' = NoCommand
  /\ removed' = removed \cup {cmd.svc}
  /\ UNCHANGED <<platform, managerVars, bridgeVars, commands, mishaps, promised, kept, spared>>

UnlinkUnit ==
  /\ cmd.at = "unlink"
  /\ unit' = [unit EXCEPT ![cmd.svc] = None]
  /\ \/ platform = "darwin" /\ cmd' = NoCommand /\ removed' = removed \cup {cmd.svc}
     \/ platform = "linux" /\ GoTo("reload") /\ UNCHANGED removed
  /\ UNCHANGED <<platform, managerVars, bridgeVars, commands, mishaps, promised, kept, spared>>

CommandStep ==
  \/ ValidateCredentials \/ WriteUnit \/ Unload \/ Load \/ Reload
  \/ Enable \/ Disable \/ UnlinkUnit

-----------------------------------------------------------------------------
(* The bridges and the session. *)

Ends(s, how) == /\ Running(s)
                /\ Mishap
                /\ life' = [life EXCEPT ![s] = how]
                /\ kept' = kept \ {s}
                /\ UNCHANGED <<platform, unit, managerVars, given, cmd, commands, promised, removed, spared>>

\* process.exit(1): no context after five attempts, or a 4xx answer.  A crash.
Fails(s) == Ends(s, "failed")

\* SIGTERM or SIGINT: process.exit(0), which is no failure to systemd.
Terminated(s) == Ends(s, IF platform = "linux" THEN "ended" ELSE "failed")

\* Restart=on-failure, KeepAlive.
RestartBridge(s) ==
  /\ life[s] = "failed"
  /\ loaded[s] # None
  /\ StartWith(s, loaded[s])
  /\ UNCHANGED <<platform, unit, managerVars, cmd, commands, mishaps, historyVars>>

StartsAtLogin(s) == unit[s] # None /\ (platform = "linux" => s \in wanted)

\* The session ends, with all that runs in it, and another one begins.
Login ==
  /\ Mishap
  /\ loaded' = unit
  /\ life' = [s \in Services |-> IF StartsAtLogin(s) THEN "up" ELSE "down"]
  /\ given' = [s \in Services |-> IF StartsAtLogin(s) THEN unit[s] ELSE None]
  /\ cmd' = NoCommand
  /\ kept' = {}
  /\ spared' = {}
  /\ UNCHANGED <<platform, unit, wanted, commands, promised, removed>>

Next == \/ \E s \in Services : \/ \E asked \in Options : InstallService(s, asked)
                               \/ RestartBridge(s) \/ Fails(s) \/ Terminated(s)
        \/ \E arg \in Services \cup Names \cup {None} : UninstallService(arg)
        \/ CommandStep \/ UnloadFails \/ DisableFails \/ Stops
        \/ Login

Spec == Init /\ [][Next]_vars

-----------------------------------------------------------------------------
\* service.ts:179-211: once an install has reported success, whatever the
\* service runs, after any failures, restarts, logins and failed commands, runs
\* with the options of that install.  There is one exception on each platform,
\* until the next login: on Linux the bridge that ran already, which `enable
\* --now` does not start again; on macOS the job that `launchctl unload` failed
\* to stop, which `load` then leaves as it is.
RunsAsInstalled ==
  \A s \in Services : promised[s] # None =>
    /\ unit[s] = promised[s]
    /\ loaded[s] # promised[s] => platform = "darwin" /\ s \in spared
    /\ platform = "linux" => s \in wanted
    /\ Running(s) /\ given[s] # promised[s] =>
         IF platform = "linux" THEN s \in kept ELSE s \in spared

\* service.ts:230-268: once an uninstall has reported success nothing of the
\* service is left, to be started at a login or after a failure.  A bridge that
\* `disable --now` failed to stop may run on, but is not started again; a job
\* that `launchctl unload` failed to stop stays, and is started again, until the
\* next login.
RemovedStaysGone ==
  \A s \in removed :
    /\ unit[s] = None
    /\ loaded[s] # None => platform = "darwin" /\ s \in spared
    /\ Running(s) => s \in spared
=============================================================================
