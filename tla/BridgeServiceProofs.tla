------------------------- MODULE BridgeServiceProofs -------------------------
(***************************************************************************)
(* Proofs about BridgeService for any services and options, and any number *)
(* of commands, mishaps and logins.                                        *)
(***************************************************************************)
EXTENDS BridgeService, TLAPS

-----------------------------------------------------------------------------
(* The inductive invariant                                                 *)

\* The steps that a command goes through on each platform.
InstallSteps == {"validate", "write"} \cup
                (IF platform = "darwin" THEN {"unload", "load"} ELSE {"reload", "enable"})
UninstallSteps == IF platform = "darwin" THEN {"unload", "unlink"}
                  ELSE {"disable", "unlink", "reload"}

CmdInv ==
  cmd # NoCommand =>
    /\ cmd.svc \in Services
    /\ \/ cmd.op = "install" /\ cmd.opts \in Options /\ cmd.at \in InstallSteps
       \/ cmd.op = "uninstall" /\ cmd.at \in UninstallSteps

\* What an install has done so far.
InstallInv ==
  cmd.op = "install" /\ cmd.at \notin {"validate", "write"} =>
    /\ unit[cmd.svc] = cmd.opts
    /\ cmd.svc \notin removed
    /\ cmd.at = "load" => cmd.svc \in spared \/ loaded[cmd.svc] = None
    /\ cmd.at = "enable" => loaded[cmd.svc] = cmd.opts

\* What an uninstall has done so far.
UninstallInv ==
  cmd.op = "uninstall" /\ cmd.at \in {"unlink", "reload"} =>
    /\ promised[cmd.svc] = None
    /\ platform = "darwin" => cmd.svc \in spared \/ loaded[cmd.svc] = None
    /\ cmd.svc \in spared \/ life[cmd.svc] = "down"
    /\ cmd.at = "reload" => unit[cmd.svc] = None

\* A bridge runs with the options that the manager has read, except for one
\* that has been running since before systemd read them.
GivenInv ==
  \A s \in Services :
    Running(s) /\ given[s] # loaded[s] => platform = "linux" /\ s \in kept

IInv == /\ TypeOK
        /\ CmdInv
        /\ InstallInv
        /\ UninstallInv
        /\ GivenInv
        /\ RunsAsInstalled
        /\ RemovedStaysGone

-----------------------------------------------------------------------------
(* The invariant is inductive                                              *)

LEMMA InitInv == Init => IInv
BY ServiceAssumption DEF Init, IInv, TypeOK, CmdInv, InstallInv, UninstallInv, GivenInv,
   RunsAsInstalled, RemovedStaysGone, NoCommand, Commands, Nothing, Running

\* An install is asked for.
LEMMA BeginInstallInv ==
  ASSUME IInv, NEW s \in Services, NEW asked \in Options, InstallService(s, asked)
  PROVE  IInv'
<1> USE ServiceAssumption DEF IInv, InstallService, Give, Merged, Options,
      NoCommand, InstallSteps, UninstallSteps, Running, managerVars,
      bridgeVars, historyVars
<1>1. TypeOK'
  BY DEF TypeOK, CmdInv, Commands
<1>2. CmdInv'
  BY DEF TypeOK, CmdInv, Commands
<1>3. InstallInv'
  BY DEF TypeOK, CmdInv, InstallInv, Commands
<1>4. UninstallInv'
  BY DEF TypeOK, CmdInv, UninstallInv, Commands
<1>5. GivenInv'
  BY DEF TypeOK, CmdInv, InstallInv, GivenInv, Commands
<1>6. RunsAsInstalled'
  BY DEF TypeOK, CmdInv, InstallInv, UninstallInv, GivenInv, RunsAsInstalled,
         Commands
<1>7. RemovedStaysGone'
  BY DEF TypeOK, CmdInv, InstallInv, UninstallInv, RemovedStaysGone, Commands
<1> QED
  BY <1>1, <1>2, <1>3, <1>4, <1>5, <1>6, <1>7

\* An uninstall is asked for, of a service whose unit file is there.
LEMMA BeginUninstallInv ==
  ASSUME IInv, NEW s \in Installed,
         Give("uninstall", s, None, IF platform = "darwin" THEN "unload" ELSE "disable")
  PROVE  IInv'
<1> USE ServiceAssumption DEF IInv, Give, Installed, NoCommand, InstallSteps,
      UninstallSteps, Running, managerVars, bridgeVars, historyVars
<1>1. TypeOK'
  BY DEF TypeOK, CmdInv, Commands
<1>2. CmdInv'
  BY DEF TypeOK, CmdInv, Commands
<1>3. InstallInv'
  BY DEF TypeOK, CmdInv, InstallInv, Commands
<1>4. UninstallInv'
  BY DEF TypeOK, CmdInv, UninstallInv, Commands
<1>5. GivenInv'
  BY DEF TypeOK, CmdInv, InstallInv, GivenInv, Commands
<1>6. RunsAsInstalled'
  BY DEF TypeOK, CmdInv, InstallInv, UninstallInv, GivenInv, RunsAsInstalled,
         Commands
<1>7. RemovedStaysGone'
  BY DEF TypeOK, CmdInv, InstallInv, UninstallInv, RemovedStaysGone, Commands
<1> QED
  BY <1>1, <1>2, <1>3, <1>4, <1>5, <1>6, <1>7

\* A command ends half-way.
LEMMA StopsInv ==
  ASSUME IInv, Stops
  PROVE  IInv'
<1> USE ServiceAssumption DEF IInv, Stops, Mishap, NoCommand, InstallSteps,
      UninstallSteps, Running, managerVars, bridgeVars, historyVars
<1>1. TypeOK'
  BY DEF TypeOK, CmdInv, Commands
<1>2. CmdInv'
  BY DEF TypeOK, CmdInv, Commands
<1>3. InstallInv'
  BY DEF TypeOK, CmdInv, InstallInv, Commands
<1>4. UninstallInv'
  BY DEF TypeOK, CmdInv, UninstallInv, Commands
<1>5. GivenInv'
  BY DEF TypeOK, CmdInv, InstallInv, GivenInv, Commands
<1>6. RunsAsInstalled'
  BY DEF TypeOK, CmdInv, InstallInv, UninstallInv, GivenInv, RunsAsInstalled,
         Commands
<1>7. RemovedStaysGone'
  BY DEF TypeOK, CmdInv, InstallInv, UninstallInv, RemovedStaysGone, Commands
<1> QED
  BY <1>1, <1>2, <1>3, <1>4, <1>5, <1>6, <1>7

\* The install goes on or ends.
LEMMA ValidateInv ==
  ASSUME IInv, ValidateCredentials
  PROVE  IInv'
<1> USE ServiceAssumption DEF IInv, ValidateCredentials, At, GoTo, NoCommand,
      InstallSteps, UninstallSteps, Running, managerVars, bridgeVars,
      historyVars
<1>1. TypeOK'
  BY DEF TypeOK, CmdInv, Commands
<1>2. CmdInv'
  BY DEF TypeOK, CmdInv, Commands
<1>3. InstallInv'
  BY DEF TypeOK, CmdInv, InstallInv, Commands
<1>4. UninstallInv'
  BY DEF TypeOK, CmdInv, UninstallInv, Commands
<1>5. GivenInv'
  BY DEF TypeOK, CmdInv, InstallInv, GivenInv, Commands
<1>6. RunsAsInstalled'
  BY DEF TypeOK, CmdInv, InstallInv, UninstallInv, GivenInv, RunsAsInstalled,
         Commands
<1>7. RemovedStaysGone'
  BY DEF TypeOK, CmdInv, InstallInv, UninstallInv, RemovedStaysGone, Commands
<1> QED
  BY <1>1, <1>2, <1>3, <1>4, <1>5, <1>6, <1>7

\* The install writes the unit file.
LEMMA WriteUnitInv ==
  ASSUME IInv, WriteUnit
  PROVE  IInv'
<1> USE ServiceAssumption DEF IInv, WriteUnit, At, GoTo, NoCommand,
      InstallSteps, UninstallSteps, Running, managerVars, bridgeVars,
      historyVars
<1>1. TypeOK'
  BY DEF TypeOK, CmdInv, Commands
<1>2. CmdInv'
  BY DEF TypeOK, CmdInv, Commands
<1>3. InstallInv'
  BY DEF TypeOK, CmdInv, InstallInv, Commands
<1>4. UninstallInv'
  BY DEF TypeOK, CmdInv, UninstallInv, Commands
<1>5. GivenInv'
  BY DEF TypeOK, CmdInv, InstallInv, GivenInv, Commands
<1>6. RunsAsInstalled'
  BY DEF TypeOK, CmdInv, InstallInv, UninstallInv, GivenInv, RunsAsInstalled,
         Commands
<1>7. RemovedStaysGone'
  BY DEF TypeOK, CmdInv, InstallInv, UninstallInv, RemovedStaysGone, Commands
<1> QED
  BY <1>1, <1>2, <1>3, <1>4, <1>5, <1>6, <1>7

\* launchctl unload.
LEMMA UnloadInv ==
  ASSUME IInv, Unload
  PROVE  IInv'
<1> USE ServiceAssumption DEF IInv, Unload, GoTo, StopBridge, Withdraw,
      NoCommand, InstallSteps, UninstallSteps, Running, managerVars,
      bridgeVars, historyVars
<1>1. TypeOK'
  BY DEF TypeOK, CmdInv, Commands
<1>2. CmdInv'
  BY DEF TypeOK, CmdInv, Commands
<1>3. InstallInv'
  BY DEF TypeOK, CmdInv, InstallInv, Commands
<1>4. UninstallInv'
  BY DEF TypeOK, CmdInv, UninstallInv, Commands
<1>5. GivenInv'
  BY DEF TypeOK, CmdInv, InstallInv, GivenInv, Commands
<1>6. RunsAsInstalled'
  BY DEF TypeOK, CmdInv, InstallInv, UninstallInv, GivenInv, RunsAsInstalled,
         Commands
<1>7. RemovedStaysGone'
  BY DEF TypeOK, CmdInv, InstallInv, UninstallInv, RemovedStaysGone, Commands
<1> QED
  BY <1>1, <1>2, <1>3, <1>4, <1>5, <1>6, <1>7

\* launchctl unload fails.
LEMMA UnloadFailsInv ==
  ASSUME IInv, UnloadFails
  PROVE  IInv'
<1> USE ServiceAssumption DEF IInv, UnloadFails, Mishap, Withdraw, GoTo,
      NoCommand, InstallSteps, UninstallSteps, Running, managerVars,
      bridgeVars, historyVars
<1>1. TypeOK'
  BY DEF TypeOK, CmdInv, Commands
<1>2. CmdInv'
  BY DEF TypeOK, CmdInv, Commands
<1>3. InstallInv'
  BY DEF TypeOK, CmdInv, InstallInv, Commands
<1>4. UninstallInv'
  BY DEF TypeOK, CmdInv, UninstallInv, Commands
<1>5. GivenInv'
  BY DEF TypeOK, CmdInv, InstallInv, GivenInv, Commands
<1>6. RunsAsInstalled'
  BY DEF TypeOK, CmdInv, InstallInv, UninstallInv, GivenInv, RunsAsInstalled,
         Commands
<1>7. RemovedStaysGone'
  BY DEF TypeOK, CmdInv, InstallInv, UninstallInv, RemovedStaysGone, Commands
<1> QED
  BY <1>1, <1>2, <1>3, <1>4, <1>5, <1>6, <1>7

\* launchctl load: nothing is loaded then, or what would not stop.
LEMMA LoadInv ==
  ASSUME IInv, Load
  PROVE  IInv'
<1> USE ServiceAssumption DEF IInv, Load, Promise, StartWith, NoCommand,
      InstallSteps, UninstallSteps, Running, managerVars, bridgeVars,
      historyVars
<1>1. TypeOK'
  BY DEF TypeOK, CmdInv, Commands
<1>2. CmdInv'
  BY DEF TypeOK, CmdInv, Commands
<1>3. InstallInv'
  BY DEF TypeOK, CmdInv, InstallInv, Commands
<1>4. UninstallInv'
  BY DEF TypeOK, CmdInv, UninstallInv, Commands
<1>5. GivenInv'
  BY DEF TypeOK, CmdInv, InstallInv, GivenInv, Commands
<1>6. RunsAsInstalled'
  BY DEF TypeOK, CmdInv, InstallInv, UninstallInv, GivenInv, RunsAsInstalled,
         Commands
<1>7. RemovedStaysGone'
  BY DEF TypeOK, CmdInv, InstallInv, UninstallInv, RemovedStaysGone, Commands
<1> QED
  BY <1>1, <1>2, <1>3, <1>4, <1>5, <1>6, <1>7

\* systemctl daemon-reload.
LEMMA ReloadInv ==
  ASSUME IInv, Reload
  PROVE  IInv'
<1> USE ServiceAssumption DEF IInv, Reload, ReadUnits, GoTo, NoCommand,
      InstallSteps, UninstallSteps, Running, managerVars, bridgeVars,
      historyVars
<1>1. TypeOK'
  BY DEF TypeOK, CmdInv, Commands
<1>2. CmdInv'
  BY DEF TypeOK, CmdInv, Commands
<1>3. InstallInv'
  BY DEF TypeOK, CmdInv, InstallInv, Commands
<1>4. UninstallInv'
  BY DEF TypeOK, CmdInv, UninstallInv, Commands
<1>5. GivenInv'
  BY DEF TypeOK, CmdInv, InstallInv, GivenInv, Commands
<1>6. RunsAsInstalled'
  BY DEF TypeOK, CmdInv, InstallInv, UninstallInv, GivenInv, RunsAsInstalled,
         Commands
<1>7. RemovedStaysGone'
  BY DEF TypeOK, CmdInv, InstallInv, UninstallInv, RemovedStaysGone, Commands
<1> QED
  BY <1>1, <1>2, <1>3, <1>4, <1>5, <1>6, <1>7

\* systemctl enable --now.
LEMMA EnableInv ==
  ASSUME IInv, Enable
  PROVE  IInv'
<1> USE ServiceAssumption DEF IInv, Enable, Promise, StartWith, NoCommand,
      InstallSteps, UninstallSteps, Running, managerVars, bridgeVars,
      historyVars
<1>1. TypeOK'
  BY DEF TypeOK, CmdInv, Commands
<1>2. CmdInv'
  BY DEF TypeOK, CmdInv, Commands
<1>3. InstallInv'
  BY DEF TypeOK, CmdInv, InstallInv, Commands
<1>4. UninstallInv'
  BY DEF TypeOK, CmdInv, UninstallInv, Commands
<1>5. GivenInv'
  BY DEF TypeOK, CmdInv, InstallInv, GivenInv, Commands
<1>6. RunsAsInstalled'
  BY DEF TypeOK, CmdInv, InstallInv, UninstallInv, GivenInv, RunsAsInstalled,
         Commands
<1>7. RemovedStaysGone'
  BY DEF TypeOK, CmdInv, InstallInv, UninstallInv, RemovedStaysGone, Commands
<1> QED
  BY <1>1, <1>2, <1>3, <1>4, <1>5, <1>6, <1>7

\* systemctl disable --now.
LEMMA DisableInv ==
  ASSUME IInv, Disable
  PROVE  IInv'
<1> USE ServiceAssumption DEF IInv, Disable, StopBridge, Withdraw, GoTo,
      NoCommand, InstallSteps, UninstallSteps, Running, managerVars,
      bridgeVars, historyVars
<1>1. TypeOK'
  BY DEF TypeOK, CmdInv, Commands
<1>2. CmdInv'
  BY DEF TypeOK, CmdInv, Commands
<1>3. InstallInv'
  BY DEF TypeOK, CmdInv, InstallInv, Commands
<1>4. UninstallInv'
  BY DEF TypeOK, CmdInv, UninstallInv, Commands
<1>5. GivenInv'
  BY DEF TypeOK, CmdInv, InstallInv, GivenInv, Commands
<1>6. RunsAsInstalled'
  BY DEF TypeOK, CmdInv, InstallInv, UninstallInv, GivenInv, RunsAsInstalled,
         Commands
<1>7. RemovedStaysGone'
  BY DEF TypeOK, CmdInv, InstallInv, UninstallInv, RemovedStaysGone, Commands
<1> QED
  BY <1>1, <1>2, <1>3, <1>4, <1>5, <1>6, <1>7

\* systemctl disable --now fails.
LEMMA DisableFailsInv ==
  ASSUME IInv, DisableFails
  PROVE  IInv'
<1> USE ServiceAssumption DEF IInv, DisableFails, Mishap, Withdraw, GoTo,
      NoCommand, InstallSteps, UninstallSteps, Running, managerVars,
      bridgeVars, historyVars
<1>1. TypeOK'
  BY DEF TypeOK, CmdInv, Commands
<1>2. CmdInv'
  BY DEF TypeOK, CmdInv, Commands
<1>3. InstallInv'
  BY DEF TypeOK, CmdInv, InstallInv, Commands
<1>4. UninstallInv'
  BY DEF TypeOK, CmdInv, UninstallInv, Commands
<1>5. GivenInv'
  BY DEF TypeOK, CmdInv, InstallInv, GivenInv, Commands
<1>6. RunsAsInstalled'
  BY DEF TypeOK, CmdInv, InstallInv, UninstallInv, GivenInv, RunsAsInstalled,
         Commands
<1>7. RemovedStaysGone'
  BY DEF TypeOK, CmdInv, InstallInv, UninstallInv, RemovedStaysGone, Commands
<1> QED
  BY <1>1, <1>2, <1>3, <1>4, <1>5, <1>6, <1>7

\* The unit file goes.
LEMMA UnlinkUnitInv ==
  ASSUME IInv, UnlinkUnit
  PROVE  IInv'
<1> USE ServiceAssumption DEF IInv, UnlinkUnit, GoTo, NoCommand, InstallSteps,
      UninstallSteps, Running, managerVars, bridgeVars, historyVars
<1>1. TypeOK'
  BY DEF TypeOK, CmdInv, Commands
<1>2. CmdInv'
  BY DEF TypeOK, CmdInv, Commands
<1>3. InstallInv'
  BY DEF TypeOK, CmdInv, InstallInv, Commands
<1>4. UninstallInv'
  BY DEF TypeOK, CmdInv, UninstallInv, Commands
<1>5. GivenInv'
  BY DEF TypeOK, CmdInv, InstallInv, GivenInv, Commands
<1>6. RunsAsInstalled'
  BY DEF TypeOK, CmdInv, InstallInv, UninstallInv, GivenInv, RunsAsInstalled,
         Commands
<1>7. RemovedStaysGone'
  BY DEF TypeOK, CmdInv, InstallInv, UninstallInv, RemovedStaysGone, Commands
<1> QED
  BY <1>1, <1>2, <1>3, <1>4, <1>5, <1>6, <1>7

\* A bridge ends.
LEMMA EndsInv ==
  ASSUME IInv, NEW s \in Services, NEW how \in {"failed", "ended"}, Ends(s, how)
  PROVE  IInv'
<1> USE ServiceAssumption DEF IInv, Ends, Mishap, NoCommand, InstallSteps,
      UninstallSteps, Running, managerVars, bridgeVars, historyVars
<1>1. TypeOK'
  BY DEF TypeOK, CmdInv, Commands
<1>2. CmdInv'
  BY DEF TypeOK, CmdInv, Commands
<1>3. InstallInv'
  BY DEF TypeOK, CmdInv, InstallInv, Commands
<1>4. UninstallInv'
  BY DEF TypeOK, CmdInv, UninstallInv, Commands
<1>5. GivenInv'
  BY DEF TypeOK, CmdInv, InstallInv, GivenInv, Commands
<1>6. RunsAsInstalled'
  BY DEF TypeOK, CmdInv, InstallInv, UninstallInv, GivenInv, RunsAsInstalled,
         Commands
<1>7. RemovedStaysGone'
  BY DEF TypeOK, CmdInv, InstallInv, UninstallInv, RemovedStaysGone, Commands
<1> QED
  BY <1>1, <1>2, <1>3, <1>4, <1>5, <1>6, <1>7

\* The manager starts a bridge again.
LEMMA RestartInv ==
  ASSUME IInv, NEW s \in Services, RestartBridge(s)
  PROVE  IInv'
<1> USE ServiceAssumption DEF IInv, RestartBridge, StartWith, NoCommand,
      InstallSteps, UninstallSteps, Running, managerVars, bridgeVars,
      historyVars
<1>1. TypeOK'
  BY DEF TypeOK, CmdInv, Commands
<1>2. CmdInv'
  BY DEF TypeOK, CmdInv, Commands
<1>3. InstallInv'
  BY DEF TypeOK, CmdInv, InstallInv, Commands
<1>4. UninstallInv'
  BY DEF TypeOK, CmdInv, UninstallInv, Commands
<1>5. GivenInv'
  BY DEF TypeOK, CmdInv, InstallInv, GivenInv, Commands
<1>6. RunsAsInstalled'
  BY DEF TypeOK, CmdInv, InstallInv, UninstallInv, GivenInv, RunsAsInstalled,
         Commands
<1>7. RemovedStaysGone'
  BY DEF TypeOK, CmdInv, InstallInv, UninstallInv, RemovedStaysGone, Commands
<1> QED
  BY <1>1, <1>2, <1>3, <1>4, <1>5, <1>6, <1>7

\* A session begins.
LEMMA LoginInv ==
  ASSUME IInv, Login
  PROVE  IInv'
<1> USE ServiceAssumption DEF IInv, Login, Mishap, StartsAtLogin, NoCommand,
      InstallSteps, UninstallSteps, Running, managerVars, bridgeVars,
      historyVars
<1>1. TypeOK'
  BY DEF TypeOK, CmdInv, Commands
<1>2. CmdInv'
  BY DEF TypeOK, CmdInv, Commands
<1>3. InstallInv'
  BY DEF TypeOK, CmdInv, InstallInv, Commands
<1>4. UninstallInv'
  BY DEF TypeOK, CmdInv, UninstallInv, Commands
<1>5. GivenInv'
  BY DEF TypeOK, CmdInv, InstallInv, GivenInv, Commands
<1>6. RunsAsInstalled'
  BY DEF TypeOK, CmdInv, InstallInv, UninstallInv, GivenInv, RunsAsInstalled,
         Commands
<1>7. RemovedStaysGone'
  BY DEF TypeOK, CmdInv, InstallInv, UninstallInv, RemovedStaysGone, Commands
<1> QED
  BY <1>1, <1>2, <1>3, <1>4, <1>5, <1>6, <1>7

-----------------------------------------------------------------------------
(* The theorems                                                            *)

LEMMA Step == IInv /\ [Next]_vars => IInv'
<1> SUFFICES ASSUME IInv, [Next]_vars
             PROVE  IInv'
  OBVIOUS
<1>1. ASSUME NEW s \in Services, NEW asked \in Options, InstallService(s, asked)
      PROVE  IInv'
  BY <1>1, BeginInstallInv
<1>2. ASSUME NEW arg \in Services \cup Names \cup {None}, UninstallService(arg)
      PROVE  IInv'
  <2>1. PICK s \in Meant(arg) :
          Give("uninstall", s, None, IF platform = "darwin" THEN "unload" ELSE "disable")
    BY <1>2 DEF UninstallService
  <2>2. s \in Installed
    BY <2>1 DEF Meant
  <2> QED
    BY <2>1, <2>2, BeginUninstallInv
<1>3. ASSUME NEW s \in Services, RestartBridge(s) \/ Fails(s) \/ Terminated(s)
      PROVE  IInv'
  BY <1>3, RestartInv, EndsInv DEF Fails, Terminated
<1>4. CASE CommandStep
  BY <1>4, ValidateInv, WriteUnitInv, UnloadInv, LoadInv, ReloadInv, EnableInv,
     DisableInv, UnlinkUnitInv DEF CommandStep
<1>5. CASE UnloadFails \/ DisableFails \/ Stops \/ Login
  BY <1>5, UnloadFailsInv, DisableFailsInv, StopsInv, LoginInv
<1>6. CASE UNCHANGED vars
  BY <1>6 DEF vars, managerVars, bridgeVars, historyVars, IInv, TypeOK, CmdInv, InstallInv,
     UninstallInv, GivenInv, RunsAsInstalled, RemovedStaysGone, InstallSteps,
     UninstallSteps, Running
<1> QED
  BY <1>1, <1>2, <1>3, <1>4, <1>5, <1>6 DEF Next

LEMMA Invariance == Spec => []IInv
BY InitInv, Step, PTL DEF Spec

\* The type invariant, for any services, options and numbers of commands.
THEOREM TypeSafety == Spec => []TypeOK
<1>1. IInv => TypeOK
  BY DEF IInv
<1> QED
  BY <1>1, Invariance, PTL

\* service.ts:179-211: after an install that reported success its service runs
\* with the options of that install, for any number of services, failures,
\* logins and commands that fail or are killed half-way, except what already
\* runs and systemd does not start again or launchd failed to stop.
THEOREM RunsAsInstalledAlways == Spec => []RunsAsInstalled
<1>1. IInv => RunsAsInstalled
  BY DEF IInv
<1> QED
  BY <1>1, Invariance, PTL

\* service.ts:230-268: after an uninstall that reported success nothing of the
\* service is left to be started, for any number of services, failures, logins
\* and commands, except what the manager failed to stop, until the next login.
THEOREM RemovedStaysGoneAlways == Spec => []RemovedStaysGone
<1>1. IInv => RemovedStaysGone
  BY DEF IInv
<1> QED
  BY <1>1, Invariance, PTL
=============================================================================
