-------------------------- MODULE DispatchPromises --------------------------
(***************************************************************************)
(* What a caller may expect of a warm process that runs its command: the   *)
(* state of the process that decides whose output, environment and exit    *)
(* are whose, and the two promises dispatchCli and its hosts make of it.   *)
(* CommandDispatch is the process that makes them.                         *)
(***************************************************************************)

CONSTANT Host   \* the process's own stdout, stderr, exit, cwd and environment

VARIABLES
  host,       \* which host this process is
  alive,      \* whether the process still runs
  stopping,   \* whether its 50 ms exit timer is armed
  phase,      \* where each request is
  installed,  \* whose replacements are in force
  flaws,      \* what is wrong with each request's result so far
  reply       \* the code of the reply to each request

\* The commands that execute in this process, abandoned ones included.
Active == {r \in DOMAIN phase : phase[r] \in {"running", "orphaned"}}

TimedOut == {r \in DOMAIN reply : reply[r] = "internal"}

\* As long as no dispatch has timed out, no result is mixed up with another
\* command's, the process is its own again between two commands and never
\* while one executes: what "State is restored before returning, so the next
\* request sees a clean process" (dispatchCli) comes to.
CleanUntilTimeout ==
  TimedOut = {} =>
    /\ \A r \in DOMAIN flaws : flaws[r] = {}
    /\ IF Active = {} THEN installed = Host ELSE installed \in Active

\* The stdio host, unless it was told to shut down, answers every line it has
\* read before it exits: no command of it reaches the real process.exit.
StdioAnswersEveryLine ==
  host = "stdio" /\ ~alive /\ ~stopping =>
    \A r \in DOMAIN phase :
      phase[r] # "new" => reply[r] \in {"ok", "rejected", "undispatched"}
=============================================================================
