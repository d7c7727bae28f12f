--------------------------- MODULE CommandDispatch ---------------------------
(***************************************************************************)
(* How a warm process runs the commands of others inside itself:           *)
(* dispatchCli in src/daemon/server.ts, the promise chain that calls it in *)
(* attachConnection, and the second host of dispatchCli, `ano agent stdio` *)
(* (src/cli/commands/agent/stdio-runtime.ts).                              *)
(*                                                                         *)
(* dispatchCli replaces process.stdout.write, process.stderr.write,        *)
(* process.exit, the working directory and the environment in one          *)
(* synchronous step and puts back what it found in another.  They always   *)
(* move together, so the model has one variable, "installed": the request  *)
(* whose five replacements are in force, or Host.                          *)
(***************************************************************************)
EXTENDS DispatchPromises, Naturals, Sequences, FiniteSets

CONSTANTS
  Requests,   \* requests that reach the promise chain
  Unfit       \* those that the stdio host answers itself

ASSUME HostAssumption == Host \notin Requests

ASSUME UnfitAssumption == Unfit \subseteq Requests

\* The others are in DispatchPromises.
VARIABLES
  eof,        \* whether the input of the stdio host has ended
  chain,      \* the requests that wait on the promise chain
  saved       \* what each dispatch found and will put back

processVars == <<host, alive, stopping, eof>>
vars == <<processVars, chain, phase, installed, saved, flaws, reply>>

Owners == Requests \cup {Host}

Phase == {"new", "queued", "running", "orphaned", "over"}

\* "mixed": the buffers hold another command's output; "astray": some output
\* of the command is not in them; "misled": the command has read an
\* environment that is not its caller's.
Flaws == {"mixed", "astray", "misled"}

TypeOK ==
  /\ host \in {"daemon", "stdio"}
  /\ alive \in BOOLEAN
  /\ stopping \in BOOLEAN
  /\ eof \in BOOLEAN
  /\ chain \in Seq(Requests)
  /\ phase \in [Requests -> Phase]
  /\ installed \in Owners
  /\ saved \in [Requests -> Owners]
  /\ flaws \in [Requests -> SUBSET Flaws]
  /\ reply \in [Requests -> {"none", "ok", "internal", "rejected", "undispatched"}]

Init ==
  /\ host \in {"daemon", "stdio"}
  /\ alive = TRUE
  /\ stopping = FALSE
  /\ eof = FALSE
  /\ chain = <<>>
  /\ phase = [r \in Requests |-> "new"]
  /\ installed = Host
  /\ saved = [r \in Requests |-> Host]
  /\ flaws = [r \in Requests |-> {}]
  /\ reply = [r \in Requests |-> "none"]

-----------------------------------------------------------------------------
(* Helpers                                                                 *)

Running == {r \in Requests : phase[r] = "running"}

Goto(r, where) == phase' = [phase EXCEPT ![r] = where]

Answer(r, code) == reply' = [reply EXCEPT ![r] = code]

-----------------------------------------------------------------------------
(* The promise chain                                                       *)

Arrive(r) ==
  /\ phase[r] = "new" /\ ~eof
  /\ Goto(r, "queued")
  /\ chain' = Append(chain, r)
  /\ UNCHANGED <<processVars, installed, saved, flaws, reply>>

\* The daemon has turned away what it does not host before the chain.
Dispatched(r) == host = "stdio" => r \notin Unfit

\* dispatchCli up to its first await: remember what is there, replace it.
Begin ==
  /\ chain # <<>> /\ Running = {}
  /\ Dispatched(Head(chain))
  /\ LET r == Head(chain) IN
       /\ Goto(r, "running")
       /\ saved' = [saved EXCEPT ![r] = installed]
       /\ installed' = r
  /\ chain' = Tail(chain)
  /\ UNCHANGED <<processVars, flaws, reply>>

\* The stdio host, when its turn has come: a ping, a line that is no request of
\* this protocol, or a command that would not return, reads stdin, writes for
\* people, or is `agent stdio` itself.
AnswerUndispatched ==
  /\ chain # <<>> /\ Running = {}
  /\ ~Dispatched(Head(chain))
  /\ Goto(Head(chain), "over")
  /\ Answer(Head(chain), "undispatched")
  /\ chain' = Tail(chain)
  /\ UNCHANGED <<processVars, installed, saved, flaws>>

\* dispatchCli rejects before it has replaced anything (process.cwd() throws
\* when the directory is gone).  Both hosts answer "internal" as after a timeout,
\* but nothing has timed out: the daemon goes on.
RejectDispatch ==
  /\ chain # <<>> /\ Running = {}
  /\ Dispatched(Head(chain))
  /\ Goto(Head(chain), "over")
  /\ Answer(Head(chain), "rejected")
  /\ chain' = Tail(chain)
  /\ UNCHANGED <<processVars, installed, saved, flaws>>

\* Mutant of Restore: the replacements are left behind when a command ends.
RestoreForgotten(r) == installed' = r

\* The finally clause of dispatchCli.
Restore(r) == installed' = saved[r]

\* The command returns, throws, or calls a process.exit that somebody has
\* replaced: dispatchCli catches the sentinel.
End(r) ==
  /\ r \in Active
  /\ Restore(r)
  /\ Goto(r, "over")
  /\ IF phase[r] = "running" THEN Answer(r, "ok") ELSE UNCHANGED reply
  /\ UNCHANGED <<processVars, chain, saved, flaws>>

\* Mutant of Timeout: there is no timer, as before version 2.13.1.
TimeoutMissing(r) == FALSE /\ Answer(r, "internal")

\* The 60 s timer of the daemon wins Promise.race: the dispatch is abandoned,
\* the chain goes on and the process exits 50 ms later.  The stdio host has
\* no such timer.
Timeout(r) ==
  /\ host = "daemon"
  /\ phase[r] = "running"
  /\ Goto(r, "orphaned")
  /\ Answer(r, "internal")
  /\ stopping' = TRUE
  /\ UNCHANGED <<host, alive, eof, chain, installed, saved, flaws>>

-----------------------------------------------------------------------------
(* What a command does while it executes                                   *)

Mark(r, flaw) == IF r \in Running THEN flaws[r] \cup {flaw} ELSE flaws[r]

\* process.stdout.write or process.stderr.write.
Write(r) ==
  /\ r \in Active
  /\ flaws' = [s \in Requests |->
                IF installed = r THEN flaws[s]
                ELSE IF s = r THEN Mark(s, "astray")
                ELSE IF s = installed THEN Mark(s, "mixed")
                ELSE flaws[s]]
  /\ UNCHANGED <<processVars, chain, phase, installed, saved, reply>>

\* process.env or process.cwd(), which pick the credentials and the endpoint.
ReadEnv(r) ==
  /\ r \in Active
  /\ flaws' = IF installed = r THEN flaws
              ELSE [flaws EXCEPT ![r] = Mark(r, "misled")]
  /\ UNCHANGED <<processVars, chain, phase, installed, saved, reply>>

-----------------------------------------------------------------------------
(* The end of the process                                                  *)

Stop ==
  /\ alive' = FALSE
  /\ UNCHANGED <<host, stopping, eof, chain, phase, installed, saved, flaws, reply>>

\* A command calls process.exit while nobody has replaced it.
ExitForReal(r) == r \in Active /\ installed = Host /\ Stop

\* A "shutdown" request: the daemon handles it at once, the stdio host when
\* its turn on the chain has come.
RequestShutdown ==
  /\ host = "stdio" => Running = {} /\ ~eof
  /\ stopping' = TRUE
  /\ UNCHANGED <<host, alive, eof, chain, phase, installed, saved, flaws, reply>>

\* The timer runs out.  If a dispatch has replaced process.exit the sentinel
\* is thrown out of a timer callback, which ends the process as well.
TimedExit == stopping /\ Stop

EndOfInput ==
  /\ host = "stdio" /\ ~eof
  /\ eof' = TRUE
  /\ UNCHANGED <<host, alive, stopping, chain, phase, installed, saved, flaws, reply>>

\* Mutant of ExitAtEnd: process.exit without waiting for the chain.
ExitAtEndAtOnce == eof /\ Stop

\* queue.finally(() => process.exit(0)).
ExitAtEnd == eof /\ chain = <<>> /\ Running = {} /\ Stop

-----------------------------------------------------------------------------
CommandStep(r) == Write(r) \/ ReadEnv(r) \/ End(r) \/ ExitForReal(r)

Next ==
  /\ alive
  /\ \/ \E r \in Requests : Arrive(r) \/ CommandStep(r) \/ Timeout(r)
     \/ Begin \/ RejectDispatch \/ AnswerUndispatched
     \/ RequestShutdown \/ TimedExit
     \/ EndOfInput \/ ExitAtEnd

Spec == Init /\ [][Next]_vars

\* The event loop turns and timers fire; a command may hang for ever.
FairSpec ==
  /\ Spec
  /\ WF_vars(alive /\ (Begin \/ RejectDispatch \/ AnswerUndispatched))
  /\ WF_vars(alive /\ TimedExit)
  /\ WF_vars(alive /\ ExitAtEnd)
  /\ \A r \in Requests : WF_vars(alive /\ Timeout(r))

-----------------------------------------------------------------------------
\* A command that hangs cannot block the daemon for ever: every request that
\* was accepted is answered or the process exits (its client then sees the
\* socket close).
HungCommandIsContained ==
  \A r \in Requests :
    (host = "daemon" /\ phase[r] = "queued")
      ~> (reply[r] # "none" \/ ~alive)

=============================================================================
