--------------------------- MODULE CommandService ---------------------------
(***************************************************************************)
(* What `ano <command>` promises its caller, with no daemon in sight: the  *)
(* contract that src/index.ts and src/daemon/ implement together (module   *)
(* AnoDaemon).  A command is never dropped; it starts once, except that an *)
(* invocation that gave up on an answer may start it a second time, even   *)
(* after it has returned.                                                  *)
(***************************************************************************)
EXTENDS Naturals

CONSTANT Clients

VARIABLES
  status,  \* how far each invocation is
  runs     \* how many times its command was started

vars == <<status, runs>>

Init ==
  /\ status = [c \in Clients |-> "new"]
  /\ runs = [c \in Clients |-> 0]

Open(c) ==
  /\ status[c] = "new"
  /\ status' = [status EXCEPT ![c] = "open"]
  /\ UNCHANGED runs

\* The command starts somewhere.
Start(c) ==
  /\ status[c] \in {"open", "unsettled"}
  /\ runs[c] < 2
  /\ runs' = [runs EXCEPT ![c] = @ + 1]
  /\ UNCHANGED status

\* The invocation returns, certain that its command ran exactly once (it may
\* have run it itself, in this step).
Settle(c) ==
  /\ status[c] = "open"
  /\ runs[c] < 2
  /\ runs' = [runs EXCEPT ![c] = 1]
  /\ status' = [status EXCEPT ![c] = "settled"]

\* The invocation gave up on an answer, and runs its command itself.
RunAnyway(c) ==
  /\ status[c] = "open"
  /\ runs[c] < 2
  /\ runs' = [runs EXCEPT ![c] = @ + 1]
  /\ status' = [status EXCEPT ![c] = "unsettled"]

Next == \E c \in Clients : Open(c) \/ Start(c) \/ Settle(c) \/ RunAnyway(c)

Spec == Init /\ [][Next]_vars
=============================================================================
