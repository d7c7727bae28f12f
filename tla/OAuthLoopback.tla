--------------------------- MODULE OAuthLoopback ---------------------------
(***************************************************************************)
(* The loopback half of an OAuth sign-in (src/core/oauth-flow.ts): each    *)
(* `ano auth login` listens on one fixed port, once on 127.0.0.1 and once  *)
(* on ::1, opens the browser as soon as one of the two listens, and waits  *)
(* for the browser to come back with its state and a code.  Sign-ins of    *)
(* several processes share the port, so that a browser may come back to    *)
(* the wrong one.                                                          *)
(***************************************************************************)
EXTENDS Naturals, FiniteSets

CONSTANTS
  Commands   \* processes of the CLI

VARIABLES
  stack,     \* stack[c][s]: what c's server on address family s does
  flow,      \* how far captureAuthCode is in c
  opened,    \* commands whose authorize URL is open in a browser
  codeOf     \* the command whose code c was given

loopVars == <<stack, flow, opened, codeOf>>

Stacks == {"v4", "v6"}

LoopTypeOK ==
  /\ stack \in [Commands -> [Stacks -> {"closed", "pending", "listening", "down"}]]
  /\ flow \in [Commands -> {"idle", "waiting", "resolved", "rejected"}]
  /\ opened \in SUBSET Commands
  /\ codeOf \in [Commands -> Commands]

LoopInit ==
  /\ stack = [c \in Commands |-> [s \in Stacks |-> "closed"]]
  /\ flow = [c \in Commands |-> "idle"]
  /\ opened = {}
  /\ codeOf = [c \in Commands |-> c]

AllClosed == [s \in Stacks |-> "closed"]

\* captureAuthCode asks for both addresses at once
StartLoopback(c) ==
  /\ flow[c] = "idle"
  /\ flow' = [flow EXCEPT ![c] = "waiting"]
  /\ stack' = [stack EXCEPT ![c] = [s \in Stacks |-> "pending"]]
  /\ UNCHANGED <<opened, codeOf>>

\* finish: settled once, and both servers are closed with it
Settle(c, outcome) ==
  /\ flow[c] = "waiting"
  /\ flow' = [flow EXCEPT ![c] = outcome]
  /\ stack' = [stack EXCEPT ![c] = AllClosed]

InUse(s) == \E d \in Commands : stack[d][s] = "listening"

\* The address is bound, and the browser opened with the first of the two
Listening(c, s) ==
  /\ flow[c] = "waiting" /\ stack[c][s] = "pending" /\ ~InUse(s)
  /\ stack' = [stack EXCEPT ![c][s] = "listening"]
  /\ opened' = opened \cup {c}
  /\ UNCHANGED <<flow, codeOf>>

\* EADDRINUSE (another sign-in, or any other program), or a host without the
\* address family; the flow gives up only when both are down
BindFails(c, s) ==
  /\ flow[c] = "waiting" /\ stack[c][s] = "pending"
  /\ LET bound == [stack[c] EXCEPT ![s] = "down"]
     IN IF \A t \in Stacks : bound[t] = "down"
          THEN Settle(c, "rejected")
          ELSE stack' = [stack EXCEPT ![c] = bound] /\ flow' = flow
  /\ UNCHANGED <<opened, codeOf>>

\* Mutant of HandleCallback: the states are not compared.
HandleCallbackAnyState(c, d) ==
  /\ c \in opened
  /\ \E s \in Stacks : stack[d][s] = "listening"
  /\ \/ Settle(d, "resolved") /\ codeOf' = [codeOf EXCEPT ![d] = c]
     \/ Settle(d, "rejected") /\ UNCHANGED codeOf
  /\ UNCHANGED opened

\* The page that c opened comes back to whoever listens on the port, which is d:
\* with a code, and then the state decides, or with an error or without a code
HandleCallback(c, d) ==
  /\ c \in opened
  /\ \E s \in Stacks : stack[d][s] = "listening"
  /\ \/ /\ d = c
        /\ Settle(d, "resolved")
        /\ codeOf' = [codeOf EXCEPT ![d] = c]
     \/ Settle(d, "rejected") /\ UNCHANGED codeOf
  /\ UNCHANGED opened

CallbackTimeout(c) ==
  /\ Settle(c, "rejected")
  /\ UNCHANGED <<opened, codeOf>>

LoopNext(c) ==
  \/ \E s \in Stacks : Listening(c, s) \/ BindFails(c, s)
  \/ \E d \in Commands : HandleCallback(d, c)
  \/ CallbackTimeout(c)

\* A code goes to the sign-in that asked for it, however many of them share the
\* port and whichever listener the browser finds (oauth-flow.ts:243).
OwnCodeOnly == \A c \in Commands : flow[c] = "resolved" => codeOf[c] = c
=============================================================================
