---------------------------- MODULE AgentBridge ----------------------------
(***************************************************************************)
(* The bridge in agent mode (src/bridge/bridge.ts): events from the stream *)
(* that are meant for the agent are queued and handled one at a time.  To  *)
(* handle one is to ask OpenClaw (retryFetch, with the bridge's retries),  *)
(* to read the streamed answer and to post what there is of it.            *)
(*                                                                         *)
(* The stream is EventFeed, which SseClient implements.  Events are        *)
(* numbered as the server publishes them, the agent's own replies          *)
(* included; log says of each what the bridge can tell.  Beside that the   *)
(* process sends what it is told to on stdin or by its control server.     *)
(* Typing indicators, webhooks, what is printed and the health server are  *)
(* left out: none of them touches this state.                              *)
(***************************************************************************)
EXTENDS Naturals, Sequences

CONSTANTS
  MaxForeign,     \* bound: the events that others publish
  MaxCommands,    \* bound: the messages sent on command
  MaxRestarts,    \* bound: how often the process is started again
  ContextTries,   \* attempts at /mcp/context (5)
  MaxRetries      \* maxRetries of the bridge's retryFetch (10)

ASSUME BridgeAssumption ==
  /\ MaxForeign \in Nat
  /\ MaxCommands \in Nat
  /\ MaxRestarts \in Nat
  /\ ContextTries \in Nat \ {0}
  /\ MaxRetries \in Nat

VARIABLES
  log,          \* what kind of event each published one is
  delivered,    \* the events passed to onEvent, by all processes so far
  fresh,        \* this process has no event to resume after
  proc,         \* the bridge's process
  tries,        \* failed attempts at /mcp/context
  restarts,     \* how often the process was started again
  agentQueue,   \* agentQueue
  agentBusy,    \* agentBusy
  task,         \* the event handleAgentEvent works on, 0 when there is none
  step,         \* where handleAgentEvent is
  attempt,      \* retryFetch's attempt counter
  text,         \* accumulated holds more than white space
  posted,       \* the events whose replies the server took, in its order
  over,         \* the events whose handling has ended
  lost          \* the events a process died with

feedVars == <<delivered, fresh>>
processVars == <<proc, tries, restarts>>
agentVars == <<agentQueue, agentBusy, task, step, attempt, text, over>>
vars == <<log, feedVars, processVars, agentVars, posted, lost>>

Feed == INSTANCE EventFeed WITH published <- Len(log)

\* "addressed": a direct message, a reply in a thread or a message that
\* mentions the agent; "blank": one of those without a channel or content;
\* "other": neither; "own": by the agent's own user.
Foreign == {"addressed", "blank", "other"}
Kinds == Foreign \cup {"own"}
Steps == {"idle", "start", "asking", "reading", "sending", "sent"}

TypeOK ==
  /\ log \in Seq(Kinds)
  /\ delivered \in Seq(Nat)
  /\ fresh \in BOOLEAN
  /\ proc \in {"starting", "up", "exited"}
  /\ tries \in 0..ContextTries
  /\ restarts \in 0..MaxRestarts
  /\ agentQueue \in Seq(Nat)
  /\ agentBusy \in BOOLEAN
  /\ task \in Nat
  /\ step \in Steps
  /\ attempt \in 0..MaxRetries
  /\ text \in BOOLEAN
  /\ posted \in Seq(Nat)
  /\ over \subseteq Nat
  /\ lost \subseteq Nat

Init == /\ log = <<>>
        /\ delivered = <<>>
        /\ fresh = TRUE
        /\ proc = "starting"
        /\ tries = 0
        /\ restarts = 0
        /\ agentQueue = <<>>
        /\ agentBusy = FALSE
        /\ task = 0
        /\ step = "idle"
        /\ attempt = 0
        /\ text = FALSE
        /\ posted = <<>>
        /\ over = {}
        /\ lost = {}

-----------------------------------------------------------------------------
(* The server publishes events, and the process starts and ends. *)

Publish(kind) == /\ Len(SelectSeq(log, LAMBDA k : k # "own")) < MaxForeign
                 /\ log' = Append(log, kind)
                 /\ UNCHANGED <<feedVars, processVars, agentVars, posted, lost>>

\* send_message or send_dm, on stdin or at the control server: handled at once,
\* beside the agent's queue.  The server takes the message as the agent's; one
\* that it refuses, a typing command or a command in error changes nothing.
HandleCommand ==
  /\ proc = "up"
  /\ Len(SelectSeq(log, LAMBDA k : k = "own")) < Len(posted) + MaxCommands
  /\ log' = Append(log, "own")
  /\ UNCHANGED <<feedVars, processVars, agentVars, posted, lost>>

\* /mcp/context is answered; the rest of the start leads to the stream.
ContextArrives == /\ proc = "starting"
                  /\ proc' = "up"
                  /\ UNCHANGED <<log, feedVars, tries, restarts, agentVars, posted, lost>>

\* A network error or a 5xx: try again, five times in all.
ContextFails == /\ proc = "starting"
                /\ tries' = tries + 1
                /\ proc' = IF tries + 1 = ContextTries THEN "exited" ELSE proc
                /\ UNCHANGED <<log, feedVars, restarts, agentVars, posted, lost>>

\* Any other answer, no user id in it, or a 401 or 403 of the stream.
Refused == /\ proc \in {"starting", "up"}
           /\ proc' = "exited"
           /\ UNCHANGED <<log, feedVars, tries, restarts, agentVars, posted, lost>>

Idle == /\ agentBusy' = FALSE
        /\ task' = 0
        /\ step' = "idle"
        /\ attempt' = 0
        /\ text' = FALSE

\* What the process was going to handle, it takes with it.
Pending == (IF task = 0 THEN {} ELSE {task}) \cup {agentQueue[i] : i \in DOMAIN agentQueue}

\* The process ended, or is killed, and the service manager starts it again:
\* the queue and the last event id are gone.
Restart == /\ restarts < MaxRestarts
           /\ restarts' = restarts + 1
           /\ proc' = "starting"
           /\ tries' = 0
           /\ agentQueue' = <<>>
           /\ Idle
           /\ lost' = lost \cup Pending
           /\ UNCHANGED <<log, posted, over>>
           /\ Feed!Restart

-----------------------------------------------------------------------------
(* The queue. *)

Begin(e) == /\ agentBusy' = TRUE
            /\ task' = e
            /\ step' = "start"
            /\ attempt' = 0
            /\ text' = FALSE

\* Mutant of ProcessQueue: the latest event is taken first.
ProcessLatest(q) ==
  \/ q = <<>> /\ agentQueue' = q /\ Idle
  \/ q # <<>> /\ agentQueue' = SubSeq(q, 1, Len(q) - 1) /\ Begin(q[Len(q)])

\* processAgentQueue, when it is not busy, with the queue q.
ProcessQueue(q) == \/ q = <<>> /\ agentQueue' = q /\ Idle
                   \/ q # <<>> /\ agentQueue' = Tail(q) /\ Begin(Head(q))

\* Mutant of Enqueue: an event that comes while the agent is busy is not queued.
EnqueueIfIdle(e) ==
  \/ /\ agentBusy
     /\ UNCHANGED <<agentQueue, agentBusy, task, step, attempt, text>>
  \/ /\ ~agentBusy
     /\ ProcessQueue(Append(agentQueue, e))

Enqueue(e) ==
  \/ /\ agentBusy
     /\ agentQueue' = Append(agentQueue, e)
     /\ UNCHANGED <<agentBusy, task, step, attempt, text>>
  \/ /\ ~agentBusy
     /\ ProcessQueue(Append(agentQueue, e))

\* Mutant of ForAgent: own events are not skipped.
EveryKind == {"addressed", "blank", "own"}

ForAgent == {"addressed", "blank"}

\* onEvent: print it, and enqueue it when it is for the agent.
OnEvent(e) == /\ proc = "up"
              /\ UNCHANGED <<log, processVars, posted, over, lost>>
              /\ Feed!Deliver(e)
              /\ \/ log[e] \in ForAgent /\ Enqueue(e)
                 \/ /\ log[e] \notin ForAgent
                    /\ UNCHANGED <<agentQueue, agentBusy, task, step, attempt, text>>

-----------------------------------------------------------------------------
(* handleAgentEvent. *)

At(s) == /\ proc = "up"
         /\ step = s

\* Mutant of TaskOver: agentBusy is not taken back.
TaskStaysBusy == /\ over' = over \cup {task}
                 /\ task' = 0
                 /\ step' = "idle"
                 /\ UNCHANGED <<agentQueue, agentBusy, attempt, text>>

\* handleAgentEvent returns or throws, and the next event is taken up.
TaskOver == /\ over' = over \cup {task}
            /\ ProcessQueue(agentQueue)

GoTo(s) == /\ step' = s
           /\ UNCHANGED <<agentQueue, agentBusy, task, attempt, text, over>>

Ask == /\ At("start")
       /\ \/ log[task] = "blank" /\ TaskOver
          \/ log[task] # "blank" /\ GoTo("asking")
       /\ UNCHANGED <<log, feedVars, processVars, posted, lost>>

OpenClawAnswers == /\ At("asking")
                   /\ GoTo("reading")
                   /\ UNCHANGED <<log, feedVars, processVars, posted, lost>>

\* A 500 is an application error, which is retried twice at most.
RetriesFor(failure) ==
  IF failure = "application" /\ MaxRetries > 2 THEN 2 ELSE MaxRetries

\* A network error, a 429, 502, 503 or 504 ("unclear"), or a 500.
Retry(failure) ==
  /\ At("asking")
  /\ attempt < RetriesFor(failure)
  /\ attempt' = attempt + 1
  /\ UNCHANGED <<agentQueue, agentBusy, task, step, text, over>>
  /\ UNCHANGED <<log, feedVars, processVars, posted, lost>>

\* The last attempt fails, or one gets another 4xx or an empty body.
GiveUp == /\ At("asking")
          /\ TaskOver
          /\ UNCHANGED <<log, feedVars, processVars, posted, lost>>

\* The first chunk that adds more than white space to accumulated.
ReadText == /\ At("reading")
            /\ ~text
            /\ text' = TRUE
            /\ UNCHANGED <<agentQueue, agentBusy, task, step, attempt, over>>
            /\ UNCHANGED <<log, feedVars, processVars, posted, lost>>

\* The stream ends, fails, or is silent for 60 seconds: what there is, is sent.
StreamEnds == /\ At("reading")
              /\ \/ text /\ GoTo("sending")
                 \/ ~text /\ TaskOver
              /\ UNCHANGED <<log, feedVars, processVars, posted, lost>>

\* The server stores the reply, which is published as the agent's message.
ServerTakesReply == /\ At("sending")
                    /\ posted' = Append(posted, task)
                    /\ log' = Append(log, "own")
                    /\ GoTo("sent")
                    /\ UNCHANGED <<feedVars, processVars, lost>>

\* The server refuses the reply, which apiPost does not notice (agent_sent is
\* printed all the same), or cannot be reached.
ReplyFails == /\ At("sending")
              /\ TaskOver
              /\ UNCHANGED <<log, feedVars, processVars, posted, lost>>

\* The answer to the reply arrives or is lost.  It is not sent again.
ReplyAnswered == /\ At("sent")
                 /\ TaskOver
                 /\ UNCHANGED <<log, feedVars, processVars, posted, lost>>

Handle == \/ Ask \/ OpenClawAnswers
          \/ \E failure \in {"unclear", "application"} : Retry(failure)
          \/ GiveUp \/ ReadText \/ StreamEnds
          \/ ServerTakesReply \/ ReplyFails \/ ReplyAnswered

Next == \/ \E kind \in Foreign : Publish(kind)
        \/ HandleCommand
        \/ ContextArrives \/ ContextFails \/ Refused \/ Restart
        \/ \E e \in 1..Len(log) : OnEvent(e)
        \/ Handle

Spec == Init /\ [][Next]_vars

\* Calls to OpenClaw and to the server end one way or another, and so do the
\* streamed answers: each chunk comes within 60 seconds of the one before,
\* but nothing in the code bounds their number.
Fairness == WF_vars(Handle)

FairSpec == Spec /\ Fairness

-----------------------------------------------------------------------------

\* Replies are posted in the order of the events they answer, and no event is
\* answered twice, over retries and restarts (the queue, bridge.ts:218-241).
RepliesFollowEvents ==
  \A i, j \in DOMAIN posted : i < j => posted[i] < posted[j]

\* The agent answers what is addressed to it and never its own replies, nor what
\* it was told to send, which come back over the stream as events.
AnswersOnlyOthers ==
  \A i \in DOMAIN posted : log[posted[i]] = "addressed"

\* An event for the agent that reached onEvent is waiting, being handled, done
\* with, or was lost with its process.
NothingIsForgotten ==
  \A i \in DOMAIN delivered :
    log[delivered[i]] \in ForAgent => delivered[i] \in Pending \cup over \cup lost

\* Nothing waits in the queue while no event is being handled: agentBusy is
\* taken back on every way out of handleAgentEvent.
QueueIsServed == agentQueue # <<>> => agentBusy /\ task # 0

\* Every event that was enqueued leaves the queue and is done with, unless the
\* process ends: none holds up the ones behind it for good.
EveryTaskEnds ==
  \A e \in 1..(2 * MaxForeign + MaxCommands) :
    e \in Pending ~> e \notin Pending \/ proc = "exited"
=============================================================================
