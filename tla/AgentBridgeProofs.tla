------------------------- MODULE AgentBridgeProofs -------------------------
(***************************************************************************)
(* Proofs about AgentBridge for any number of events, retries and          *)
(* restarts.  RepliesFollowEvents is not inductive: what is posted next is *)
(* the task, what is handled next is the head of the queue, and what is    *)
(* queued next comes after the last delivered event.  OrderInv says that   *)
(* posted, task, queue and stream are in that order.  The second part is   *)
(* about the stream itself: SseClient keeps what StreamPromises says and   *)
(* implements the EventFeed that AgentBridge is built on.                  *)
(***************************************************************************)
EXTENDS AgentBridge, StreamPromises, SequenceTheorems, TLAPS

Latest == Feed!Last

\* What was delivered exists, and the last delivered event is the latest.
StreamInv ==
  /\ Latest \in 0..Len(log)
  /\ \A i \in 1..Len(delivered) : delivered[i] \in 1..Latest

\* An event is being handled exactly while agentBusy is set.
BusyInv ==
  /\ agentBusy <=> task # 0
  /\ step = "idle" <=> task = 0
  /\ task = 0 => agentQueue = <<>>

QueueOrder ==
  /\ \A i \in 1..Len(agentQueue) : agentQueue[i] \in 1..Latest
  /\ \A i, j \in 1..Len(agentQueue) : i < j => agentQueue[i] < agentQueue[j]

TaskOrder ==
  /\ task <= Latest
  /\ \A i \in 1..Len(agentQueue) : task < agentQueue[i]

PostedOrder ==
  /\ \A i \in 1..Len(posted) : posted[i] \in 1..Latest
  /\ \A i, j \in 1..Len(posted) : i < j => posted[i] < posted[j]
  /\ \A i \in 1..Len(posted), k \in 1..Len(agentQueue) : posted[i] < agentQueue[k]
  /\ task # 0 =>
       \A i \in 1..Len(posted) : posted[i] < task \/ (posted[i] = task /\ step = "sent")

OrderInv == QueueOrder /\ TaskOrder /\ PostedOrder

\* Only what is for the agent is queued and handled, and only what has a
\* channel and content goes further than the first step.
KindInv ==
  /\ \A i \in 1..Len(agentQueue) : log[agentQueue[i]] \in ForAgent
  /\ task # 0 => log[task] \in ForAgent
  /\ task # 0 /\ step # "start" => log[task] = "addressed"
  /\ AnswersOnlyOthers

\* The process gives up at the last attempt at its context.
StartInv == proc = "starting" => tries < ContextTries

IInv == TypeOK /\ StartInv /\ StreamInv /\ BusyInv /\ OrderInv /\ KindInv /\ NothingIsForgotten

-----------------------------------------------------------------------------
(* The pieces that the actions are made of. *)

\* An event is pending when it is the task or in the queue.
LEMMA PendingMembers ==
  ASSUME NEW e
  PROVE  e \in Pending <=> \/ task # 0 /\ e = task
                           \/ \E i \in DOMAIN agentQueue : agentQueue[i] = e
BY DEF Pending

\* A delivered event becomes the latest one.
LEMMA DeliverFacts ==
  ASSUME TypeOK, StreamInv, NEW e \in Nat, Feed!Deliver(e)
  PROVE  /\ delivered' = Append(delivered, e)
         /\ delivered' \in Seq(Nat)
         /\ fresh' = FALSE
         /\ Len(delivered') = Len(delivered) + 1
         /\ \A i \in 1..Len(delivered) : delivered'[i] = delivered[i]
         /\ delivered'[Len(delivered) + 1] = e
         /\ Latest' = e
         /\ Latest < e
         /\ e <= Len(log)
<1>1. delivered' = Append(delivered, e) /\ fresh' = FALSE /\ e \in (Latest + 1)..Len(log)
  BY DEF Feed!Deliver, Latest
<1>2. /\ delivered' \in Seq(Nat)
      /\ Len(delivered') = Len(delivered) + 1
      /\ \A i \in 1..Len(delivered) : delivered'[i] = delivered[i]
      /\ delivered'[Len(delivered) + 1] = e
  BY <1>1 DEF TypeOK
<1>3. Latest' = e
  <2>1. delivered' # <<>>
    BY <1>2 DEF TypeOK
  <2> QED
    BY <2>1, <1>2 DEF Latest, Feed!Last
<1> QED
  BY <1>1, <1>2, <1>3 DEF StreamInv

\* What takes an event from the queue leaves the others as they were.
LEMMA TailFacts ==
  ASSUME NEW q \in Seq(Nat), q # <<>>
  PROVE  /\ Tail(q) \in Seq(Nat)
         /\ Len(q) \in Nat \ {0}
         /\ Len(Tail(q)) = Len(q) - 1
         /\ \A i \in 1..Len(Tail(q)) : Tail(q)[i] = q[i + 1] /\ i + 1 \in 1..Len(q)
         /\ Head(q) = q[1]
         /\ 1 \in 1..Len(q)
         /\ Head(q) \in Nat
         /\ \A i \in 2..Len(q) : i - 1 \in 1..Len(Tail(q)) /\ Tail(q)[i - 1] = q[i]
<1>1. Len(q) \in Nat \ {0} /\ Head(q) = q[1] /\ Len(Tail(q)) = Len(q) - 1
  OBVIOUS
<1>2. Tail(q) \in Seq(Nat) /\ \A i \in 1..Len(Tail(q)) : Tail(q)[i] = q[i + 1]
  OBVIOUS
<1> QED
  BY <1>1, <1>2

\* Appending leaves what was there, and puts one more behind it.
LEMMA AppendFacts ==
  ASSUME NEW q \in Seq(Nat), NEW e \in Nat
  PROVE  /\ Append(q, e) \in Seq(Nat)
         /\ Len(q) \in Nat
         /\ Len(Append(q, e)) = Len(q) + 1
         /\ \A i \in 1..Len(q) : Append(q, e)[i] = q[i]
         /\ Append(q, e)[Len(q) + 1] = e
OBVIOUS

\* An empty queue is a queue.
LEMMA EmptyQueue == Len(<<>>) = 0 /\ <<>> \in Seq(Nat)
OBVIOUS

\* The log grows at its end.
LEMMA AppendedLog ==
  ASSUME TypeOK, NEW kind \in Kinds, log' = Append(log, kind)
  PROVE  /\ log' \in Seq(Kinds)
         /\ Len(log) \in Nat
         /\ Len(log') = Len(log) + 1
         /\ \A i \in 1..Len(log) : log'[i] = log[i]
BY DEF TypeOK

\* The last delivered event is what the stream says it is.
LEMMA SameStream == ASSUME UNCHANGED delivered PROVE Latest' = Latest
BY DEF Latest, Feed!Last

\* What is pending stays so, or is over.
LEMMA StillRemembered ==
  ASSUME IInv, UNCHANGED <<log, delivered>>, over \subseteq over', lost \subseteq lost',
         \A e \in Pending : e \in Pending' \cup over' \cup lost'
  PROVE  NothingIsForgotten'
BY DEF IInv, NothingIsForgotten

-----------------------------------------------------------------------------
(* Each action preserves the invariant. *)

\* A bridge that has just been started has nothing in hand.
LEMMA InitInv == Init => IInv
<1> SUFFICES ASSUME Init PROVE IInv
  OBVIOUS
<1>1. TypeOK /\ StartInv
  <2>1. <<>> \in Seq(Nat) /\ <<>> \in Seq(Kinds)
    OBVIOUS
  <2>2. 0 \in 0..MaxRestarts /\ 0 \in 0..ContextTries /\ 0 < ContextTries /\ 0 \in 0..MaxRetries
    BY BridgeAssumption
  <2> QED
    BY <2>1, <2>2 DEF Init, TypeOK, StartInv, Steps
<1>2. Latest = 0 /\ Len(log) = 0 /\ Len(delivered) = 0
  BY EmptyQueue DEF Init, Latest, Feed!Last
<1>3. StreamInv /\ BusyInv
  BY <1>2 DEF Init, StreamInv, BusyInv
<1>4. OrderInv
  BY <1>2, EmptyQueue DEF Init, OrderInv, QueueOrder, TaskOrder, PostedOrder
<1>5. KindInv /\ NothingIsForgotten
  BY EmptyQueue DEF Init, KindInv, AnswersOnlyOthers, NothingIsForgotten
<1> QED
  BY <1>1, <1>3, <1>4, <1>5 DEF IInv

\* A message of somebody else's, or one sent on command, reaches the log.
LEMMA PublishInv ==
  ASSUME IInv, NEW kind \in Kinds, log' = Append(log, kind),
         UNCHANGED <<feedVars, processVars, agentVars, posted, lost>>
  PROVE  IInv'
<1> USE DEF IInv
<1>2. /\ log' \in Seq(Kinds)
      /\ Len(log) \in Nat
      /\ Len(log') = Len(log) + 1
      /\ \A i \in 1..Len(log) : log'[i] = log[i]
  BY AppendedLog
<1>3. UNCHANGED <<delivered, fresh, proc, tries, restarts, agentQueue, agentBusy, task,
                  step, attempt, text, over, posted, lost>>
  BY DEF feedVars, processVars, agentVars
<1>4. Latest' = Latest
  BY <1>3, SameStream
<1>5. TypeOK' /\ StartInv'
  BY <1>2, <1>3 DEF TypeOK, StartInv
<1>6. StreamInv' /\ BusyInv'
  BY <1>2, <1>3, <1>4 DEF StreamInv, BusyInv
<1>7. OrderInv'
  BY <1>3, <1>4 DEF OrderInv, QueueOrder, TaskOrder, PostedOrder
<1>8. Latest \in Nat /\ \A e \in 1..Latest : log'[e] = log[e]
  BY <1>2 DEF StreamInv
<1>9. KindInv'
  <2>1. \A i \in 1..Len(agentQueue) : log'[agentQueue[i]] = log[agentQueue[i]]
    BY <1>8 DEF OrderInv, QueueOrder
  <2>2. task # 0 => log'[task] = log[task]
    <3>1. task \in Nat /\ task <= Latest
      BY DEF TypeOK, OrderInv, TaskOrder
    <3>2. task # 0 => task \in 1..Latest
      BY <3>1, <1>8
    <3> QED
      BY <3>2, <1>8
  <2>3. \A i \in 1..Len(posted) : log'[posted[i]] = log[posted[i]]
    BY <1>8 DEF OrderInv, PostedOrder
  <2>4. DOMAIN posted = 1..Len(posted) /\ DOMAIN posted' = 1..Len(posted)
    BY <1>3 DEF TypeOK
  <2> QED
    BY <2>1, <2>2, <2>3, <2>4, <1>3 DEF KindInv, AnswersOnlyOthers
<1>10. NothingIsForgotten'
  <2>1. DOMAIN delivered = 1..Len(delivered)
    BY DEF TypeOK
  <2>2. \A i \in DOMAIN delivered : log'[delivered[i]] = log[delivered[i]]
    BY <2>1, <1>8 DEF StreamInv
  <2>3. Pending' = Pending
    BY <1>3 DEF Pending
  <2> QED
    BY <2>2, <2>3, <1>3 DEF NothingIsForgotten
<1> QED
  BY <1>5, <1>6, <1>7, <1>9, <1>10

\* Steps that only start or end the process.
LEMMA ProcessInv ==
  ASSUME IInv, ContextArrives \/ ContextFails \/ Refused
  PROVE  IInv'
<1> USE DEF IInv
<1>1. UNCHANGED <<log, delivered, fresh, restarts, agentQueue, agentBusy, task,
                  step, attempt, text, over, posted, lost>>
  BY DEF ContextArrives, ContextFails, Refused, feedVars, agentVars
<1>2. TypeOK' /\ StartInv'
  <2>1. proc' \in {"starting", "up", "exited"}
    BY DEF TypeOK, ContextArrives, ContextFails, Refused
  <2>2. tries' \in 0..ContextTries /\ StartInv'
    BY BridgeAssumption DEF TypeOK, StartInv, ContextArrives, ContextFails, Refused
  <2> QED
    BY <1>1, <2>1, <2>2 DEF TypeOK
<1>3. Latest' = Latest /\ Pending' = Pending
  BY <1>1, SameStream DEF Pending
<1>4. StreamInv' /\ BusyInv' /\ OrderInv'
  BY <1>1, <1>3 DEF StreamInv, BusyInv, OrderInv, QueueOrder, TaskOrder, PostedOrder
<1>5. KindInv' /\ NothingIsForgotten'
  BY <1>1, <1>3 DEF KindInv, AnswersOnlyOthers, NothingIsForgotten
<1> QED
  BY <1>2, <1>4, <1>5

\* A restart empties the queue, and what was in it is lost.
LEMMA RestartInv ==
  ASSUME IInv, Restart
  PROVE  IInv'
<1> USE DEF IInv
<1>1. /\ agentQueue' = <<>> /\ agentBusy' = FALSE /\ task' = 0 /\ step' = "idle"
      /\ attempt' = 0 /\ text' = FALSE /\ proc' = "starting" /\ tries' = 0
      /\ restarts < MaxRestarts /\ restarts' = restarts + 1 /\ fresh' = TRUE
      /\ lost' = lost \cup Pending
      /\ UNCHANGED <<log, delivered, posted, over>>
  BY DEF Restart, Idle, Feed!Restart
<1>2. Latest' = Latest
  BY <1>1, SameStream
<1>3. Pending \subseteq Nat
  BY DEF Pending, TypeOK
<1>4. TypeOK' /\ StartInv'
  <2>1. restarts' \in 0..MaxRestarts
    BY <1>1, BridgeAssumption DEF TypeOK
  <2>2. agentQueue' \in Seq(Nat) /\ attempt' \in 0..MaxRetries /\ tries' \in 0..ContextTries
    BY <1>1, EmptyQueue, BridgeAssumption
  <2>3. StartInv'
    BY <1>1, BridgeAssumption DEF StartInv
  <2> QED
    BY <1>1, <1>3, <2>1, <2>2, <2>3 DEF TypeOK, Steps
<1>5. StreamInv' /\ BusyInv'
  BY <1>1, <1>2 DEF StreamInv, BusyInv
<1>6. OrderInv'
  BY <1>1, <1>2, EmptyQueue DEF OrderInv, QueueOrder, TaskOrder, PostedOrder, StreamInv
<1>7. KindInv'
  BY <1>1, EmptyQueue DEF KindInv, AnswersOnlyOthers
<1>8. NothingIsForgotten'
  BY <1>1, StillRemembered
<1> QED
  BY <1>4, <1>5, <1>6, <1>7, <1>8

\* Steps of handleAgentEvent that go on with the same event and post nothing.
Continues ==
  /\ task # 0
  /\ step' \in Steps \ {"idle", "start"}
  /\ step' # "sent"
  /\ step # "sent"
  /\ log[task] = "addressed"
  /\ attempt' \in 0..MaxRetries
  /\ text' \in BOOLEAN
  /\ UNCHANGED <<log, feedVars, processVars, agentQueue, agentBusy, task, over, posted, lost>>

\* The agent goes on to a later step of the same event.
LEMMA ContinuesInv ==
  ASSUME IInv, Continues
  PROVE  IInv'
<1> USE DEF IInv
<1>1. UNCHANGED <<log, delivered, fresh, proc, tries, restarts, agentQueue, agentBusy, task,
                  over, posted, lost>>
  BY DEF Continues, feedVars, processVars
<1>2. Latest' = Latest /\ Pending' = Pending
  BY <1>1, SameStream DEF Pending
<1>3. TypeOK' /\ StartInv'
  BY <1>1 DEF TypeOK, StartInv, Continues
<1>4. StreamInv' /\ BusyInv'
  BY <1>1, <1>2 DEF StreamInv, BusyInv, Continues
<1>5. QueueOrder' /\ TaskOrder'
  BY <1>1, <1>2 DEF OrderInv, QueueOrder, TaskOrder
<1>6. PostedOrder'
  BY <1>1, <1>2 DEF OrderInv, PostedOrder, Continues
<1>7. KindInv'
  BY <1>1 DEF KindInv, AnswersOnlyOthers, Continues
<1>8. NothingIsForgotten'
  BY <1>1, <1>2, StillRemembered
<1> QED
  BY <1>3, <1>4, <1>5, <1>6, <1>7, <1>8 DEF OrderInv

\* The end of an event's handling, and the beginning of the next one's.
Finishes ==
  /\ task # 0
  /\ TaskOver
  /\ UNCHANGED <<log, feedVars, processVars, posted, lost>>

\* The agent is done with an event and takes the next.
LEMMA FinishesInv ==
  ASSUME IInv, Finishes
  PROVE  IInv'
<1> USE DEF IInv
<1>1. /\ UNCHANGED <<log, delivered, fresh, proc, tries, restarts, posted, lost>>
      /\ over' = over \cup {task}
      /\ ProcessQueue(agentQueue)
  BY DEF Finishes, TaskOver, feedVars, processVars
<1>2. Latest' = Latest
  BY <1>1, SameStream
<1>3. agentQueue \in Seq(Nat) /\ over' \subseteq Nat
  BY <1>1 DEF TypeOK
<1>4. StreamInv' /\ StartInv'
  BY <1>1, <1>2 DEF StreamInv, StartInv
<1>5. ASSUME agentQueue = <<>>  PROVE IInv'
  <2>1. /\ agentQueue' = <<>> /\ agentBusy' = FALSE /\ task' = 0 /\ step' = "idle"
        /\ attempt' = 0 /\ text' = FALSE
    BY <1>1, <1>5 DEF ProcessQueue, Idle
  <2>2. TypeOK'
    <3>1. 0 \in 0..MaxRetries
      BY BridgeAssumption
    <3> QED
      BY <1>1, <1>3, <2>1, <3>1, EmptyQueue DEF TypeOK, Steps
  <2>3. BusyInv'
    BY <2>1 DEF BusyInv
  <2>4. OrderInv'
    BY <1>1, <1>2, <2>1, EmptyQueue DEF OrderInv, QueueOrder, TaskOrder, PostedOrder, StreamInv
  <2>5. KindInv'
    BY <1>1, <2>1, EmptyQueue DEF KindInv, AnswersOnlyOthers
  <2>6. NothingIsForgotten'
    <3>1. \A e \in Pending : e \in over'
      BY <1>1, <1>5, PendingMembers, EmptyQueue
    <3> QED
      BY <3>1, <1>1, StillRemembered
  <2> QED
    BY <1>4, <2>2, <2>3, <2>4, <2>5, <2>6
<1>6. ASSUME agentQueue # <<>>  PROVE IInv'
  <2> DEFINE q == agentQueue
  <2>1. /\ agentQueue' = Tail(q) /\ agentBusy' = TRUE /\ task' = Head(q) /\ step' = "start"
        /\ attempt' = 0 /\ text' = FALSE
    BY <1>1, <1>6 DEF ProcessQueue, Begin
  <2>2. /\ agentQueue' \in Seq(Nat)
        /\ Len(q) \in Nat \ {0}
        /\ Len(agentQueue') = Len(q) - 1
        /\ \A i \in 1..Len(agentQueue') : agentQueue'[i] = q[i + 1] /\ i + 1 \in 1..Len(q)
        /\ task' = q[1] /\ task' \in Nat /\ 1 \in 1..Len(q)
        /\ \A i \in 2..Len(q) : i - 1 \in 1..Len(agentQueue') /\ agentQueue'[i - 1] = q[i]
    BY <2>1, <1>3, <1>6, TailFacts
  <2> HIDE DEF q
  <2>3. TypeOK'
    <3>1. 0 \in 0..MaxRetries
      BY BridgeAssumption
    <3> QED
      BY <1>1, <1>3, <2>1, <2>2, <3>1 DEF TypeOK, Steps
  <2>4. QueueOrder'
    BY <1>2, <2>2 DEF OrderInv, QueueOrder, q
  <2>5. task' \in 1..Latest
    BY <2>2 DEF OrderInv, QueueOrder, q
  <2>6. BusyInv'
    BY <2>1, <2>5 DEF BusyInv, StreamInv
  <2>7. TaskOrder'
    BY <1>2, <2>2, <2>5 DEF OrderInv, QueueOrder, TaskOrder, StreamInv, q
  <2>8. PostedOrder'
    BY <1>1, <1>2, <2>1, <2>2 DEF OrderInv, PostedOrder, q
  <2>9. KindInv'
    BY <1>1, <2>1, <2>2 DEF KindInv, AnswersOnlyOthers, q
  <2>10. NothingIsForgotten'
    <3>1. ASSUME NEW e \in Pending  PROVE e \in Pending' \cup over'
      <4>1. CASE e = task
        BY <4>1, <1>1
      <4>2. ASSUME NEW i \in DOMAIN agentQueue, e = agentQueue[i]  PROVE e \in Pending'
        <5>1. i \in 1..Len(q)
          BY <1>3 DEF q
        <5>2. CASE i = 1
          BY <4>2, <5>2, <2>2, <2>5 DEF Pending, q, StreamInv
        <5>3. CASE i # 1
          <6>1. i - 1 \in 1..Len(agentQueue') /\ agentQueue'[i - 1] = e
            BY <4>2, <5>1, <5>3, <2>2 DEF q
          <6>2. i - 1 \in DOMAIN agentQueue'
            BY <6>1, <2>2
          <6> QED
            BY <6>1, <6>2 DEF Pending
        <5> QED
          BY <5>2, <5>3
      <4> QED
        BY <4>1, <4>2, PendingMembers
    <3> QED
      BY <3>1, <1>1, StillRemembered
  <2> QED
    BY <1>4, <2>3, <2>4, <2>6, <2>7, <2>8, <2>9, <2>10 DEF OrderInv
<1> QED
  BY <1>5, <1>6

\* The reply is posted, and published in its turn.
LEMMA ServerTakesReplyInv ==
  ASSUME IInv, ServerTakesReply
  PROVE  IInv'
<1> USE DEF IInv
<1>1. /\ step = "sending" /\ step' = "sent"
      /\ posted' = Append(posted, task)
      /\ log' = Append(log, "own")
      /\ UNCHANGED <<delivered, fresh, proc, tries, restarts, agentQueue, agentBusy, task,
                     attempt, text, over, lost>>
  BY DEF ServerTakesReply, At, GoTo, feedVars, processVars
<1>2. /\ log' \in Seq(Kinds)
      /\ Len(log) \in Nat
      /\ Len(log') = Len(log) + 1
      /\ \A i \in 1..Len(log) : log'[i] = log[i]
  <2>1. "own" \in Kinds
    BY DEF Kinds
  <2> QED
    BY <1>1, <2>1, AppendedLog
<1>3. /\ posted' \in Seq(Nat)
      /\ Len(posted) \in Nat
      /\ Len(posted') = Len(posted) + 1
      /\ \A i \in 1..Len(posted) : posted'[i] = posted[i]
      /\ posted'[Len(posted) + 1] = task
  BY <1>1, AppendFacts DEF TypeOK
<1>4. Latest' = Latest /\ Pending' = Pending
  BY <1>1, SameStream DEF Pending
<1>5. Latest \in Nat /\ \A e \in 1..Latest : log'[e] = log[e]
  BY <1>2 DEF StreamInv
<1>6. task # 0 /\ task \in 1..Latest
  BY <1>1, <1>5 DEF BusyInv, OrderInv, TaskOrder, TypeOK
<1>7. TypeOK' /\ StartInv'
  BY <1>1, <1>2, <1>3 DEF TypeOK, StartInv, Steps
<1>8. StreamInv' /\ BusyInv'
  BY <1>1, <1>2, <1>4 DEF StreamInv, BusyInv
<1>9. QueueOrder' /\ TaskOrder'
  BY <1>1, <1>4 DEF OrderInv, QueueOrder, TaskOrder
<1>10. \A i \in 1..Len(posted) : posted[i] < task
  BY <1>1, <1>6 DEF OrderInv, PostedOrder
<1>11. PostedOrder'
  <2>1. \A i \in 1..Len(posted') : posted'[i] = task \/ (i \in 1..Len(posted) /\ posted'[i] = posted[i])
    BY <1>3
  <2>2. \A i \in 1..Len(posted') : posted'[i] \in 1..Latest
    BY <2>1, <1>6 DEF OrderInv, PostedOrder
  <2>3. \A i, j \in 1..Len(posted') : i < j => posted'[i] < posted'[j]
    <3> SUFFICES ASSUME NEW i \in 1..Len(posted'), NEW j \in 1..Len(posted'), i < j
                 PROVE  posted'[i] < posted'[j]
      OBVIOUS
    <3>1. i \in 1..Len(posted) /\ posted'[i] = posted[i]
      BY <1>3
    <3>2. CASE j = Len(posted) + 1
      BY <3>1, <3>2, <1>3, <1>10
    <3>3. CASE j \in 1..Len(posted)
      BY <3>1, <3>3, <1>3 DEF OrderInv, PostedOrder
    <3> QED
      BY <3>2, <3>3, <1>3
  <2>4. \A i \in 1..Len(posted'), k \in 1..Len(agentQueue) : posted'[i] < agentQueue[k]
    BY <2>1 DEF OrderInv, PostedOrder, TaskOrder
  <2>5. \A i \in 1..Len(posted') : posted'[i] < task \/ posted'[i] = task
    BY <2>1, <1>10
  <2> QED
    BY <2>2, <2>3, <2>4, <2>5, <1>1, <1>4 DEF PostedOrder
<1>12. KindInv'
  <2>1. \A i \in 1..Len(agentQueue) : log'[agentQueue[i]] = log[agentQueue[i]]
    BY <1>5 DEF OrderInv, QueueOrder
  <2>2. log[task] = "addressed" /\ log'[task] = log[task]
    BY <1>1, <1>5, <1>6 DEF KindInv
  <2>3. \A i \in 1..Len(posted) : log'[posted[i]] = "addressed"
    <3>1. DOMAIN posted = 1..Len(posted)
      BY DEF TypeOK
    <3> QED
      BY <3>1, <1>5 DEF OrderInv, PostedOrder, KindInv, AnswersOnlyOthers
  <2>4. AnswersOnlyOthers'
    <3>1. DOMAIN posted' = 1..Len(posted')
      BY <1>3
    <3> QED
      BY <3>1, <2>2, <2>3, <1>3 DEF AnswersOnlyOthers
  <2> QED
    BY <2>1, <2>2, <2>4, <1>1 DEF KindInv, ForAgent
<1>13. NothingIsForgotten'
  <2>1. DOMAIN delivered = 1..Len(delivered)
    BY DEF TypeOK
  <2>2. \A i \in DOMAIN delivered : log'[delivered[i]] = log[delivered[i]]
    BY <2>1, <1>5 DEF StreamInv
  <2> QED
    BY <2>2, <1>1, <1>4 DEF NothingIsForgotten
<1> QED
  BY <1>7, <1>8, <1>9, <1>11, <1>12, <1>13 DEF OrderInv

\* Every way an event can be handled keeps the invariant.
LEMMA HandleInv ==
  ASSUME IInv, Handle
  PROVE  IInv'
<1> USE DEF IInv
<1>1. step # "idle" => task # 0 /\ log[task] \in ForAgent
  BY DEF BusyInv, KindInv
<1>2. step \notin {"idle", "start"} => log[task] = "addressed"
  BY <1>1 DEF KindInv
<1>3. CASE Ask
  <2>1. CASE log[task] = "blank"
    BY <1>1, <1>3, <2>1, FinishesInv DEF Ask, At, GoTo, Finishes
  <2>2. CASE log[task] # "blank"
    <3>1. Continues
      BY <1>1, <1>3, <2>2 DEF Ask, At, GoTo, Continues, Steps, ForAgent, TypeOK
    <3> QED
      BY <3>1, ContinuesInv
  <2> QED
    BY <2>1, <2>2
<1>4. CASE OpenClawAnswers
  <2>1. Continues
    BY <1>1, <1>2, <1>4 DEF OpenClawAnswers, At, GoTo, Continues, Steps, TypeOK
  <2> QED
    BY <2>1, ContinuesInv
<1>5. ASSUME NEW failure \in {"unclear", "application"}, Retry(failure)
      PROVE  IInv'
  <2>1. attempt' \in 0..MaxRetries
    BY <1>5, BridgeAssumption DEF Retry, RetriesFor, TypeOK
  <2>2. Continues
    BY <1>1, <1>2, <1>5, <2>1 DEF Retry, At, Continues, Steps, TypeOK
  <2> QED
    BY <2>2, ContinuesInv
<1>6. CASE GiveUp
  BY <1>1, <1>6, FinishesInv DEF GiveUp, At, Finishes
<1>7. CASE ReadText
  <2>1. Continues
    BY <1>1, <1>2, <1>7 DEF ReadText, At, Continues, Steps, TypeOK
  <2> QED
    BY <2>1, ContinuesInv
<1>8. CASE StreamEnds
  <2>1. CASE text /\ GoTo("sending")
    <3>1. Continues
      BY <1>1, <1>2, <1>8, <2>1 DEF StreamEnds, At, GoTo, Continues, Steps, TypeOK
    <3> QED
      BY <3>1, ContinuesInv
  <2>2. CASE ~text /\ TaskOver
    BY <1>1, <1>8, <2>2, FinishesInv DEF StreamEnds, At, Finishes
  <2> QED
    BY <1>8, <2>1, <2>2 DEF StreamEnds
<1>9. CASE ServerTakesReply
  BY <1>9, ServerTakesReplyInv
<1>10. CASE ReplyFails
  BY <1>1, <1>10, FinishesInv DEF ReplyFails, At, Finishes
<1>11. CASE ReplyAnswered
  BY <1>1, <1>11, FinishesInv DEF ReplyAnswered, At, Finishes
<1> QED
  BY <1>3, <1>4, <1>5, <1>6, <1>7, <1>8, <1>9, <1>10, <1>11 DEF Handle

\* An event that is not for the agent only moves the stream on.
LEMMA SkipInv ==
  ASSUME IInv, NEW e \in 1..Len(log), OnEvent(e), log[e] \notin ForAgent
  PROVE  IInv'
<1> USE DEF IInv
<1>1. /\ Feed!Deliver(e)
      /\ UNCHANGED <<log, proc, tries, restarts, posted, over, lost, agentQueue, agentBusy, task,
                     step, attempt, text>>
  BY DEF OnEvent, processVars
<1>2. /\ delivered' \in Seq(Nat)
      /\ fresh' = FALSE
      /\ Len(delivered) \in Nat
      /\ Len(delivered') = Len(delivered) + 1
      /\ \A i \in 1..Len(delivered) : delivered'[i] = delivered[i]
      /\ delivered'[Len(delivered) + 1] = e
      /\ Latest' = e
      /\ Latest < e
      /\ e <= Len(log)
  <2>1. e \in Nat /\ Len(log) \in Nat /\ Len(delivered) \in Nat
    BY DEF TypeOK
  <2>2. TypeOK /\ StreamInv
    OBVIOUS
  <2> QED
    BY <2>1, <2>2, <1>1, DeliverFacts
<1>3. Latest \in Nat
  BY DEF StreamInv, TypeOK
<1>4. TypeOK' /\ StartInv'
  BY <1>1, <1>2 DEF TypeOK, StartInv
<1>5. StreamInv'
  <2>1. \A i \in 1..Len(delivered') : i = Len(delivered) + 1 \/ i \in 1..Len(delivered)
    BY <1>2
  <2>2. \A i \in 1..Len(delivered) : delivered'[i] \in 1..e
    BY <1>2, <1>3 DEF StreamInv
  <2>3. e \in 1..e /\ Latest' \in 0..Len(log')
    BY <1>1, <1>2 DEF TypeOK
  <2> QED
    BY <2>1, <2>2, <2>3, <1>2 DEF StreamInv
<1>6. BusyInv'
  BY <1>1 DEF BusyInv
<1>7. OrderInv'
  BY <1>1, <1>2, <1>3 DEF OrderInv, QueueOrder, TaskOrder, PostedOrder, TypeOK
<1>8. KindInv'
  BY <1>1 DEF KindInv, AnswersOnlyOthers
<1>9. NothingIsForgotten'
  <2>1. DOMAIN delivered = 1..Len(delivered) /\ DOMAIN delivered' = 1..Len(delivered')
    BY <1>2 DEF TypeOK
  <2>2. Pending' = Pending
    BY <1>1 DEF Pending
  <2>3. \A i \in DOMAIN delivered' : delivered'[i] = e \/ (i \in DOMAIN delivered /\ delivered'[i] = delivered[i])
    BY <2>1, <1>2
  <2> QED
    BY <2>2, <2>3, <1>1 DEF NothingIsForgotten
<1> QED
  BY <1>4, <1>5, <1>6, <1>7, <1>8, <1>9

\* An event for the agent goes to the end of the queue, or is the new task.
LEMMA EnqueueInv ==
  ASSUME IInv, NEW e \in 1..Len(log), OnEvent(e), log[e] \in ForAgent
  PROVE  IInv'
<1> USE DEF IInv
<1>1. /\ Feed!Deliver(e)
      /\ Enqueue(e)
      /\ UNCHANGED <<log, proc, tries, restarts, posted, over, lost>>
  BY DEF OnEvent, processVars
<1>2. /\ delivered' \in Seq(Nat)
      /\ fresh' = FALSE
      /\ Len(delivered) \in Nat
      /\ Len(delivered') = Len(delivered) + 1
      /\ \A i \in 1..Len(delivered) : delivered'[i] = delivered[i]
      /\ delivered'[Len(delivered) + 1] = e
      /\ Latest' = e
      /\ Latest < e
      /\ e <= Len(log)
  <2>1. e \in Nat /\ Len(log) \in Nat /\ Len(delivered) \in Nat
    BY DEF TypeOK
  <2>2. TypeOK /\ StreamInv
    OBVIOUS
  <2> QED
    BY <2>1, <2>2, <1>1, DeliverFacts
<1>3. Latest \in Nat /\ e \in Nat
  BY DEF StreamInv, TypeOK
<1>4. StreamInv'
  <2>1. \A i \in 1..Len(delivered') : i = Len(delivered) + 1 \/ i \in 1..Len(delivered)
    BY <1>2
  <2>2. \A i \in 1..Len(delivered) : delivered'[i] \in 1..e
    BY <1>2, <1>3 DEF StreamInv
  <2>3. e \in 1..e /\ Latest' \in 0..Len(log')
    BY <1>1, <1>2 DEF TypeOK
  <2> QED
    BY <2>1, <2>2, <2>3, <1>2 DEF StreamInv
<1>5. ASSUME Pending \subseteq Pending', e \in Pending'  PROVE NothingIsForgotten'
  <2>1. DOMAIN delivered = 1..Len(delivered) /\ DOMAIN delivered' = 1..Len(delivered')
    BY <1>2 DEF TypeOK
  <2>2. \A i \in DOMAIN delivered' : delivered'[i] = e \/ (i \in DOMAIN delivered /\ delivered'[i] = delivered[i])
    BY <2>1, <1>2
  <2> QED
    BY <2>2, <1>1, <1>5 DEF NothingIsForgotten
<1>6. StartInv'
  BY <1>1 DEF StartInv
<1>7. CASE agentBusy
  <2>1. /\ agentQueue' = Append(agentQueue, e)
        /\ UNCHANGED <<agentBusy, task, step, attempt, text>>
    BY <1>1, <1>7 DEF Enqueue
  <2>2. /\ agentQueue' \in Seq(Nat)
        /\ Len(agentQueue) \in Nat
        /\ Len(agentQueue') = Len(agentQueue) + 1
        /\ \A i \in 1..Len(agentQueue) : agentQueue'[i] = agentQueue[i]
        /\ agentQueue'[Len(agentQueue) + 1] = e
    BY <2>1, <1>3, AppendFacts DEF TypeOK
  <2>3. \A i \in 1..Len(agentQueue') :
          \/ i = Len(agentQueue) + 1 /\ agentQueue'[i] = e
          \/ i \in 1..Len(agentQueue) /\ agentQueue'[i] = agentQueue[i]
    BY <2>2
  <2>4. TypeOK'
    BY <1>1, <1>2, <2>1, <2>2 DEF TypeOK
  <2>5. BusyInv'
    BY <1>7, <2>1 DEF BusyInv
  <2>6. QueueOrder'
    <3>1. \A i \in 1..Len(agentQueue') : agentQueue'[i] \in 1..e
      BY <2>3, <1>2, <1>3 DEF OrderInv, QueueOrder
    <3>2. \A i, j \in 1..Len(agentQueue') : i < j => agentQueue'[i] < agentQueue'[j]
      <4> SUFFICES ASSUME NEW i \in 1..Len(agentQueue'), NEW j \in 1..Len(agentQueue'), i < j
                   PROVE  agentQueue'[i] < agentQueue'[j]
        OBVIOUS
      <4>1. i \in 1..Len(agentQueue) /\ agentQueue'[i] = agentQueue[i] /\ agentQueue[i] \in 1..Latest
        BY <2>2 DEF OrderInv, QueueOrder
      <4>2. CASE j = Len(agentQueue) + 1
        BY <4>1, <4>2, <2>2, <1>2, <1>3
      <4>3. CASE j \in 1..Len(agentQueue)
        BY <4>1, <4>3, <2>2 DEF OrderInv, QueueOrder
      <4> QED
        BY <4>2, <4>3, <2>2
    <3> QED
      BY <3>1, <3>2, <1>2 DEF QueueOrder
  <2>7. TaskOrder'
    BY <2>1, <2>3, <1>2, <1>3 DEF OrderInv, TaskOrder, TypeOK
  <2>8. PostedOrder'
    <3>1. \A i \in 1..Len(posted) : posted[i] \in 1..Latest
      BY DEF OrderInv, PostedOrder
    <3>2. \A i \in 1..Len(posted), k \in 1..Len(agentQueue') : posted[i] < agentQueue'[k]
      <4>1. \A i \in 1..Len(posted) : posted[i] < e
        BY <3>1, <1>2, <1>3
      <4>2. \A i \in 1..Len(posted), k \in 1..Len(agentQueue) : posted[i] < agentQueue[k]
        BY DEF OrderInv, PostedOrder
      <4> QED
        BY <4>1, <4>2, <2>3
    <3>3. \A i \in 1..Len(posted) : posted[i] \in 1..e
      BY <3>1, <1>2, <1>3
    <3> QED
      BY <3>2, <3>3, <1>1, <1>2, <2>1 DEF OrderInv, PostedOrder
  <2>9. KindInv'
    BY <1>1, <2>1, <2>3 DEF KindInv, AnswersOnlyOthers
  <2>10. NothingIsForgotten'
    <3>1. DOMAIN agentQueue = 1..Len(agentQueue) /\ DOMAIN agentQueue' = 1..Len(agentQueue')
      BY <2>2 DEF TypeOK
    <3>2. Pending \subseteq Pending'
      BY <3>1, <2>1, <2>2 DEF Pending
    <3>3. e \in Pending'
      <4>1. Len(agentQueue) + 1 \in DOMAIN agentQueue'
        BY <3>1, <2>2
      <4> QED
        BY <4>1, <2>2 DEF Pending
    <3> QED
      BY <3>2, <3>3, <1>5
  <2> QED
    BY <1>4, <1>6, <2>4, <2>5, <2>6, <2>7, <2>8, <2>9, <2>10 DEF OrderInv
<1>8. CASE ~agentBusy
  <2>1. agentQueue = <<>> /\ task = 0
    BY <1>8 DEF BusyInv
  <2>2. Append(agentQueue, e) = <<e>>
    BY <2>1
  <2>3. <<e>> # <<>> /\ Tail(<<e>>) = <<>> /\ Head(<<e>>) = e
    OBVIOUS
  <2>4. /\ agentQueue' = <<>> /\ agentBusy' = TRUE /\ task' = e /\ step' = "start"
        /\ attempt' = 0 /\ text' = FALSE
    BY <1>1, <1>8, <2>2, <2>3 DEF Enqueue, ProcessQueue, Begin
  <2>5. TypeOK'
    <3>1. 0 \in 0..MaxRetries
      BY BridgeAssumption
    <3> QED
      BY <1>1, <1>2, <1>3, <2>4, <3>1, EmptyQueue DEF TypeOK, Steps
  <2>6. BusyInv'
    BY <1>2, <2>4 DEF BusyInv
  <2>7. QueueOrder' /\ TaskOrder'
    BY <1>2, <1>3, <2>4, EmptyQueue DEF QueueOrder, TaskOrder
  <2>8. PostedOrder'
    BY <1>1, <1>2, <1>3, <2>4, EmptyQueue DEF OrderInv, PostedOrder
  <2>9. KindInv'
    BY <1>1, <2>4, EmptyQueue DEF KindInv, AnswersOnlyOthers
  <2>10. NothingIsForgotten'
    <3>1. \A x : x \notin Pending
      BY <2>1, PendingMembers, EmptyQueue
    <3>2. e \in Pending'
      BY <2>4, <1>2, <1>3 DEF Pending
    <3> QED
      BY <3>1, <3>2, <1>5
  <2> QED
    BY <1>4, <1>6, <2>5, <2>6, <2>7, <2>8, <2>9, <2>10 DEF OrderInv
<1> QED
  BY <1>7, <1>8

\* Nothing happens.
LEMMA StutterInv ==
  ASSUME IInv, UNCHANGED vars
  PROVE  IInv'
<1>1. UNCHANGED <<log, delivered, fresh, proc, tries, restarts, agentQueue, agentBusy, task,
                  step, attempt, text, over, posted, lost>>
  BY DEF vars, feedVars, processVars, agentVars
<1>2. Latest' = Latest /\ Pending' = Pending
  BY <1>1, SameStream DEF Pending
<1>3. TypeOK' /\ StartInv' /\ StreamInv' /\ BusyInv'
  BY <1>1, <1>2 DEF IInv, TypeOK, StartInv, StreamInv, BusyInv
<1>4. OrderInv' /\ KindInv' /\ NothingIsForgotten'
  BY <1>1, <1>2 DEF IInv, OrderInv, QueueOrder, TaskOrder, PostedOrder, KindInv,
                    AnswersOnlyOthers, NothingIsForgotten
<1> QED
  BY <1>3, <1>4 DEF IInv

\* The invariant holds in every reachable state.
LEMMA Invariance == Spec => []IInv
<1>1. Init => IInv
  BY InitInv
<1>2. IInv /\ [Next]_vars => IInv'
  <2> SUFFICES ASSUME IInv, [Next]_vars PROVE IInv'
    OBVIOUS
  <2>1. ASSUME NEW kind \in Foreign, Publish(kind) PROVE IInv'
    BY <2>1, PublishInv DEF Publish, Kinds
  <2>0. CASE HandleCommand
    BY <2>0, PublishInv DEF HandleCommand, Kinds
  <2>2. CASE ContextArrives \/ ContextFails \/ Refused
    BY <2>2, ProcessInv
  <2>3. CASE Restart
    BY <2>3, RestartInv
  <2>4. ASSUME NEW e \in 1..Len(log), OnEvent(e) PROVE IInv'
    BY <2>4, SkipInv, EnqueueInv
  <2>5. CASE Handle
    BY <2>5, HandleInv
  <2>6. CASE UNCHANGED vars
    BY <2>6, StutterInv
  <2> QED
    BY <2>0, <2>1, <2>2, <2>3, <2>4, <2>5, <2>6 DEF Next
<1> QED
  BY <1>1, <1>2, PTL DEF Spec

-----------------------------------------------------------------------------

\* The type invariant of the bridge: its queue, its task and the events that
\* it has been given, for any number of events and restarts.
THEOREM TypeSafety == Spec => []TypeOK
<1>1. IInv => TypeOK
  BY DEF IInv
<1> QED
  BY <1>1, Invariance, PTL

\* Replies are posted in the order of the events they answer, none twice, for
\* any number of events, failed calls and restarts of the bridge.
THEOREM RepliesInOrder == Spec => []RepliesFollowEvents
<1>1. IInv => RepliesFollowEvents
  <2>1. TypeOK => DOMAIN posted = 1..Len(posted)
    BY DEF TypeOK
  <2> QED
    BY <2>1 DEF IInv, OrderInv, PostedOrder, RepliesFollowEvents
<1> QED
  BY <1>1, Invariance, PTL

\* The agent posts replies to what others addressed to it, and never to a
\* message of its own, so it cannot talk to itself over the stream.
THEOREM NoLoop == Spec => []AnswersOnlyOthers
<1>1. IInv => AnswersOnlyOthers
  BY DEF IInv, KindInv
<1> QED
  BY <1>1, Invariance, PTL

\* An event for the agent that was delivered is pending, over or lost with its
\* process, and while events wait one is being handled.
THEOREM QueueKeepsEvents == Spec => [](NothingIsForgotten /\ QueueIsServed)
<1>1. IInv => NothingIsForgotten /\ QueueIsServed
  BY DEF IInv, BusyInv, QueueIsServed
<1> QED
  BY <1>1, Invariance, PTL

-----------------------------------------------------------------------------
(* The stream that the bridge listens to.  SseClient's promises are not    *)
(* inductive: what is dispatched next is what is being built and what is   *)
(* ahead of it in the buffer and on the wire.  WellFormed and PartInv say  *)
(* what may follow what, AheadInv in which order the events come and that  *)
(* none is missing.                                                        *)

CONSTANTS
  MaxFaults,   \* bound: drops, failed connects and restarts
  Eol          \* what the server ends its lines with

\* The variables of SseClient that StreamPromises has not.
VARIABLES cursor, wire, conn, buffer, part, faults

Stream == INSTANCE SseClient

\* SseAssumption of SseClient, for a server that ends lines with one character.
StreamAssumption ==
  /\ MaxEvents \in Nat
  /\ MaxFaults \in Nat
  /\ Typed \subseteq Stream!Events
  /\ Eol \in {<<Stream!LF>>, <<Stream!CR>>}

\* What ends a line.
NL == Eol[1]

\* What the server has written on this connection and the loop has not done.
Ahead == buffer \o wire

\* The lines that a block of the stream starts with, and all lines of text.
Starts == {"id"} \X Stream!Events \cup {<<"comment", 0>>}
Fields == {"id", "event", "data"} \X Stream!Events \cup {<<"comment", 0>>}

\* What the server writes after the line t.
Follower(t) ==
  IF t[1] = "id" THEN IF t[2] \in Typed THEN <<"event", t[2]>> ELSE <<"data", t[2]>>
  ELSE IF t[1] = "event" THEN <<"data", t[2]>>
  ELSE NL

\* Every line is followed by the one that belongs there, and after a blank
\* line a new event or comment starts.
WellFormed(T) ==
  /\ T \in Seq(Fields \cup {NL})
  /\ \A i \in 1..Len(T) :
       T[i] # NL => /\ i + 2 <= Len(T)
                    /\ T[i + 1] = NL
                    /\ T[i + 2] = Follower(T[i])
  /\ \A i \in 1..Len(T) :
       (i + 2 <= Len(T) /\ T[i] = NL /\ T[i + 1] = NL) => T[i + 2] \in Starts

\* Only the blank line that ends something is missing.
AtBlank(T) == T # <<>> /\ T[1] = NL /\ (Len(T) > 1 => T[2] \in Starts)

\* The event being built is what was written of it so far.
PartInv(T) ==
  \/ part = Stream!NoEvent /\ (T = <<>> \/ T[1] \in Starts \/ AtBlank(T))
  \/ \E e \in Stream!Events :
       /\ part = [id |-> e, type |-> 0, data |-> <<>>]
       /\ T # <<>>
       /\ T[1] = Follower(<<"id", e>>)
  \/ \E e \in Typed :
       /\ part = [id |-> e, type |-> e, data |-> <<>>]
       /\ T # <<>>
       /\ T[1] = <<"data", e>>
  \/ \E e \in Stream!Events : part = Stream!Event(e) /\ AtBlank(T)

\* The last event dispatched.
LastId == IF dispatched = <<>> THEN 0 ELSE dispatched[Len(dispatched)].id

\* The event e is still to be dispatched on this connection.
Coming(T, e) == part.id = e \/ \E i \in 1..Len(T) : T[i] = <<"id", e>>

\* What is ahead comes in the order of the events, after the dispatched ones;
\* from the first of them, or the one to resume after, nothing is missing.
AheadInv(T) ==
  /\ LastId <= cursor
  /\ part.id # 0 => LastId < part.id /\ part.id <= cursor
  /\ \A i \in 1..Len(T), e \in Stream!Events :
       T[i] = <<"id", e>> => LastId < e /\ part.id < e /\ e <= cursor
  /\ \A i, j \in 1..Len(T), d, e \in Stream!Events :
       (i < j /\ T[i] = <<"id", d>> /\ T[j] = <<"id", e>>) => d < e
  /\ \A d, e \in Stream!Events :
       (d = lastEventId \/ Coming(T, d)) /\ d < e /\ e <= cursor => Coming(T, e)

\* What holds of the text ahead on an open connection.
OpenInv(T) == WellFormed(T) /\ PartInv(T) /\ AheadInv(T)

\* The event to resume after is the last one dispatched.
ResumeInv ==
  /\ LastId \in 0..published
  /\ lastEventId # 0 => lastEventId = LastId

\* The inductive invariant of the stream's client.
StreamIInv ==
  /\ Stream!TypeOK
  /\ ChunkingIsInvisible
  /\ ResumeInv
  /\ conn = "open" => OpenInv(Ahead)
  /\ conn # "open" => Stream!Incomplete(buffer)

-----------------------------------------------------------------------------
(* The stream's text, shifted and extended.                                *)

\* No line of text is a line end, and what follows each.
LEMMA TokenFacts ==
  ASSUME StreamAssumption
  PROVE  /\ NL \in {Stream!LF, Stream!CR}
         /\ Stream!LF \notin Fields /\ Stream!CR \notin Fields /\ Stream!LF # Stream!CR
         /\ NL \notin Fields
         /\ NL \notin Starts
         /\ Stream!Blank \notin Fields
         /\ Starts \subseteq Fields
         /\ \A e \in Stream!Events : e \in Nat \ {0}
         /\ \A e \in Stream!Events :
              /\ Follower(<<"id", e>>)
                   = IF e \in Typed THEN <<"event", e>> ELSE <<"data", e>>
              /\ Follower(<<"event", e>>) = <<"data", e>>
              /\ Follower(<<"data", e>>) = NL
         /\ Follower(<<"comment", 0>>) = NL
<1>1. NL \in {Stream!LF, Stream!CR}
  BY DEF StreamAssumption, NL
<1>2. Stream!LF \notin Fields /\ Stream!CR \notin Fields /\ Stream!LF # Stream!CR
  BY DEF Fields, Stream!LF, Stream!CR
<1>3. NL = <<"lf", 0>> \/ NL = <<"cr", 0>>
  BY <1>1 DEF Stream!LF, Stream!CR
<1>4. NL \notin Fields /\ NL \notin Starts
  BY <1>3 DEF Fields, Starts
<1>5. Stream!Blank \notin Fields /\ Starts \subseteq Fields
  BY DEF Fields, Starts, Stream!Blank
<1>6. \A e \in Stream!Events : e \in Nat \ {0}
  BY DEF Stream!Events, StreamAssumption
<1>7. \A e \in Stream!Events :
        /\ Follower(<<"id", e>>)
             = IF e \in Typed THEN <<"event", e>> ELSE <<"data", e>>
        /\ Follower(<<"event", e>>) = <<"data", e>>
        /\ Follower(<<"data", e>>) = NL
  BY DEF Follower
<1>8. Follower(<<"comment", 0>>) = NL
  BY DEF Follower
<1>. QED BY <1>1, <1>4, <1>5, <1>6, <1>7, <1>8, <1>2

\* What the end of a sequence is made of.
LEMMA ShiftFacts ==
  ASSUME NEW S, NEW T \in Seq(S), NEW k \in 0..Len(T)
  PROVE  /\ SubSeq(T, k + 1, Len(T)) \in Seq(S)
         /\ Len(SubSeq(T, k + 1, Len(T))) = Len(T) - k
         /\ \A i \in 1..(Len(T) - k) : SubSeq(T, k + 1, Len(T))[i] = T[i + k]
  OBVIOUS

\* A read moves tokens from the wire to the buffer.
LEMMA ReadFacts ==
  ASSUME NEW S, NEW b \in Seq(S), NEW w \in Seq(S), NEW n \in 1..Len(w)
  PROVE  (b \o SubSeq(w, 1, n)) \o SubSeq(w, n + 1, Len(w)) = b \o w
<1> DEFINE c == SubSeq(w, 1, n)
           r == SubSeq(w, n + 1, Len(w))
<1>1. /\ c \in Seq(S) /\ Len(c) = n
      /\ \A i \in 1..n : c[i] = w[i]
  OBVIOUS
<1>2. /\ r \in Seq(S) /\ Len(r) = Len(w) - n
      /\ \A i \in 1..(Len(w) - n) : r[i] = w[i + n]
  BY ShiftFacts
<1> HIDE DEF c, r
<1> DEFINE p == b \o c
<1>3. /\ p \in Seq(S) /\ Len(p) = Len(b) + n
      /\ \A i \in 1..Len(b) : p[i] = b[i]
      /\ \A i \in 1..n : p[Len(b) + i] = w[i]
      /\ Len(b) \in Nat /\ Len(w) \in Nat
  <2>1. /\ p \in Seq(S) /\ Len(p) = Len(b) + Len(c)
        /\ \A i \in 1..Len(b) : p[i] = b[i]
        /\ \A i \in 1..Len(c) : p[Len(b) + i] = c[i]
        /\ Len(b) \in Nat /\ Len(w) \in Nat
    <3>1. c \in Seq(S)
      BY <1>1
    <3>. QED BY <3>1
  <2>. QED BY <1>1, <2>1
<1> HIDE DEF p
<1> DEFINE x == p \o r
           y == b \o w
<1>4. /\ x \in Seq(S) /\ Len(x) = Len(b) + Len(w)
      /\ \A i \in 1..(Len(b) + n) : x[i] = p[i]
      /\ \A i \in 1..(Len(w) - n) : x[Len(b) + n + i] = r[i]
  <2>1. /\ x \in Seq(S) /\ Len(x) = Len(p) + Len(r)
        /\ \A i \in 1..Len(p) : x[i] = p[i]
        /\ \A i \in 1..Len(r) : x[Len(p) + i] = r[i]
    <3>1. p \in Seq(S) /\ r \in Seq(S)
      BY <1>2, <1>3
    <3>. QED BY <3>1
  <2>. QED BY <1>2, <1>3, <2>1
<1>5. /\ y \in Seq(S) /\ Len(y) = Len(b) + Len(w)
      /\ \A i \in 1..Len(b) : y[i] = b[i]
      /\ \A i \in 1..Len(w) : y[Len(b) + i] = w[i]
  OBVIOUS
<1> HIDE DEF x, y
<1>6. ASSUME NEW i \in 1..(Len(b) + Len(w)) PROVE x[i] = y[i]
  <2>1. CASE i <= Len(b)
    BY <2>1, <1>3, <1>4, <1>5
  <2>2. CASE i > Len(b) /\ i <= Len(b) + n
    <3>1. /\ i - Len(b) \in 1..n /\ Len(b) + (i - Len(b)) = i
          /\ i - Len(b) \in 1..Len(w)
      BY <2>2, <1>3
    <3>2. x[i] = p[i] /\ p[i] = w[i - Len(b)]
      BY <2>2, <3>1, <1>3, <1>4
    <3>3. y[i] = w[i - Len(b)]
      BY <3>1, <1>5
    <3> QED BY <3>2, <3>3
  <2>3. CASE i > Len(b) + n
    <3>1. /\ i - Len(b) - n \in 1..(Len(w) - n)
          /\ Len(b) + n + (i - Len(b) - n) = i
          /\ i - Len(b) \in 1..Len(w)
          /\ Len(b) + (i - Len(b)) = i
          /\ (i - Len(b) - n) + n = i - Len(b)
      BY <2>3, <1>3
    <3> QED BY <3>1, <1>2, <1>4, <1>5
  <2> QED BY <2>1, <2>2, <2>3
<1>7. x = y
  BY <1>4, <1>5, <1>6, SeqEqual
<1> QED BY <1>7 DEF x, y, p, c, r

\* What is taken from the buffer is taken from what is ahead.
LEMMA TakeFacts ==
  ASSUME NEW S, NEW b \in Seq(S), NEW w \in Seq(S), NEW k \in 1..Len(b)
  PROVE  /\ SubSeq(b, k + 1, Len(b)) \o w = SubSeq(b \o w, k + 1, Len(b \o w))
         /\ k \in 0..Len(b \o w)
<1> DEFINE x == SubSeq(b, k + 1, Len(b)) \o w
           y == SubSeq(b \o w, k + 1, Len(b \o w))
<1>1. /\ SubSeq(b, k + 1, Len(b)) \in Seq(S)
      /\ Len(SubSeq(b, k + 1, Len(b))) = Len(b) - k
      /\ \A i \in 1..(Len(b) - k) : SubSeq(b, k + 1, Len(b))[i] = b[i + k]
  BY ShiftFacts
<1>2. /\ b \o w \in Seq(S) /\ Len(b \o w) = Len(b) + Len(w)
      /\ \A i \in 1..Len(b) : (b \o w)[i] = b[i]
      /\ \A i \in 1..Len(w) : (b \o w)[Len(b) + i] = w[i]
  OBVIOUS
<1>3. k \in 0..Len(b \o w)
  BY <1>2
<1>4. /\ y \in Seq(S) /\ Len(y) = Len(b) + Len(w) - k
      /\ \A i \in 1..(Len(b) + Len(w) - k) : y[i] = (b \o w)[i + k]
  BY <1>2, <1>3, ShiftFacts
<1>5. /\ x \in Seq(S) /\ Len(x) = Len(b) - k + Len(w)
      /\ \A i \in 1..(Len(b) - k) : x[i] = SubSeq(b, k + 1, Len(b))[i]
      /\ \A i \in 1..Len(w) : x[Len(b) - k + i] = w[i]
  <2> DEFINE a == SubSeq(b, k + 1, Len(b))
  <2>1. a \in Seq(S) /\ Len(a) = Len(b) - k
    BY <1>1
  <2> HIDE DEF a
  <2>2. /\ a \o w \in Seq(S) /\ Len(a \o w) = Len(a) + Len(w)
        /\ \A i \in 1..Len(a) : (a \o w)[i] = a[i]
        /\ \A i \in 1..Len(w) : (a \o w)[Len(a) + i] = w[i]
    BY <2>1
  <2>3. x = a \o w
    BY DEF a
  <2>4. \A i \in 1..(Len(b) - k) : a[i] = SubSeq(b, k + 1, Len(b))[i]
    BY DEF a
  <2> HIDE DEF x
  <2>. QED BY <2>1, <2>2, <2>3, <2>4
<1> HIDE DEF x, y
<1>6. ASSUME NEW i \in 1..(Len(b) + Len(w) - k) PROVE x[i] = y[i]
  <2>1. CASE i <= Len(b) - k
    <3>1. i + k \in 1..Len(b) /\ i \in 1..(Len(b) - k)
      BY <2>1
    <3> QED BY <3>1, <1>1, <1>2, <1>4, <1>5
  <2>2. CASE i > Len(b) - k
    <3>1. /\ i - (Len(b) - k) \in 1..Len(w)
          /\ Len(b) - k + (i - (Len(b) - k)) = i
          /\ Len(b) + (i - (Len(b) - k)) = i + k
      BY <2>2
    <3> QED BY <3>1, <1>2, <1>4, <1>5
  <2> QED BY <2>1, <2>2
<1>7. x = y
  BY <1>4, <1>5, <1>6, SeqEqual
<1> QED BY <1>3, <1>7 DEF x, y

\* A text without its first tokens is well formed.
LEMMA ShiftWellFormed ==
  ASSUME NEW T, WellFormed(T), NEW k \in 0..Len(T)
  PROVE  WellFormed(SubSeq(T, k + 1, Len(T)))
<1> DEFINE U == SubSeq(T, k + 1, Len(T))
<1>1. T \in Seq(Fields \cup {NL})
  BY DEF WellFormed
<1>2. /\ U \in Seq(Fields \cup {NL}) /\ Len(U) = Len(T) - k
      /\ \A i \in 1..(Len(T) - k) : U[i] = T[i + k]
  BY <1>1, ShiftFacts
<1> HIDE DEF U
<1>3. ASSUME NEW i \in 1..Len(U), U[i] # NL
      PROVE  i + 2 <= Len(U) /\ U[i + 1] = NL /\ U[i + 2] = Follower(U[i])
  <2>1. i + k \in 1..Len(T) /\ T[i + k] # NL /\ U[i] = T[i + k]
    BY <1>1, <1>2, <1>3
  <2>2. i + k + 2 <= Len(T) /\ T[i + k + 1] = NL /\ T[i + k + 2] = Follower(T[i + k])
    BY <2>1 DEF WellFormed
  <2>3. /\ i + 1 \in 1..(Len(T) - k) /\ i + 2 \in 1..(Len(T) - k)
        /\ (i + 1) + k = i + k + 1 /\ (i + 2) + k = i + k + 2
    BY <1>1, <1>2, <2>2
  <2>4. U[i + 1] = T[(i + 1) + k] /\ U[i + 2] = T[(i + 2) + k]
    BY <1>2, <2>3
  <2>5. U[i + 1] = T[i + k + 1] /\ U[i + 2] = T[i + k + 2]
    BY <2>3, <2>4
  <2>6. i + 2 <= Len(U)
    BY <1>1, <1>2, <2>1, <2>2
  <2> QED BY <2>1, <2>2, <2>5, <2>6
<1>4. ASSUME NEW i \in 1..Len(U), i + 2 <= Len(U), U[i] = NL, U[i + 1] = NL
      PROVE  U[i + 2] \in Starts
  <2>1. /\ i + k \in 1..Len(T) /\ i + k + 2 <= Len(T)
        /\ i \in 1..(Len(T) - k) /\ i + 1 \in 1..(Len(T) - k) /\ i + 2 \in 1..(Len(T) - k)
        /\ (i + 1) + k = i + k + 1 /\ (i + 2) + k = i + k + 2
    BY <1>1, <1>2, <1>4
  <2>2. U[i] = T[i + k] /\ U[i + 1] = T[(i + 1) + k] /\ U[i + 2] = T[(i + 2) + k]
    BY <1>2, <2>1
  <2>3. T[i + k] = NL /\ T[i + k + 1] = NL /\ U[i + 2] = T[i + k + 2]
    BY <1>4, <2>1, <2>2
  <2> QED BY <2>1, <2>3 DEF WellFormed
<1>5. WellFormed(U)
  BY <1>2, <1>3, <1>4 DEF WellFormed
<1> QED BY <1>5 DEF U

\* Whole blocks may be written after a well formed text.
LEMMA AppendWellFormed ==
  ASSUME StreamAssumption, NEW T, WellFormed(T), NEW W, WellFormed(W),
         W # <<>>, W[1] \in Starts
  PROVE  WellFormed(T \o W)
<1> DEFINE U == T \o W
<1>1. T \in Seq(Fields \cup {NL}) /\ W \in Seq(Fields \cup {NL})
  BY DEF WellFormed
<1>2. /\ U \in Seq(Fields \cup {NL}) /\ Len(U) = Len(T) + Len(W)
      /\ \A i \in 1..Len(T) : U[i] = T[i]
      /\ \A i \in 1..Len(W) : U[Len(T) + i] = W[i]
      /\ Len(W) >= 1 /\ Len(W) \in Nat /\ Len(T) \in Nat
  BY <1>1
<1>3. U[Len(T) + 1] = W[1] /\ W[1] # NL
  BY <1>2, TokenFacts
<1> HIDE DEF U
<1>4. ASSUME NEW i \in 1..Len(U), U[i] # NL
      PROVE  i + 2 <= Len(U) /\ U[i + 1] = NL /\ U[i + 2] = Follower(U[i])
  <2>1. CASE i <= Len(T)
    <3>1. i \in 1..Len(T) /\ T[i] # NL /\ U[i] = T[i]
      BY <1>2, <1>4, <2>1
    <3>2. i + 2 <= Len(T) /\ T[i + 1] = NL /\ T[i + 2] = Follower(T[i])
      BY <3>1 DEF WellFormed
    <3>3. i + 1 \in 1..Len(T) /\ i + 2 \in 1..Len(T)
      BY <1>2, <3>2
    <3> QED BY <1>2, <3>1, <3>2, <3>3
  <2>2. CASE i > Len(T)
    <3> DEFINE j == i - Len(T)
    <3>1. j \in 1..Len(W) /\ Len(T) + j = i
      BY <1>2, <2>2
    <3>2. W[j] # NL /\ U[i] = W[j]
      BY <1>2, <1>4, <3>1
    <3>3. j + 2 <= Len(W) /\ W[j + 1] = NL /\ W[j + 2] = Follower(W[j])
      BY <3>1, <3>2 DEF WellFormed
    <3>4. /\ j + 1 \in 1..Len(W) /\ j + 2 \in 1..Len(W)
          /\ Len(T) + (j + 1) = i + 1 /\ Len(T) + (j + 2) = i + 2
      BY <1>2, <3>1, <3>3
    <3>5. U[i + 1] = W[j + 1] /\ U[i + 2] = W[j + 2]
      BY <1>2, <3>4
    <3> QED BY <1>2, <3>1, <3>2, <3>3, <3>4, <3>5
  <2> QED BY <1>2, <2>1, <2>2
<1>5. ASSUME NEW i \in 1..Len(U), i + 2 <= Len(U), U[i] = NL, U[i + 1] = NL
      PROVE  U[i + 2] \in Starts
  <2>1. CASE i + 2 <= Len(T)
    <3>1. i \in 1..Len(T) /\ i + 1 \in 1..Len(T) /\ i + 2 \in 1..Len(T)
      BY <1>2, <2>1
    <3>2. T[i] = NL /\ T[i + 1] = NL /\ U[i + 2] = T[i + 2]
      BY <1>2, <1>5, <3>1
    <3> QED BY <2>1, <3>1, <3>2 DEF WellFormed
  <2>2. CASE i + 2 = Len(T) + 1
    BY <1>3, <2>2
  <2>3. CASE i + 1 = Len(T) + 1
    BY <1>3, <1>5, <2>3
  <2>4. CASE i > Len(T)
    <3> DEFINE j == i - Len(T)
    <3>1. /\ j \in 1..Len(W) /\ j + 1 \in 1..Len(W) /\ j + 2 \in 1..Len(W)
          /\ Len(T) + j = i /\ Len(T) + (j + 1) = i + 1 /\ Len(T) + (j + 2) = i + 2
      BY <1>2, <1>5, <2>4
    <3> HIDE DEF j
    <3>2. U[i] = W[j] /\ U[i + 1] = W[j + 1] /\ U[i + 2] = W[j + 2]
      BY <1>2, <3>1
    <3>3. W[j] = NL /\ W[j + 1] = NL /\ j + 2 <= Len(W)
      BY <1>5, <3>1, <3>2
    <3> QED BY <3>1, <3>2, <3>3 DEF WellFormed
  <2> QED BY <1>2, <2>1, <2>2, <2>3, <2>4
<1>6. WellFormed(U)
  BY <1>2, <1>4, <1>5 DEF WellFormed
<1> QED BY <1>6 DEF U
-----------------------------------------------------------------------------
(* What the server writes.                                                 *)

\* A line is its text and one token more.
LEMMA LineFacts ==
  ASSUME StreamAssumption, NEW f, NEW e, <<f, e>> \in Fields
  PROVE  /\ Stream!Line(f, e) \in Seq(Fields \cup {NL})
         /\ Len(Stream!Line(f, e)) = 2
         /\ Stream!Line(f, e)[1] = <<f, e>>
         /\ Stream!Line(f, e)[2] = NL
         /\ Eol \in Seq(Fields \cup {NL})
         /\ Len(Eol) = 1
<1> DEFINE t == <<f, e>>
           S == Fields \cup {NL}
<1>1. Eol = <<NL>>
  BY DEF StreamAssumption, NL
<1>2. t \in S /\ NL \in S
  OBVIOUS
<1>3. Stream!Line(f, e) = <<t>> \o <<NL>>
  BY <1>1 DEF Stream!Line
<1> HIDE DEF t, S
<1>4. /\ <<t>> \o <<NL>> \in Seq(S) /\ Len(<<t>> \o <<NL>>) = 2
      /\ (<<t>> \o <<NL>>)[1] = t /\ (<<t>> \o <<NL>>)[2] = NL
      /\ <<NL>> \in Seq(S) /\ Len(<<NL>>) = 1
  BY <1>2
<1> QED BY <1>1, <1>3, <1>4 DEF t, S

\* The lines of an event, one by one.
LEMMA WrittenLines ==
  ASSUME StreamAssumption, NEW e \in Stream!Events, NEW W, W = Stream!Written(e)
  PROVE  /\ W \in Seq(Fields \cup {NL})
         /\ W[1] = <<"id", e>> /\ W[2] = NL
         /\ e \notin Typed => /\ Len(W) = 5
                              /\ W[3] = <<"data", e>> /\ W[4] = NL /\ W[5] = NL
         /\ e \in Typed => /\ Len(W) = 7
                           /\ W[3] = <<"event", e>> /\ W[4] = NL
                           /\ W[5] = <<"data", e>> /\ W[6] = NL /\ W[7] = NL
<1> DEFINE S == Fields \cup {NL}
           a == Stream!Line("id", e)
           m == IF e \in Typed THEN Stream!Line("event", e) ELSE <<>>
           d == Stream!Line("data", e)
           p == a \o m
           q == p \o d
<1>1. <<"id", e>> \in Fields /\ <<"event", e>> \in Fields /\ <<"data", e>> \in Fields
  BY DEF Fields
<1>2. /\ a \in Seq(S) /\ Len(a) = 2 /\ a[1] = <<"id", e>> /\ a[2] = NL
      /\ d \in Seq(S) /\ Len(d) = 2 /\ d[1] = <<"data", e>> /\ d[2] = NL
      /\ Eol \in Seq(S) /\ Len(Eol) = 1 /\ Eol[1] = NL
  BY <1>1, LineFacts DEF NL
<1>3. /\ m \in Seq(S)
      /\ e \in Typed => Len(m) = 2 /\ m[1] = <<"event", e>> /\ m[2] = NL
      /\ e \notin Typed => Len(m) = 0
  BY <1>1, LineFacts
<1>4. W = q \o Eol
  BY DEF Stream!Written
<1> HIDE DEF S, a, m, d
<1>5. /\ p \in Seq(S) /\ Len(p) = Len(a) + Len(m)
      /\ \A i \in 1..Len(a) : p[i] = a[i]
      /\ \A i \in 1..Len(m) : p[Len(a) + i] = m[i]
  <2>1. a \in Seq(S) /\ m \in Seq(S)
    BY <1>2, <1>3
  <2>. QED BY <2>1
<1> HIDE DEF p
<1>6. /\ q \in Seq(S) /\ Len(q) = Len(p) + Len(d)
      /\ \A i \in 1..Len(p) : q[i] = p[i]
      /\ \A i \in 1..Len(d) : q[Len(p) + i] = d[i]
  <2>1. p \in Seq(S) /\ d \in Seq(S)
    BY <1>2, <1>5
  <2>. QED BY <2>1
<1> HIDE DEF q
<1>7. /\ W \in Seq(S) /\ Len(W) = Len(q) + Len(Eol)
      /\ \A i \in 1..Len(q) : W[i] = q[i]
      /\ \A i \in 1..Len(Eol) : W[Len(q) + i] = Eol[i]
  <2>1. q \in Seq(S) /\ Eol \in Seq(S)
    BY <1>2, <1>6
  <2>. QED BY <2>1, <1>4
<1>8. p[1] = <<"id", e>> /\ p[2] = NL
  BY <1>2, <1>3, <1>5
<1>9. CASE e \in Typed
  <2>1. Len(p) = 4 /\ p[3] = <<"event", e>> /\ p[4] = NL
    <3>1. Len(m) = 2 /\ m[1] = <<"event", e>> /\ m[2] = NL
      BY <1>3, <1>9
    <3>2. Len(p) = 4 /\ p[2 + 1] = m[1] /\ p[2 + 2] = m[2]
      BY <1>2, <1>5, <3>1
    <3>. QED BY <3>1, <3>2
  <2>2. /\ Len(q) = 6 /\ q[4 + 1] = d[1] /\ q[4 + 2] = d[2]
        /\ q[1] = p[1] /\ q[2] = p[2] /\ q[3] = p[3] /\ q[4] = p[4]
    BY <1>2, <1>6, <2>1
  <2>3. /\ Len(W) = 7 /\ W[6 + 1] = NL
        /\ W[1] = q[1] /\ W[2] = q[2] /\ W[3] = q[3] /\ W[4] = q[4] /\ W[5] = q[5]
        /\ W[6] = q[6]
    BY <1>2, <1>7, <2>2
  <2>. QED BY <1>2, <1>7, <1>8, <1>9, <2>1, <2>2, <2>3 DEF S
<1>10. CASE e \notin Typed
  <2>1. Len(p) = 2
    BY <1>2, <1>3, <1>5, <1>10
  <2>2. /\ Len(q) = 4 /\ q[2 + 1] = d[1] /\ q[2 + 2] = d[2]
        /\ q[1] = p[1] /\ q[2] = p[2]
    BY <1>2, <1>6, <2>1
  <2>3. /\ Len(W) = 5 /\ W[4 + 1] = NL
        /\ W[1] = q[1] /\ W[2] = q[2] /\ W[3] = q[3] /\ W[4] = q[4]
    BY <1>2, <1>7, <2>2
  <2>. QED BY <1>2, <1>7, <1>8, <1>10, <2>2, <2>3 DEF S
<1> QED BY <1>9, <1>10

\* An event is written as a well formed block.
LEMMA WrittenFacts ==
  ASSUME StreamAssumption, NEW e \in Stream!Events, NEW W, W = Stream!Written(e)
  PROVE  /\ WellFormed(W)
         /\ W # <<>>
         /\ W[1] = <<"id", e>>
         /\ W[1] \in Starts
         /\ \A i \in 1..Len(W), d \in Stream!Events : W[i] = <<"id", d>> => i = 1 /\ d = e
<1>1. <<"id", e>> \in Fields /\ <<"event", e>> \in Fields /\ <<"data", e>> \in Fields
  BY DEF Fields
<1>2. <<"id", e>> \in Starts /\ \A d \in Stream!Events : <<"id", d>> \in Fields
  BY DEF Starts, Fields
<1>3. W \in Seq(Fields \cup {NL}) /\ W[1] = <<"id", e>> /\ W[2] = NL
  BY WrittenLines
<1>4. CASE e \notin Typed
  <2>1. Len(W) = 5 /\ W[3] = <<"data", e>> /\ W[4] = NL /\ W[5] = NL
    BY <1>4, WrittenLines
  <2>2. \A i \in 1..Len(W) : i \in {1, 2, 3, 4, 5}
    BY <2>1
  <2>3. /\ Follower(W[1]) = W[3] /\ Follower(W[3]) = W[5]
        /\ W[1] # NL /\ W[3] # NL
    BY <1>1, <1>3, <1>4, <2>1, TokenFacts
  <2>4. WellFormed(W)
    BY <1>3, <2>1, <2>2, <2>3 DEF WellFormed
  <2>5. \A i \in 1..Len(W), d \in Stream!Events : W[i] = <<"id", d>> => i = 1 /\ d = e
    BY <1>2, <1>3, <2>1, <2>2, TokenFacts
  <2> QED BY <1>2, <1>3, <2>1, <2>4, <2>5
<1>5. CASE e \in Typed
  <2>1. /\ Len(W) = 7 /\ W[3] = <<"event", e>> /\ W[4] = NL
        /\ W[5] = <<"data", e>> /\ W[6] = NL /\ W[7] = NL
    BY <1>5, WrittenLines
  <2>2. \A i \in 1..Len(W) : i \in {1, 2, 3, 4, 5, 6, 7}
    BY <2>1
  <2>3. /\ Follower(W[1]) = W[3] /\ Follower(W[3]) = W[5] /\ Follower(W[5]) = W[7]
        /\ W[1] # NL /\ W[3] # NL /\ W[5] # NL
    BY <1>1, <1>3, <1>5, <2>1, TokenFacts
  <2>4. WellFormed(W)
    <3>1. \A i \in 1..Len(W) :
            W[i] # NL => i + 2 <= Len(W) /\ W[i + 1] = NL /\ W[i + 2] = Follower(W[i])
      <4> SUFFICES ASSUME NEW i \in 1..Len(W), W[i] # NL
                   PROVE  i + 2 <= Len(W) /\ W[i + 1] = NL /\ W[i + 2] = Follower(W[i])
        OBVIOUS
      <4>1. i = 1 \/ i = 3 \/ i = 5
        BY <2>1, <2>2, <1>3
      <4>2. CASE i = 1
        BY <4>2, <2>1, <2>3, <1>3
      <4>3. CASE i = 3
        BY <4>3, <2>1, <2>3
      <4>4. CASE i = 5
        BY <4>4, <2>1, <2>3
      <4> QED BY <4>1, <4>2, <4>3, <4>4
    <3>2. \A i \in 1..Len(W) : ~(i + 2 <= Len(W) /\ W[i] = NL /\ W[i + 1] = NL)
      BY <2>1, <2>2, <2>3, <1>3
    <3> QED BY <1>3, <3>1, <3>2 DEF WellFormed
  <2>5. \A i \in 1..Len(W), d \in Stream!Events : W[i] = <<"id", d>> => i = 1 /\ d = e
    BY <1>2, <1>3, <2>1, <2>2, TokenFacts
  <2> QED BY <1>2, <1>3, <2>1, <2>4, <2>5
<1> QED BY <1>4, <1>5

\* So is a keepalive, which has no id.
LEMMA CommentFacts ==
  ASSUME StreamAssumption, NEW l, l = Stream!Line("comment", 0), NEW W, W = l \o Eol
  PROVE  /\ WellFormed(W)
         /\ W # <<>>
         /\ W[1] \in Starts
         /\ \A i \in 1..Len(W), d \in Stream!Events : W[i] # <<"id", d>>
<1> DEFINE S == Fields \cup {NL}
<1>1. <<"comment", 0>> \in Fields /\ <<"comment", 0>> \in Starts
  BY DEF Fields, Starts
<1>2. /\ l \in Seq(S) /\ Len(l) = 2 /\ l[1] = <<"comment", 0>> /\ l[2] = NL
      /\ Eol \in Seq(S) /\ Len(Eol) = 1 /\ Eol[1] = NL
  BY <1>1, LineFacts DEF NL
<1> HIDE DEF S
<1>3. /\ W \in Seq(S) /\ Len(W) = 2 + 1
      /\ W[1] = l[1] /\ W[2] = l[2] /\ W[2 + 1] = Eol[1]
  <2>1. /\ W \in Seq(S) /\ Len(W) = Len(l) + Len(Eol)
        /\ \A i \in 1..Len(l) : W[i] = l[i]
        /\ \A i \in 1..Len(Eol) : W[Len(l) + i] = Eol[i]
    <3>1. l \in Seq(S) /\ Eol \in Seq(S)
      BY <1>2
    <3>. QED BY <3>1
  <2>. QED BY <1>2, <2>1
<1>4. Len(W) = 3 /\ W[1] = <<"comment", 0>> /\ W[2] = NL /\ W[3] = NL
  BY <1>2, <1>3
<1>5. \A i \in 1..Len(W) : i \in {1, 2, 3}
  BY <1>4
<1>6. WellFormed(W)
  <2>1. W[1] # NL /\ Follower(W[1]) = NL
    BY <1>1, <1>4, TokenFacts
  <2>2. \A i \in 1..Len(W) :
          W[i] # NL => i + 2 <= Len(W) /\ W[i + 1] = NL /\ W[i + 2] = Follower(W[i])
    <3> SUFFICES ASSUME NEW i \in 1..Len(W), W[i] # NL
                 PROVE  i + 2 <= Len(W) /\ W[i + 1] = NL /\ W[i + 2] = Follower(W[i])
      OBVIOUS
    <3>1. i = 1
      BY <1>4, <1>5
    <3> QED BY <3>1, <2>1, <1>4
  <2>3. \A i \in 1..Len(W) : ~(i + 2 <= Len(W) /\ W[i] = NL /\ W[i + 1] = NL)
    BY <2>1, <1>4, <1>5
  <2> QED BY <1>3, <2>2, <2>3 DEF WellFormed, S
<1>7. \A i \in 1..Len(W), d \in Stream!Events : W[i] # <<"id", d>>
  <2>1. \A d \in Stream!Events : <<"id", d>> \in Fields /\ <<"id", d>> # <<"comment", 0>>
    BY DEF Fields
  <2> QED BY <1>4, <1>5, <2>1, TokenFacts
<1> QED BY <1>1, <1>4, <1>6, <1>7

\* What may follow a block may follow the text ahead.
LEMMA AppendPart ==
  ASSUME StreamAssumption, NEW T, WellFormed(T), PartInv(T),
         NEW W, WellFormed(W), W # <<>>, W[1] \in Starts
  PROVE  PartInv(T \o W)
<1> DEFINE U == T \o W
<1>1. T \in Seq(Fields \cup {NL}) /\ W \in Seq(Fields \cup {NL})
  BY DEF WellFormed
<1>2. /\ U \in Seq(Fields \cup {NL}) /\ Len(U) = Len(T) + Len(W)
      /\ \A i \in 1..Len(T) : U[i] = T[i]
      /\ \A i \in 1..Len(W) : U[Len(T) + i] = W[i]
      /\ Len(W) >= 1 /\ Len(W) \in Nat /\ Len(T) \in Nat
  BY <1>1
<1> HIDE DEF U
<1>3. U # <<>> /\ U[Len(T) + 1] = W[1]
  BY <1>2
<1>4. CASE T = <<>>
  <2>1. U[1] \in Starts
    BY <1>3, <1>4
  <2>2. part = Stream!NoEvent
    BY <1>4 DEF PartInv, AtBlank
  <2> QED BY <1>3, <2>1, <2>2 DEF PartInv, U
<1>5. CASE T # <<>>
  <2>1. Len(T) >= 1 /\ U[1] = T[1]
    BY <1>1, <1>2, <1>5
  <2>2. AtBlank(T) => AtBlank(U)
    <3> SUFFICES ASSUME AtBlank(T) PROVE U[2] \in Starts
      BY <1>3, <2>1 DEF AtBlank
    <3>1. CASE Len(T) = 1
      BY <1>3, <3>1
    <3>2. CASE Len(T) > 1
      BY <1>2, <3>2 DEF AtBlank
    <3> QED BY <2>1, <1>2, <3>1, <3>2
  <2> QED BY <1>3, <1>5, <2>1, <2>2 DEF PartInv, U
<1> QED BY <1>4, <1>5
-----------------------------------------------------------------------------
(* What the loop takes.                                                    *)

\* The next line is the text at the head of what is ahead, or it is blank.
LEMMA NextLine ==
  ASSUME StreamAssumption, Stream!TypeOK, WellFormed(Ahead),
         NEW i \in DOMAIN buffer, Stream!EndsLine(buffer, i),
         \A k \in 1..(i - 1) : ~Stream!EndsLine(buffer, k)
  PROVE  /\ \/ i = 1 /\ Ahead[1] = NL /\ Stream!LineAt(buffer, i) = Stream!Blank
            \/ i = 2 /\ Ahead[1] \in Fields /\ Stream!LineAt(buffer, i) = Ahead[1]
         /\ i \in 1..Len(buffer)
         /\ Len(Ahead) >= i
         /\ Ahead \in Seq(Fields \cup {NL})
<1> DEFINE S == Stream!Texts \cup {Stream!CR, Stream!LF}
<1>1. /\ buffer \in Seq(S) /\ wire \in Seq(S)
      /\ i \in 1..Len(buffer) /\ Len(buffer) \in Nat
  BY DEF Stream!TypeOK
<1> HIDE DEF S
<1>2. /\ Len(Ahead) = Len(buffer) + Len(wire)
      /\ \A k \in 1..Len(buffer) : Ahead[k] = buffer[k]
      /\ Len(wire) \in Nat
  BY <1>1 DEF Ahead
<1>3. Ahead \in Seq(Fields \cup {NL})
  BY DEF WellFormed
<1>4. \A k \in 1..Len(buffer) : buffer[k] \in Fields \cup {NL}
  BY <1>2, <1>3
<1>5. \A k \in 1..Len(buffer) : Stream!EndsLine(buffer, k) <=> buffer[k] = NL
  <2>1. CASE NL = Stream!LF
    BY <2>1, <1>4, TokenFacts DEF Stream!EndsLine
  <2>2. CASE NL = Stream!CR
    <3>1. \A k \in 1..Len(buffer) : buffer[k] # Stream!LF
      BY <2>2, <1>4, TokenFacts
    <3>2. \A k \in 1..Len(buffer) : k < Len(buffer) => k + 1 \in 1..Len(buffer)
      BY <1>1
    <3> QED BY <2>2, <3>1, <3>2 DEF Stream!EndsLine
  <2> QED BY <2>1, <2>2, TokenFacts
<1>6. buffer[i] = NL
  BY <1>1, <1>5
<1>7. CASE Ahead[1] = NL
  <2>1. 1 \in 1..Len(buffer) /\ buffer[1] = NL
    BY <1>1, <1>2, <1>7
  <2>2. i = 1
    BY <1>1, <1>5, <2>1
  <2>3. Stream!LineAt(buffer, i) = Stream!Blank
    BY <2>2 DEF Stream!LineAt
  <2> QED BY <1>1, <1>2, <1>3, <1>7, <2>2, <2>3
<1>8. CASE Ahead[1] # NL
  <2>1. 1 \in 1..Len(buffer) /\ 1 \in 1..Len(Ahead)
    BY <1>1, <1>2
  <2>2. Ahead[1] \in Fields /\ Ahead[2] = NL
    <3>1. Ahead[1 + 1] = NL
      BY <1>8, <2>1 DEF WellFormed
    <3> QED BY <1>3, <1>8, <2>1, <3>1
  <2>3. i # 1
    BY <1>2, <1>6, <1>8, <2>1
  <2>4. 2 \in 1..Len(buffer) /\ buffer[2] = NL
    BY <1>1, <1>2, <2>2, <2>3
  <2>5. i = 2
    BY <1>1, <1>5, <2>3, <2>4
  <2>6. Stream!LineAt(buffer, i) = Ahead[1]
    <3>1. buffer[1] # Stream!CR
      BY <1>2, <2>1, <2>2, TokenFacts
    <3> QED BY <1>2, <2>1, <2>5, <3>1 DEF Stream!LineAt
  <2> QED BY <1>1, <1>2, <1>3, <2>2, <2>5, <2>6
<1> QED BY <1>7, <1>8

\* The tokens that are left.
LEMMA LeftAhead ==
  ASSUME StreamAssumption, Stream!TypeOK, WellFormed(Ahead),
         NEW i \in 1..Len(buffer), Len(Ahead) >= i,
         buffer' = SubSeq(buffer, i + 1, Len(buffer)), wire' = wire
  PROVE  /\ WellFormed(Ahead')
         /\ Len(Ahead') = Len(Ahead) - i
         /\ \A k \in 1..Len(Ahead') : Ahead'[k] = Ahead[k + i]
         /\ Ahead' \in Seq(Fields \cup {NL})
         /\ buffer' \in Seq(Stream!Texts \cup {Stream!CR, Stream!LF})
<1> DEFINE S == Stream!Texts \cup {Stream!CR, Stream!LF}
<1>1. buffer \in Seq(S) /\ wire \in Seq(S) /\ Len(buffer) \in Nat
  BY DEF Stream!TypeOK
<1>2. buffer' \in Seq(S)
  <2>1. i \in 0..Len(buffer)
    BY <1>1
  <2> HIDE DEF S
  <2> QED BY <1>1, <2>1, ShiftFacts
<1>3. Ahead' = SubSeq(Ahead, i + 1, Len(Ahead)) /\ i \in 0..Len(Ahead)
  <2> HIDE DEF S
  <2> QED BY <1>1, TakeFacts DEF Ahead
<1>4. Ahead \in Seq(Fields \cup {NL})
  BY DEF WellFormed
<1>5. /\ Ahead' \in Seq(Fields \cup {NL}) /\ Len(Ahead') = Len(Ahead) - i
      /\ \A k \in 1..(Len(Ahead) - i) : Ahead'[k] = Ahead[k + i]
  BY <1>3, <1>4, ShiftFacts
<1>6. WellFormed(Ahead')
  BY <1>3, ShiftWellFormed
<1> QED BY <1>2, <1>5, <1>6

\* Which line comes when.
LEMMA LineOfEvent ==
  ASSUME StreamAssumption, WellFormed(Ahead), PartInv(Ahead), Ahead # <<>>
  PROVE  \/ /\ Ahead[1] = <<"comment", 0>>
            /\ part = Stream!NoEvent
         \/ \E e \in Stream!Events :
              /\ Ahead[1] = <<"id", e>>
              /\ part = Stream!NoEvent
         \/ \E e \in Typed :
              /\ Ahead[1] = <<"event", e>>
              /\ part = [id |-> e, type |-> 0, data |-> <<>>]
         \/ \E e \in Stream!Events :
              /\ Ahead[1] = <<"data", e>>
              /\ part = [id |-> e, type |-> IF e \in Typed THEN e ELSE 0, data |-> <<>>]
         \/ /\ Ahead[1] = NL
            /\ AtBlank(Ahead)
            /\ \/ part = Stream!NoEvent
               \/ \E e \in Stream!Events : part = Stream!Event(e)
<1>1. Typed \subseteq Stream!Events
  BY DEF StreamAssumption
<1>2. CASE part = Stream!NoEvent /\ (Ahead[1] \in Starts \/ AtBlank(Ahead))
  BY <1>2 DEF Starts, AtBlank
<1>3. CASE \E e \in Stream!Events :
             /\ part = [id |-> e, type |-> 0, data |-> <<>>]
             /\ Ahead[1] = Follower(<<"id", e>>)
  <2>1. PICK e \in Stream!Events : /\ part = [id |-> e, type |-> 0, data |-> <<>>]
                                   /\ Ahead[1] = Follower(<<"id", e>>)
    BY <1>3
  <2>2. CASE e \in Typed
    BY <2>1, <2>2, TokenFacts
  <2>3. CASE e \notin Typed
    BY <2>1, <2>3, TokenFacts
  <2> QED BY <2>2, <2>3
<1>4. CASE \E e \in Typed : /\ part = [id |-> e, type |-> e, data |-> <<>>]
                            /\ Ahead[1] = <<"data", e>>
  BY <1>1, <1>4
<1>5. CASE \E e \in Stream!Events : part = Stream!Event(e) /\ AtBlank(Ahead)
  BY <1>5 DEF AtBlank
<1> QED BY <1>2, <1>3, <1>4, <1>5 DEF PartInv
\* U is T without its first i tokens.
Rest(T, U, i) == Len(U) = Len(T) - i /\ \A k \in 1..Len(U) : U[k] = T[k + i]

SameIds(T, U, i) ==
  /\ \A k \in 1..Len(U), d \in Stream!Events :
       U[k] = <<"id", d>> => k + i \in 1..Len(T) /\ T[k + i] = <<"id", d>>
  /\ \A k \in 1..Len(T), d \in Stream!Events :
       T[k] = <<"id", d>> => k = 1 \/ (k - i \in 1..Len(U) /\ U[k - i] = <<"id", d>>)

\* The ids that are left are those that were there, but for the taken line.
LEMMA IdsLeft ==
  ASSUME StreamAssumption, NEW T, WellFormed(T), NEW U, NEW i \in {1, 2}, Len(T) >= i,
         Rest(T, U, i), i = 1 <=> T[1] = NL
  PROVE  SameIds(T, U, i)
<1> USE DEF Rest
<1>1. T \in Seq(Fields \cup {NL}) /\ Len(T) \in Nat
  BY DEF WellFormed
<1>2. \A d \in Stream!Events : <<"id", d>> # NL
  <2>1. \A d \in Stream!Events : <<"id", d>> \in Fields
    BY DEF Fields
  <2> QED BY <2>1, TokenFacts
<1>3. i = 2 => T[2] = NL
  <2>1. i = 2 => T[1 + 1] = NL
    BY <1>1 DEF WellFormed
  <2> QED BY <2>1
<1>4. ASSUME NEW k \in 1..Len(U), NEW d \in Stream!Events, U[k] = <<"id", d>>
      PROVE  k + i \in 1..Len(T) /\ T[k + i] = <<"id", d>>
  BY <1>1, <1>4
<1>5. ASSUME NEW k \in 1..Len(T), NEW d \in Stream!Events, T[k] = <<"id", d>>, k # 1
      PROVE  k - i \in 1..Len(U) /\ U[k - i] = <<"id", d>>
  <2>1. k > i
    <3>1. CASE i = 1
      BY <1>5, <3>1
    <3>2. CASE i = 2
      <4>1. k # 2
        BY <1>2, <1>3, <1>5, <3>2
      <4> QED BY <1>5, <3>2, <4>1
    <3> QED BY <3>1, <3>2
  <2>2. k - i \in 1..Len(U) /\ (k - i) + i = k
    BY <1>1, <2>1
  <2> QED BY <1>5, <2>2
<1> QED BY <1>4, <1>5 DEF SameIds

\* What taking a line of text does to the event being built.
LEMMA CollectedFacts ==
  ASSUME StreamAssumption, NEW e \in Stream!Events
  PROVE  /\ part = Stream!NoEvent =>
              Stream!Collected(<<"id", e>>) = [id |-> e, type |-> 0, data |-> <<>>]
         /\ part = [id |-> e, type |-> 0, data |-> <<>>] =>
              Stream!Collected(<<"event", e>>) = [id |-> e, type |-> e, data |-> <<>>]
         /\ part = [id |-> e, type |-> IF e \in Typed THEN e ELSE 0, data |-> <<>>] =>
              Stream!Collected(<<"data", e>>) = Stream!Event(e)
         /\ Stream!Collected(<<"comment", 0>>) = part
<1>1. part = Stream!NoEvent =>
        Stream!Collected(<<"id", e>>) = [id |-> e, type |-> 0, data |-> <<>>]
  BY DEF Stream!Collected, Stream!NoEvent
<1>2. part = [id |-> e, type |-> 0, data |-> <<>>] =>
        Stream!Collected(<<"event", e>>) = [id |-> e, type |-> e, data |-> <<>>]
  BY DEF Stream!Collected
<1>3. ASSUME part = [id |-> e, type |-> IF e \in Typed THEN e ELSE 0, data |-> <<>>]
      PROVE  Stream!Collected(<<"data", e>>) = Stream!Event(e)
  <2>1. Stream!Collected(<<"data", e>>) = [part EXCEPT !.data = Append(@, e)]
    BY DEF Stream!Collected
  <2>2. Append(<<>>, e) = <<e>>
    OBVIOUS
  <2> QED BY <1>3, <2>1, <2>2 DEF Stream!Event
<1>4. Stream!Collected(<<"comment", 0>>) = part
  BY DEF Stream!Collected
<1> QED BY <1>1, <1>2, <1>3, <1>4

\* The events being built have their type.
LEMMA PartTypes ==
  ASSUME StreamAssumption, NEW e \in Stream!Events
  PROVE  /\ [id |-> e, type |-> 0, data |-> <<>>]
              \in [id : 0..MaxEvents, type : {0} \cup Typed, data : Seq(Stream!Events)]
         /\ e \in Typed => [id |-> e, type |-> e, data |-> <<>>]
              \in [id : 0..MaxEvents, type : {0} \cup Typed, data : Seq(Stream!Events)]
         /\ Stream!Event(e)
              \in [id : 0..MaxEvents, type : {0} \cup Typed, data : Seq(Stream!Events)]
         /\ Stream!NoEvent
              \in [id : 0..MaxEvents, type : {0} \cup Typed, data : Seq(Stream!Events)]
<1>1. e \in 0..MaxEvents /\ 0 \in 0..MaxEvents
  BY DEF Stream!Events, StreamAssumption
<1>2. <<e>> \in Seq(Stream!Events) /\ <<>> \in Seq(Stream!Events)
  OBVIOUS
<1> QED BY <1>1, <1>2 DEF Stream!Event, Stream!NoEvent

\* A line of text is taken.
LEMMA FieldInv ==
  ASSUME StreamAssumption, Stream!TypeOK, OpenInv(Ahead),
         WellFormed(Ahead'), Ahead[1] # NL, Len(Ahead) >= 2,
         Rest(Ahead, Ahead', 2),
         part' = Stream!Collected(Ahead[1]),
         UNCHANGED <<cursor, lastEventId, dispatched>>
  PROVE  /\ OpenInv(Ahead)'
         /\ part' \in [id : 0..MaxEvents, type : {0} \cup Typed, data : Seq(Stream!Events)]
<1> USE DEF OpenInv, Rest
<1>1. Ahead # <<>> /\ Len(Ahead) \in Nat /\ Ahead \in Seq(Fields \cup {NL}) /\ 1 \in 1..Len(Ahead)
  BY DEF WellFormed
<1>2. /\ Len(Ahead) >= 3 /\ Ahead[2] = NL /\ Ahead[3] = Follower(Ahead[1])
      /\ Ahead' # <<>> /\ Ahead'[1] = Follower(Ahead[1])
  <2>1. Len(Ahead) >= 1 + 2 /\ Ahead[1 + 1] = NL /\ Ahead[1 + 2] = Follower(Ahead[1])
    BY <1>1 DEF WellFormed
  <2>2. 1 \in 1..Len(Ahead')
    BY <1>1, <2>1
  <2> QED BY <1>1, <2>1, <2>2
\* The end of a comment or an event.
<1>3. Follower(Ahead[1]) = NL => AtBlank(Ahead')
  <2> SUFFICES ASSUME Follower(Ahead[1]) = NL, Len(Ahead') > 1 PROVE Ahead'[2] \in Starts
    BY <1>2 DEF AtBlank
  <2>1. 2 \in 1..Len(Ahead') /\ 2 \in 1..Len(Ahead) /\ 2 + 2 <= Len(Ahead)
    BY <1>1
  <2>2. Ahead[2] = NL /\ Ahead[2 + 1] = NL
    BY <1>2
  <2>3. Ahead[2 + 2] \in Starts
    BY <2>1, <2>2 DEF WellFormed
  <2> QED BY <2>1, <2>3
<1>4. /\ \A k \in 1..Len(Ahead'), d \in Stream!Events :
           Ahead'[k] = <<"id", d>> => k + 2 \in 1..Len(Ahead) /\ Ahead[k + 2] = <<"id", d>>
      /\ \A k \in 1..Len(Ahead), d \in Stream!Events :
           Ahead[k] = <<"id", d>> =>
             k = 1 \/ (k - 2 \in 1..Len(Ahead') /\ Ahead'[k - 2] = <<"id", d>>)
  <2> HIDE DEF Rest
  <2> SUFFICES SameIds(Ahead, Ahead', 2)
    BY DEF SameIds
  <2> QED BY IdsLeft
<1>5. \A e \in Stream!Events : e \in Nat \ {0}
  BY TokenFacts
\* An id becomes that of the event being built; nothing else changes.
<1>6. ASSUME \/ /\ part'.id = part.id
                /\ \A e \in Stream!Events : Ahead[1] # <<"id", e>>
             \/ \E e \in Stream!Events :
                  Ahead[1] = <<"id", e>> /\ part.id = 0 /\ part'.id = e
      PROVE  AheadInv(Ahead)'
  <2>1. LastId' = LastId /\ cursor' = cursor /\ lastEventId' = lastEventId
    BY DEF LastId
  <2>2. \A d \in Stream!Events : Coming(Ahead, d)' <=> Coming(Ahead, d)
    <3>1. ASSUME NEW d \in Stream!Events, Coming(Ahead, d)' PROVE Coming(Ahead, d)
      <4>1. CASE part'.id = d
        BY <1>1, <1>6, <4>1 DEF Coming
      <4>2. CASE \E k \in 1..Len(Ahead') : Ahead'[k] = <<"id", d>>
        BY <1>4, <4>2 DEF Coming
      <4> QED BY <3>1, <4>1, <4>2 DEF Coming
    <3>2. ASSUME NEW d \in Stream!Events, Coming(Ahead, d) PROVE Coming(Ahead, d)'
      <4>1. CASE part.id = d
        BY <1>5, <1>6, <4>1 DEF Coming
      <4>2. CASE \E k \in 1..Len(Ahead) : Ahead[k] = <<"id", d>>
        <5>1. PICK k \in 1..Len(Ahead) : Ahead[k] = <<"id", d>>
          BY <4>2
        <5>2. CASE k = 1
          BY <1>6, <5>1, <5>2 DEF Coming
        <5>3. CASE k # 1
          BY <1>4, <5>1, <5>3 DEF Coming
        <5> QED BY <5>2, <5>3
      <4> QED BY <3>2, <4>1, <4>2 DEF Coming
    <3> QED BY <3>1, <3>2
  <2>3. (part.id # 0 => LastId < part.id /\ part.id <= cursor)'
    BY <1>1, <1>6, <2>1 DEF AheadInv
  <2>4. (\A k \in 1..Len(Ahead), e \in Stream!Events :
           Ahead[k] = <<"id", e>> => LastId < e /\ part.id < e /\ e <= cursor)'
    <3> SUFFICES ASSUME NEW k \in 1..Len(Ahead'), NEW e \in Stream!Events,
                        Ahead'[k] = <<"id", e>>
                 PROVE  LastId < e /\ part'.id < e /\ e <= cursor
      BY <2>1
    <3>1. k + 2 \in 1..Len(Ahead) /\ Ahead[k + 2] = <<"id", e>> /\ 1 < k + 2
      BY <1>1, <1>4
    <3>2. LastId < e /\ part.id < e /\ e <= cursor
      BY <3>1 DEF AheadInv
    <3>3. \A d \in Stream!Events : Ahead[1] = <<"id", d>> => d < e
      BY <1>1, <3>1 DEF AheadInv
    <3> QED BY <1>6, <3>2, <3>3
  <2>5. (\A k, l \in 1..Len(Ahead), d, e \in Stream!Events :
           (k < l /\ Ahead[k] = <<"id", d>> /\ Ahead[l] = <<"id", e>>) => d < e)'
    <3> SUFFICES ASSUME NEW k \in 1..Len(Ahead'), NEW l \in 1..Len(Ahead'),
                        NEW d \in Stream!Events, NEW e \in Stream!Events,
                        k < l, Ahead'[k] = <<"id", d>>, Ahead'[l] = <<"id", e>>
                 PROVE  d < e
      OBVIOUS
    <3>1. /\ k + 2 \in 1..Len(Ahead) /\ l + 2 \in 1..Len(Ahead) /\ k + 2 < l + 2
          /\ Ahead[k + 2] = <<"id", d>> /\ Ahead[l + 2] = <<"id", e>>
      BY <1>1, <1>4
    <3> QED BY <3>1 DEF AheadInv
  <2>6. (\A d, e \in Stream!Events :
           (d = lastEventId \/ Coming(Ahead, d)) /\ d < e /\ e <= cursor => Coming(Ahead, e))'
    BY <2>1, <2>2 DEF AheadInv
  <2>7. (LastId <= cursor)'
    BY <2>1 DEF AheadInv
  <2> QED BY <2>3, <2>4, <2>5, <2>6, <2>7 DEF AheadInv
<1>7. CASE Ahead[1] = <<"comment", 0>> /\ part = Stream!NoEvent
  <2>1. part' = part
    BY <1>7 DEF Stream!Collected
  <2>2. \A e \in Stream!Events : Ahead[1] # <<"id", e>>
    BY <1>7
  <2>3. PartInv(Ahead)'
    BY <1>2, <1>3, <1>7, <2>1, TokenFacts DEF PartInv
  <2> QED BY <1>6, <2>1, <2>2, <2>3 DEF Stream!TypeOK
<1>8. CASE \E e \in Stream!Events : Ahead[1] = <<"id", e>> /\ part = Stream!NoEvent
  <2>1. PICK e \in Stream!Events : Ahead[1] = <<"id", e>> /\ part = Stream!NoEvent
    BY <1>8
  <2>2. part' = [id |-> e, type |-> 0, data |-> <<>>]
    BY <2>1, CollectedFacts
  <2>3. PartInv(Ahead)'
    BY <1>2, <2>1, <2>2 DEF PartInv
  <2>4. part.id = 0 /\ part'.id = e
    BY <2>1, <2>2 DEF Stream!NoEvent
  <2> QED BY <1>6, <2>1, <2>2, <2>3, <2>4, PartTypes
<1>9. CASE \E e \in Typed : /\ Ahead[1] = <<"event", e>>
                            /\ part = [id |-> e, type |-> 0, data |-> <<>>]
  <2>1. PICK e \in Typed : /\ Ahead[1] = <<"event", e>>
                           /\ part = [id |-> e, type |-> 0, data |-> <<>>]
    BY <1>9
  <2>2. e \in Stream!Events
    BY DEF StreamAssumption
  <2>3. part' = [id |-> e, type |-> e, data |-> <<>>]
    BY <2>1, <2>2, CollectedFacts
  <2>4. PartInv(Ahead)'
    BY <1>2, <2>1, <2>2, <2>3, TokenFacts DEF PartInv
  <2>5. part'.id = part.id /\ \A d \in Stream!Events : Ahead[1] # <<"id", d>>
    BY <2>1, <2>3
  <2> QED BY <1>6, <2>2, <2>3, <2>4, <2>5, PartTypes
<1>10. CASE \E e \in Stream!Events :
              /\ Ahead[1] = <<"data", e>>
              /\ part = [id |-> e, type |-> IF e \in Typed THEN e ELSE 0, data |-> <<>>]
  <2>1. PICK e \in Stream!Events :
              /\ Ahead[1] = <<"data", e>>
              /\ part = [id |-> e, type |-> IF e \in Typed THEN e ELSE 0, data |-> <<>>]
    BY <1>10
  <2>2. part' = Stream!Event(e)
    BY <2>1, CollectedFacts
  <2>3. PartInv(Ahead)'
    BY <1>2, <1>3, <2>1, <2>2, TokenFacts DEF PartInv
  <2>4. part'.id = part.id /\ \A d \in Stream!Events : Ahead[1] # <<"id", d>>
    BY <2>1, <2>2 DEF Stream!Event
  <2> QED BY <1>6, <2>2, <2>3, <2>4, PartTypes
<1> QED BY <1>1, <1>7, <1>8, <1>9, <1>10, LineOfEvent
\* The last dispatched event, when one more is.
LEMMA LastDispatched ==
  ASSUME Stream!TypeOK,
         NEW p \in [id : 0..MaxEvents, type : {0} \cup Typed, data : Seq(Stream!Events)],
         dispatched' = Append(dispatched, p)
  PROVE  /\ LastId' = p.id
         /\ DOMAIN dispatched = 1..Len(dispatched)
         /\ DOMAIN dispatched' = 1..(Len(dispatched) + 1)
         /\ Len(dispatched') = Len(dispatched) + 1
         /\ Len(dispatched) \in Nat
         /\ \A i \in 1..Len(dispatched) : dispatched'[i] = dispatched[i]
         /\ dispatched'[Len(dispatched) + 1] = p
         /\ dispatched' \in Seq([id : 0..MaxEvents, type : {0} \cup Typed,
                                 data : Seq(Stream!Events)])
<1> DEFINE R == [id : 0..MaxEvents, type : {0} \cup Typed, data : Seq(Stream!Events)]
<1>1. dispatched \in Seq(R) /\ p \in R
  BY DEF Stream!TypeOK
<1> HIDE DEF R
<1>2. /\ dispatched' \in Seq(R)
      /\ Len(dispatched') = Len(dispatched) + 1
      /\ Len(dispatched) \in Nat
      /\ DOMAIN dispatched = 1..Len(dispatched)
      /\ DOMAIN dispatched' = 1..Len(dispatched')
      /\ \A i \in 1..Len(dispatched) : dispatched'[i] = dispatched[i]
      /\ dispatched'[Len(dispatched) + 1] = p
  BY <1>1
<1>3. dispatched' # <<>>
  BY <1>2
<1>4. LastId' = p.id
  BY <1>2, <1>3 DEF LastId
<1> QED BY <1>2, <1>4 DEF R

\* The event e is dispatched as EventFeed has it.
Dispatches(e) ==
  /\ dispatched' = Append(dispatched, Stream!Event(e))
  /\ lastEventId' = e
  /\ LastId < e /\ e <= published
  /\ lastEventId = 0 \/ e = LastId + 1

\* A blank line is taken, with or without an event to dispatch.
LEMMA BlankInv ==
  ASSUME StreamAssumption, Stream!TypeOK, ResumeInv, ChunkingIsInvisible, OpenInv(Ahead),
         WellFormed(Ahead'), Len(Ahead) >= 1, Ahead[1] = NL, Rest(Ahead, Ahead', 1),
         Stream!TakeBlank(Stream!Blank), UNCHANGED <<published, cursor>>
  PROVE  /\ OpenInv(Ahead)'
         /\ ResumeInv'
         /\ ChunkingIsInvisible'
         /\ part' = Stream!NoEvent
         /\ lastEventId' \in 0..MaxEvents
         /\ dispatched' \in Seq([id : 0..MaxEvents, type : {0} \cup Typed,
                                 data : Seq(Stream!Events)])
         /\ \/ UNCHANGED <<lastEventId, dispatched>>
            \/ \E e \in Stream!Events : Dispatches(e)
<1> USE DEF OpenInv
<1>1. Ahead # <<>> /\ Len(Ahead) \in Nat /\ Ahead \in Seq(Fields \cup {NL}) /\ 1 \in 1..Len(Ahead)
  BY DEF WellFormed
<1>2. /\ AtBlank(Ahead)
      /\ part = Stream!NoEvent \/ \E e \in Stream!Events : part = Stream!Event(e)
  <2>1. \A e \in Stream!Events : Ahead[1] # <<"id", e>> /\ Ahead[1] # <<"event", e>>
                                   /\ Ahead[1] # <<"data", e>>
    <3>1. \A e \in Stream!Events :
            <<"id", e>> \in Fields /\ <<"event", e>> \in Fields /\ <<"data", e>> \in Fields
      BY DEF Fields
    <3> QED BY <3>1, TokenFacts
  <2>2. Ahead[1] # <<"comment", 0>>
    BY TokenFacts DEF Fields
  <2> QED BY <1>1, <2>1, <2>2, LineOfEvent DEF StreamAssumption
<1>3. part' = Stream!NoEvent
  BY DEF Stream!TakeBlank
<1>4. PartInv(Ahead)'
  <2>1. CASE Ahead' = <<>>
    BY <1>3, <2>1 DEF PartInv
  <2>2. CASE Ahead' # <<>>
    <3>1. Len(Ahead') >= 1 /\ Len(Ahead') = Len(Ahead) - 1
      BY <1>1, <2>2 DEF WellFormed, Rest
    <3>2. 1 \in 1..Len(Ahead')
      BY <1>1, <3>1
    <3>3. Ahead'[1] = Ahead[1 + 1]
      BY <3>2 DEF Rest
    <3>4. Ahead'[1] \in Starts
      BY <1>1, <1>2, <3>1, <3>3 DEF AtBlank
    <3> QED BY <1>3, <3>4 DEF PartInv
  <2> QED BY <2>1, <2>2
<1>5. /\ \A k \in 1..Len(Ahead'), d \in Stream!Events :
           Ahead'[k] = <<"id", d>> => k + 1 \in 1..Len(Ahead) /\ Ahead[k + 1] = <<"id", d>>
      /\ \A k \in 1..Len(Ahead), d \in Stream!Events :
           Ahead[k] = <<"id", d>> =>
             k = 1 \/ (k - 1 \in 1..Len(Ahead') /\ Ahead'[k - 1] = <<"id", d>>)
  <2> SUFFICES SameIds(Ahead, Ahead', 1)
    BY DEF SameIds
  <2> QED BY IdsLeft
<1>6. \A e \in Stream!Events : e \in Nat \ {0} /\ Ahead[1] # <<"id", e>>
  <2>1. \A e \in Stream!Events : <<"id", e>> \in Fields
    BY DEF Fields
  <2> QED BY <2>1, TokenFacts
\* The ids of what is ahead are the same.
<1>7. /\ \A k \in 1..Len(Ahead'), e \in Stream!Events :
           Ahead'[k] = <<"id", e>> => LastId < e /\ part.id < e /\ e <= cursor
      /\ \A k, l \in 1..Len(Ahead'), d, e \in Stream!Events :
           (k < l /\ Ahead'[k] = <<"id", d>> /\ Ahead'[l] = <<"id", e>>) => d < e
  <2>1. ASSUME NEW k \in 1..Len(Ahead'), NEW e \in Stream!Events, Ahead'[k] = <<"id", e>>
        PROVE  LastId < e /\ part.id < e /\ e <= cursor
    BY <1>5, <2>1 DEF AheadInv
  <2>2. ASSUME NEW k \in 1..Len(Ahead'), NEW l \in 1..Len(Ahead'),
               NEW d \in Stream!Events, NEW e \in Stream!Events,
               k < l, Ahead'[k] = <<"id", d>>, Ahead'[l] = <<"id", e>>
        PROVE  d < e
    <3>1. /\ k + 1 \in 1..Len(Ahead) /\ l + 1 \in 1..Len(Ahead) /\ k + 1 < l + 1
          /\ Ahead[k + 1] = <<"id", d>> /\ Ahead[l + 1] = <<"id", e>>
      BY <1>5, <2>2
    <3> QED BY <3>1 DEF AheadInv
  <2> QED BY <2>1, <2>2
<1>8. \A d \in Stream!Events : Coming(Ahead, d) /\ part.id # d => Coming(Ahead, d)'
  BY <1>5, <1>6 DEF Coming
<1>9. \A d \in Stream!Events : Coming(Ahead, d)' => Coming(Ahead, d)
  BY <1>3, <1>5, <1>6 DEF Coming, Stream!NoEvent
<1>10. LastId \in Nat /\ cursor \in Nat /\ cursor <= published /\ published \in 0..MaxEvents
  BY DEF ResumeInv, Stream!TypeOK
\* Nothing is dispatched at the end of a comment.
<1>11. CASE part = Stream!NoEvent
  <2>1. UNCHANGED <<lastEventId, dispatched>>
    BY <1>11 DEF Stream!TakeBlank, Stream!NoEvent
  <2>2. LastId' = LastId
    BY <2>1 DEF LastId
  <2>3. part'.id = 0 /\ part.id = 0
    BY <1>3, <1>11 DEF Stream!NoEvent
  <2>4. \A d \in Stream!Events : Coming(Ahead, d)' <=> Coming(Ahead, d)
    BY <1>6, <1>8, <1>9, <2>3
  <2>5. (\A d, e \in Stream!Events :
           (d = lastEventId \/ Coming(Ahead, d)) /\ d < e /\ e <= cursor => Coming(Ahead, e))'
    BY <2>1, <2>4 DEF AheadInv
  <2>6. AheadInv(Ahead)'
    BY <1>7, <2>1, <2>2, <2>3, <2>5 DEF AheadInv
  <2>7. ResumeInv' /\ ChunkingIsInvisible'
    BY <2>1, <2>2 DEF ResumeInv, ChunkingIsInvisible
  <2> QED BY <1>3, <1>4, <2>1, <2>6, <2>7 DEF Stream!TypeOK
<1>12. CASE \E e \in Stream!Events : part = Stream!Event(e)
  <2>1. PICK e \in Stream!Events : part = Stream!Event(e)
    BY <1>12
  <2>2. part.id = e /\ part.data # <<>> /\ e # 0
    BY <1>6, <2>1 DEF Stream!Event
  <2>3. dispatched' = Append(dispatched, part) /\ lastEventId' = e
    BY <2>2 DEF Stream!TakeBlank, Stream!Remembered
  <2>4. LastId < e /\ e <= cursor
    BY <2>2 DEF AheadInv
  <2>5. part \in [id : 0..MaxEvents, type : {0} \cup Typed, data : Seq(Stream!Events)]
    BY DEF Stream!TypeOK
  <2>6. LastId' = e
    BY <2>2, <2>3, <2>5, LastDispatched
  <2>7. e \in 0..MaxEvents
    BY <1>10, <2>4, <1>6 DEF StreamAssumption
  <2>8. lastEventId = 0 \/ e = LastId + 1
    <3> SUFFICES ASSUME lastEventId # 0, e # LastId + 1 PROVE FALSE
      OBVIOUS
    <3> DEFINE n == LastId + 1
    <3>1. lastEventId = LastId
      BY DEF ResumeInv
    <3>2. n < e /\ n \in Stream!Events /\ LastId \in Stream!Events
      BY <1>10, <2>4, <3>1, <1>6 DEF Stream!Events, StreamAssumption
    <3>3. Coming(Ahead, n)
      <4>1. LastId < n /\ n <= cursor
        BY <1>10, <2>4, <3>2, <1>6
      <4> HIDE DEF n
      <4> QED BY <3>1, <3>2, <4>1 DEF AheadInv
    <3>4. \A k \in 1..Len(Ahead) : Ahead[k] = <<"id", n>> => e < n
      <4> HIDE DEF n
      <4> QED BY <2>2, <3>2 DEF AheadInv
    <3>5. n # e /\ ~(e < n)
      BY <1>6, <1>10, <3>2
    <3> QED BY <2>2, <3>3, <3>4, <3>5 DEF Coming
  <2>9. AheadInv(Ahead)'
    <3>1. (LastId <= cursor)' /\ (part.id # 0 => LastId < part.id /\ part.id <= cursor)'
      BY <1>3, <2>4, <2>6 DEF Stream!NoEvent
    <3>2. (\A k \in 1..Len(Ahead), d \in Stream!Events :
             Ahead[k] = <<"id", d>> => LastId < d /\ part.id < d /\ d <= cursor)'
      BY <1>3, <1>6, <1>7, <2>2, <2>6 DEF Stream!NoEvent
    <3>3. (\A d, f \in Stream!Events :
             (d = lastEventId \/ Coming(Ahead, d)) /\ d < f /\ f <= cursor
               => Coming(Ahead, f))'
      <4> SUFFICES ASSUME NEW d \in Stream!Events, NEW f \in Stream!Events,
                          d = e \/ Coming(Ahead, d)', d < f, f <= cursor
                   PROVE  Coming(Ahead, f)'
        BY <2>3
      <4>1. Coming(Ahead, d)
        BY <1>9, <2>2 DEF Coming
      <4>2. Coming(Ahead, f)
        BY <4>1 DEF AheadInv
      <4>3. f # e
        <5>1. CASE d = e
          BY <1>6, <5>1
        <5>2. CASE \E k \in 1..Len(Ahead') : Ahead'[k] = <<"id", d>>
          BY <1>6, <1>7, <2>2, <5>2
        <5> QED BY <5>1, <5>2, <1>3, <1>6 DEF Coming, Stream!NoEvent
      <4> QED BY <1>8, <2>2, <4>2, <4>3
    <3> QED BY <1>7, <3>1, <3>2, <3>3 DEF AheadInv
  <2>10. ResumeInv'
    BY <1>10, <2>3, <2>4, <2>6, <1>6 DEF ResumeInv
  <2>11. ChunkingIsInvisible'
    <3> SUFFICES ASSUME NEW i \in DOMAIN dispatched'
                 PROVE  \E d \in Stream!Events : dispatched'[i] = Stream!Event(d)
      BY DEF ChunkingIsInvisible, Events, Event, Stream!Events, Stream!Event
    <3>1. CASE i \in DOMAIN dispatched
      <4>1. \E d \in Stream!Events : dispatched[i] = Stream!Event(d)
        BY <3>1 DEF ChunkingIsInvisible, Events, Event, Stream!Events, Stream!Event
      <4> QED BY <2>3, <2>5, <3>1, <4>1, LastDispatched
    <3>2. CASE i \notin DOMAIN dispatched
      <4>1. i = Len(dispatched) + 1
        BY <2>3, <2>5, <3>2, LastDispatched
      <4> QED BY <2>1, <2>3, <2>5, <4>1, LastDispatched
    <3> QED BY <3>1, <3>2
  <2>12. dispatched' \in Seq([id : 0..MaxEvents, type : {0} \cup Typed,
                              data : Seq(Stream!Events)])
    BY <2>3, <2>5, LastDispatched
  <2>13. Dispatches(e)
    BY <1>10, <2>1, <2>3, <2>4, <2>8, <1>6 DEF Dispatches
  <2> QED BY <1>3, <1>4, <2>3, <2>7, <2>9, <2>10, <2>11, <2>12, <2>13
<1> QED BY <1>2, <1>11, <1>12
-----------------------------------------------------------------------------
(* The actions.                                                            *)

\* Nothing is taken but on an open connection.
LEMMA TakeLineInv ==
  ASSUME StreamAssumption, StreamIInv, NEW i \in DOMAIN buffer, Stream!TakeLine(i)
  PROVE  /\ StreamIInv'
         /\ UNCHANGED published
         /\ \/ UNCHANGED <<lastEventId, dispatched>>
            \/ \E e \in Stream!Events : Dispatches(e)
<1> USE DEF StreamIInv
<1>1. conn = "open" /\ OpenInv(Ahead)
  BY DEF Stream!TakeLine, Stream!Incomplete
<1>2. /\ Stream!EndsLine(buffer, i)
      /\ \A k \in 1..(i - 1) : ~Stream!EndsLine(buffer, k)
      /\ buffer' = SubSeq(buffer, i + 1, Len(buffer))
      /\ UNCHANGED <<published, cursor, wire, conn, faults>>
  BY DEF Stream!TakeLine, Stream!serverVars
<1>3. /\ \/ i = 1 /\ Ahead[1] = NL /\ Stream!LineAt(buffer, i) = Stream!Blank
         \/ i = 2 /\ Ahead[1] \in Fields /\ Stream!LineAt(buffer, i) = Ahead[1]
      /\ i \in 1..Len(buffer)
      /\ Len(Ahead) >= i
  BY <1>1, <1>2, NextLine DEF OpenInv
<1>4. /\ WellFormed(Ahead')
      /\ Rest(Ahead, Ahead', i)
      /\ buffer' \in Seq(Stream!Texts \cup {Stream!CR, Stream!LF})
  BY <1>1, <1>2, <1>3, LeftAhead DEF OpenInv, Rest
<1>5. CASE i = 1
  <2>1. Ahead[1] = NL /\ Len(Ahead) >= 1 /\ Rest(Ahead, Ahead', 1)
    BY <1>3, <1>4, <1>5
  <2>2. Stream!TakeBlank(Stream!Blank)
    BY <1>3, <1>5 DEF Stream!TakeLine, Stream!TakeField
  <2>3. /\ OpenInv(Ahead)' /\ ResumeInv' /\ ChunkingIsInvisible'
        /\ part' = Stream!NoEvent /\ lastEventId' \in 0..MaxEvents
        /\ dispatched' \in Seq([id : 0..MaxEvents, type : {0} \cup Typed,
                                data : Seq(Stream!Events)])
        /\ \/ UNCHANGED <<lastEventId, dispatched>>
           \/ \E e \in Stream!Events : Dispatches(e)
    BY <1>1, <1>2, <1>4, <2>1, <2>2, BlankInv
  <2>4. 0 \in 0..MaxEvents /\ <<>> \in Seq(Stream!Events)
    BY DEF StreamAssumption
  <2>5. Stream!TypeOK'
    BY <1>2, <1>4, <2>3, <2>4 DEF Stream!TypeOK, Stream!NoEvent
  <2> QED BY <1>1, <1>2, <2>3, <2>5
<1>6. CASE i = 2
  <2>1. Ahead[1] # NL /\ Ahead[1] # Stream!Blank /\ Len(Ahead) >= 2 /\ Rest(Ahead, Ahead', 2)
    BY <1>3, <1>4, <1>6, TokenFacts
  <2>2. part' = Stream!Collected(Ahead[1]) /\ UNCHANGED <<lastEventId, dispatched>>
    BY <1>3, <1>6, <2>1 DEF Stream!TakeLine, Stream!TakeField, Stream!TakeBlank
  <2>3. /\ OpenInv(Ahead)'
        /\ part' \in [id : 0..MaxEvents, type : {0} \cup Typed, data : Seq(Stream!Events)]
    BY <1>1, <1>2, <1>4, <2>1, <2>2, FieldInv
  <2>4. Stream!TypeOK'
    BY <1>2, <1>4, <2>2, <2>3 DEF Stream!TypeOK
  <2>5. ResumeInv' /\ ChunkingIsInvisible'
    BY <1>2, <2>2 DEF ResumeInv, LastId, ChunkingIsInvisible
  <2> QED BY <1>1, <1>2, <2>2, <2>3, <2>4, <2>5
<1> QED BY <1>3, <1>5, <1>6

\* The invariant only reads what is ahead, however it is cut.
LEMMA SameAhead ==
  ASSUME OpenInv(Ahead), Ahead' = Ahead, UNCHANGED <<part, cursor, lastEventId, dispatched>>
  PROVE  OpenInv(Ahead)'
<1>1. LastId' = LastId
  BY DEF LastId
<1>2. WellFormed(Ahead)'
  BY DEF OpenInv
<1>3. PartInv(Ahead)'
  BY DEF OpenInv, PartInv
<1>4. \A d \in Stream!Events : Coming(Ahead, d)' <=> Coming(Ahead, d)
  BY DEF Coming
<1>5. AheadInv(Ahead)'
  BY <1>1, <1>4 DEF OpenInv, AheadInv
<1> QED BY <1>2, <1>3, <1>5 DEF OpenInv

\* A chunk is read, which moves it from the wire to the buffer.
LEMMA ReadInv ==
  ASSUME StreamAssumption, StreamIInv, NEW n \in 1..Len(wire), Stream!Read(n)
  PROVE  StreamIInv'
<1> USE DEF StreamIInv
<1> DEFINE S == Stream!Texts \cup {Stream!CR, Stream!LF}
<1>1. /\ conn = "open" /\ OpenInv(Ahead)
      /\ buffer' = buffer \o SubSeq(wire, 1, n)
      /\ wire' = SubSeq(wire, n + 1, Len(wire))
      /\ UNCHANGED <<published, cursor, conn, part, lastEventId, dispatched, faults>>
  BY DEF Stream!Read
<1>2. buffer \in Seq(S) /\ wire \in Seq(S) /\ Len(wire) \in Nat
  BY DEF Stream!TypeOK
<1>3. Ahead' = Ahead
  <2> HIDE DEF S
  <2> QED BY <1>1, <1>2, ReadFacts DEF Ahead
<1>4. buffer' \in Seq(S) /\ wire' \in Seq(S)
  <2> HIDE DEF S
  <2>1. SubSeq(wire, 1, n) \in Seq(S)
    BY <1>2
  <2>2. buffer' \in Seq(S)
    BY <1>1, <1>2, <2>1
  <2>3. n \in 0..Len(wire)
    BY <1>2
  <2>4. wire' \in Seq(S)
    BY <1>1, <1>2, <2>3, ShiftFacts
  <2> QED BY <2>2, <2>4
<1>5. Stream!TypeOK'
  BY <1>1, <1>4 DEF Stream!TypeOK
<1>6. ResumeInv' /\ ChunkingIsInvisible'
  BY <1>1 DEF ResumeInv, LastId, ChunkingIsInvisible
<1>7. OpenInv(Ahead)'
  BY <1>1, <1>3, SameAhead
<1> QED BY <1>1, <1>5, <1>6, <1>7

\* A block that carries no id, or the one after the cursor's, comes last.
LEMMA WrittenAhead ==
  ASSUME StreamAssumption, Stream!TypeOK, OpenInv(Ahead), ResumeInv,
         NEW W, WellFormed(W), W # <<>>, W[1] \in Starts,
         buffer' = buffer, wire' = wire \o W,
         UNCHANGED <<part, lastEventId, dispatched>>,
         \/ /\ cursor' = cursor
            /\ \A i \in 1..Len(W), d \in Stream!Events : W[i] # <<"id", d>>
         \/ /\ cursor' = cursor + 1 /\ cursor + 1 \in Stream!Events
            /\ W[1] = <<"id", cursor + 1>>
            /\ \A i \in 1..Len(W), d \in Stream!Events :
                 W[i] = <<"id", d>> => i = 1 /\ d = cursor + 1
  PROVE  OpenInv(Ahead)'
<1> USE DEF OpenInv
<1> DEFINE S == Stream!Texts \cup {Stream!CR, Stream!LF}
<1>1. Ahead' = Ahead \o W
  <2>1. buffer \in Seq(S) /\ wire \in Seq(S)
    BY DEF Stream!TypeOK
  <2>2. W \in Seq(Fields \cup {NL})
    BY DEF WellFormed
  <2>3. Fields \cup {NL} \subseteq S
    BY TokenFacts DEF Fields, Stream!Texts
  <2>4. W \in Seq(S)
    BY <2>2, <2>3
  <2> HIDE DEF S
  <2>5. (buffer \o wire) \o W = buffer \o (wire \o W)
    BY <2>1, <2>4
  <2> QED BY <2>5 DEF Ahead
<1>2. Ahead \in Seq(Fields \cup {NL}) /\ W \in Seq(Fields \cup {NL})
  BY DEF WellFormed
<1>3. /\ Len(Ahead') = Len(Ahead) + Len(W) /\ Len(Ahead) \in Nat /\ Len(W) \in Nat
      /\ \A i \in 1..Len(Ahead) : Ahead'[i] = Ahead[i]
      /\ \A i \in 1..Len(W) : Ahead'[Len(Ahead) + i] = W[i]
      /\ Len(W) >= 1
  <2> DEFINE Z == Fields \cup {NL}
             A == Ahead
  <2> HIDE DEF Z, A
  <2>1. A \in Seq(Z) /\ W \in Seq(Z)
    BY <1>2 DEF Z, A
  <2>2. /\ Len(A \o W) = Len(A) + Len(W) /\ Len(A) \in Nat /\ Len(W) \in Nat
        /\ \A i \in 1..Len(A) : (A \o W)[i] = A[i]
        /\ \A i \in 1..Len(W) : (A \o W)[Len(A) + i] = W[i]
        /\ Len(W) >= 1
    BY <2>1
  <2>3. Ahead' = A \o W
    BY <1>1 DEF A
  <2> QED BY <2>2, <2>3 DEF A
<1>4. WellFormed(Ahead')
  BY <1>1, AppendWellFormed
<1>5. PartInv(Ahead)'
  <2>1. PartInv(Ahead \o W)
    BY AppendPart
  <2> QED BY <1>1, <2>1 DEF PartInv
<1>6. \A e \in Stream!Events : e \in Nat \ {0}
  BY TokenFacts
<1>7. LastId' = LastId /\ LastId \in Nat /\ part.id \in Nat /\ cursor \in Nat
  BY DEF LastId, ResumeInv, Stream!TypeOK, StreamAssumption
\* Where the ids are.
<1>8. ASSUME NEW i \in 1..Len(Ahead'), NEW e \in Stream!Events, Ahead'[i] = <<"id", e>>
      PROVE  \/ i \in 1..Len(Ahead) /\ Ahead[i] = <<"id", e>>
             \/ cursor' = cursor + 1 /\ e = cursor + 1 /\ i = Len(Ahead) + 1
  <2>1. CASE i <= Len(Ahead)
    BY <1>3, <1>8, <2>1
  <2>2. CASE i > Len(Ahead)
    <3> DEFINE j == i - Len(Ahead)
    <3>1. j \in 1..Len(W) /\ Len(Ahead) + j = i
      BY <1>3, <2>2
    <3> HIDE DEF j
    <3>2. W[j] = <<"id", e>>
      BY <1>3, <1>8, <3>1
    <3>3. cursor' = cursor + 1 /\ j = 1 /\ e = cursor + 1
      BY <3>1, <3>2
    <3> QED BY <3>1, <3>3
  <2> QED BY <1>3, <2>1, <2>2
<1>9. (LastId <= cursor)' /\ (part.id # 0 => LastId < part.id /\ part.id <= cursor)'
  BY <1>7 DEF AheadInv
<1>10. (\A i \in 1..Len(Ahead), e \in Stream!Events :
          Ahead[i] = <<"id", e>> => LastId < e /\ part.id < e /\ e <= cursor)'
  <2> SUFFICES ASSUME NEW i \in 1..Len(Ahead'), NEW e \in Stream!Events,
                      Ahead'[i] = <<"id", e>>
               PROVE  LastId < e /\ part.id < e /\ e <= cursor'
    BY <1>7
  <2>1. CASE i \in 1..Len(Ahead) /\ Ahead[i] = <<"id", e>>
    <3>1. LastId < e /\ part.id < e /\ e <= cursor
      BY <2>1 DEF AheadInv
    <3> QED BY <1>6, <1>7, <3>1
  <2>2. CASE cursor' = cursor + 1 /\ e = cursor + 1
    BY <1>7, <2>2 DEF AheadInv
  <2> QED BY <1>8, <2>1, <2>2
<1>11. (\A i, j \in 1..Len(Ahead), d, e \in Stream!Events :
          (i < j /\ Ahead[i] = <<"id", d>> /\ Ahead[j] = <<"id", e>>) => d < e)'
  <2> SUFFICES ASSUME NEW i \in 1..Len(Ahead'), NEW j \in 1..Len(Ahead'),
                      NEW d \in Stream!Events, NEW e \in Stream!Events,
                      i < j, Ahead'[i] = <<"id", d>>, Ahead'[j] = <<"id", e>>
               PROVE  d < e
    OBVIOUS
  <2>1. CASE i \in 1..Len(Ahead) /\ Ahead[i] = <<"id", d>>
    <3>1. CASE j \in 1..Len(Ahead) /\ Ahead[j] = <<"id", e>>
      BY <2>1, <3>1 DEF AheadInv
    <3>2. CASE e = cursor + 1
      <4>1. d <= cursor
        BY <2>1 DEF AheadInv
      <4> QED BY <1>6, <1>7, <3>2, <4>1
    <3> QED BY <1>8, <3>1, <3>2
  <2>2. CASE i = Len(Ahead) + 1
    <3>1. j \notin 1..Len(Ahead) /\ j # Len(Ahead) + 1
      BY <1>3, <2>2
    <3> QED BY <1>8, <3>1
  <2> QED BY <1>8, <2>1, <2>2
<1>12. \A e \in Stream!Events : Coming(Ahead, e) => Coming(Ahead, e)'
  <2> SUFFICES ASSUME NEW e \in Stream!Events, NEW i \in 1..Len(Ahead), Ahead[i] = <<"id", e>>
               PROVE  Coming(Ahead, e)'
    BY DEF Coming
  <2>1. i \in 1..Len(Ahead') /\ Ahead'[i] = <<"id", e>>
    BY <1>3
  <2> QED BY <2>1 DEF Coming
<1>13. (\A d, e \in Stream!Events :
          (d = lastEventId \/ Coming(Ahead, d)) /\ d < e /\ e <= cursor => Coming(Ahead, e))'
  <2> SUFFICES ASSUME NEW d \in Stream!Events, NEW e \in Stream!Events,
                      d = lastEventId \/ Coming(Ahead, d)', d < e, e <= cursor'
               PROVE  Coming(Ahead, e)'
    OBVIOUS
  <2>1. CASE e = cursor + 1 /\ cursor' = cursor + 1
    <3>1. 1 \in 1..Len(W) /\ Len(Ahead) + 1 \in 1..Len(Ahead') /\ W[1] = <<"id", e>>
      BY <1>3, <1>7, <2>1
    <3>2. Ahead'[Len(Ahead) + 1] = <<"id", e>>
      BY <1>3, <3>1
    <3> QED BY <3>1, <3>2 DEF Coming
  <2>2. CASE e <= cursor
    <3>1. d = lastEventId \/ Coming(Ahead, d)
      <4>1. CASE part.id = d
        BY <4>1 DEF Coming
      <4>2. CASE \E i \in 1..Len(Ahead') : Ahead'[i] = <<"id", d>>
        <5>1. d # cursor + 1
          BY <1>6, <1>7, <2>2
        <5> QED BY <1>8, <4>2, <5>1 DEF Coming
      <4> QED BY <4>1, <4>2 DEF Coming
    <3>2. Coming(Ahead, e)
      BY <2>2, <3>1 DEF AheadInv
    <3> QED BY <1>12, <3>2
  <2> QED BY <1>6, <1>7, <2>1, <2>2
<1>14. AheadInv(Ahead)'
  BY <1>9, <1>10, <1>11, <1>13 DEF AheadInv
<1> QED BY <1>4, <1>5, <1>14

\* What is on the wire keeps its type.
LEMMA WireGrows ==
  ASSUME StreamAssumption, Stream!TypeOK, NEW W, WellFormed(W), wire' = wire \o W
  PROVE  wire' \in Seq(Stream!Texts \cup {Stream!CR, Stream!LF})
<1> DEFINE S == Stream!Texts \cup {Stream!CR, Stream!LF}
<1>1. wire \in Seq(S) /\ W \in Seq(Fields \cup {NL})
  BY DEF Stream!TypeOK, WellFormed
<1>2. Fields \cup {NL} \subseteq S
  BY TokenFacts DEF Fields, Stream!Texts
<1>3. W \in Seq(S)
  BY <1>1, <1>2
<1> HIDE DEF S
<1>4. wire' \in Seq(S)
  BY <1>1, <1>3
<1> QED BY <1>4 DEF S

\* The server writes the next event.
LEMMA ServerWritesInv ==
  ASSUME StreamAssumption, StreamIInv, Stream!ServerWrites
  PROVE  StreamIInv'
<1> USE DEF StreamIInv
<1> DEFINE W == Stream!Written(cursor + 1)
<1>1. /\ conn = "open" /\ conn' = "open" /\ OpenInv(Ahead)
      /\ cursor < published /\ cursor' = cursor + 1 /\ wire' = wire \o W
      /\ UNCHANGED <<published, part, buffer, lastEventId, dispatched, faults>>
  BY DEF Stream!ServerWrites, Stream!parserVars
<1>2. cursor + 1 \in Stream!Events /\ cursor + 1 \in 0..published
  BY <1>1 DEF Stream!TypeOK, Stream!Events, StreamAssumption
<1>3. /\ WellFormed(W) /\ W # <<>> /\ W[1] \in Starts /\ W[1] = <<"id", cursor + 1>>
      /\ \A i \in 1..Len(W), d \in Stream!Events :
           W[i] = <<"id", d>> => i = 1 /\ d = cursor + 1
  BY <1>2, WrittenFacts
<1> HIDE DEF W
<1>4. OpenInv(Ahead)'
  BY <1>1, <1>2, <1>3, WrittenAhead
<1>5. wire' \in Seq(Stream!Texts \cup {Stream!CR, Stream!LF})
  BY <1>1, <1>3, WireGrows
<1>6. Stream!TypeOK'
  BY <1>1, <1>2, <1>5 DEF Stream!TypeOK
<1>7. ResumeInv' /\ ChunkingIsInvisible'
  BY <1>1 DEF ResumeInv, LastId, ChunkingIsInvisible
<1> QED BY <1>1, <1>4, <1>6, <1>7

\* The server writes a comment.
LEMMA KeepaliveInv ==
  ASSUME StreamAssumption, StreamIInv, Stream!Keepalive
  PROVE  StreamIInv'
<1> USE DEF StreamIInv
<1> DEFINE W == Stream!Line("comment", 0) \o Eol
<1>1. /\ conn = "open" /\ conn' = "open" /\ OpenInv(Ahead)
      /\ wire = <<>> /\ wire' = W
      /\ UNCHANGED <<published, cursor, part, buffer, lastEventId, dispatched, faults>>
  BY DEF Stream!Keepalive, Stream!parserVars
<1>2. /\ WellFormed(W) /\ W # <<>> /\ W[1] \in Starts
      /\ \A i \in 1..Len(W), d \in Stream!Events : W[i] # <<"id", d>>
  BY CommentFacts
<1> HIDE DEF W
<1>3. wire' = wire \o W
  BY <1>1, <1>2 DEF WellFormed
<1>4. OpenInv(Ahead)'
  BY <1>1, <1>2, <1>3, WrittenAhead
<1>5. wire' \in Seq(Stream!Texts \cup {Stream!CR, Stream!LF})
  BY <1>2, <1>3, WireGrows
<1>6. Stream!TypeOK'
  BY <1>1, <1>5 DEF Stream!TypeOK
<1>7. ResumeInv' /\ ChunkingIsInvisible'
  BY <1>1 DEF ResumeInv, LastId, ChunkingIsInvisible
<1> QED BY <1>1, <1>4, <1>6, <1>7

\* A new connection begins with nothing ahead, after the last event dispatched
\* or, if that is not known, with what is published from now on.
LEMMA ConnectedInv ==
  ASSUME StreamAssumption, StreamIInv, Stream!Connected
  PROVE  StreamIInv'
<1> USE DEF StreamIInv
<1>1. /\ conn' = "open" /\ cursor' = Stream!ResumeAfter
      /\ wire' = <<>> /\ buffer' = <<>> /\ part' = Stream!NoEvent
      /\ UNCHANGED <<published, lastEventId, dispatched, faults>>
  BY DEF Stream!Connected
<1>2. LastId' = LastId /\ LastId \in 0..published /\ published \in 0..MaxEvents
  BY <1>1 DEF LastId, ResumeInv, Stream!TypeOK
<1>3. cursor' \in 0..published /\ LastId <= cursor' /\ (lastEventId # 0 => cursor' = lastEventId)
  BY <1>1, <1>2 DEF Stream!ResumeAfter, ResumeInv
<1>4. Stream!TypeOK'
  <2>1. Stream!NoEvent \in [id : 0..MaxEvents, type : {0} \cup Typed, data : Seq(Stream!Events)]
    BY DEF StreamAssumption, Stream!NoEvent
  <2> QED BY <1>1, <1>3, <2>1 DEF Stream!TypeOK
<1>5. Ahead' = <<>>
  BY <1>1 DEF Ahead
<1>6. WellFormed(Ahead)' /\ PartInv(Ahead)'
  BY <1>1, <1>5 DEF WellFormed, PartInv
<1>7. AheadInv(Ahead)'
  <2>1. part'.id = 0 /\ \A d \in Stream!Events : ~Coming(Ahead, d)'
    BY <1>1, <1>5, TokenFacts DEF Coming, Stream!NoEvent
  <2>2. \A d \in Stream!Events : d = lastEventId => cursor' = d
    BY <1>3, TokenFacts
  <2>3. \A d, e \in Stream!Events : ~(d < e /\ e <= d)
    BY TokenFacts
  <2> QED BY <1>1, <1>2, <1>3, <1>5, <2>1, <2>2, <2>3 DEF AheadInv
<1>8. ResumeInv' /\ ChunkingIsInvisible'
  BY <1>1 DEF ResumeInv, LastId, ChunkingIsInvisible
<1> QED BY <1>1, <1>4, <1>6, <1>7, <1>8 DEF OpenInv

\* Without a connection nothing is ahead to be taken.
LEMMA ClosedInv ==
  ASSUME StreamAssumption, StreamIInv,
         \/ Stream!ConnectFails \/ Stream!Unauthorized \/ Stream!Drop \/ Stream!Reconnect
         \/ Stream!Restart
  PROVE  StreamIInv'
<1> USE DEF StreamIInv, Stream!ConnectFails, Stream!Unauthorized, Stream!Drop, Stream!Reconnect,
            Stream!Restart, Stream!Fault, Stream!serverVars, Stream!parserVars
<1>1. /\ conn' # "open" /\ conn' \in {"connecting", "open", "backoff", "stopped"}
      /\ UNCHANGED <<published, cursor, dispatched>>
      /\ wire' = wire \/ wire' = <<>>
      /\ faults' \in 0..MaxFaults
  BY DEF Stream!TypeOK, StreamAssumption
<1>2. /\ \/ UNCHANGED <<buffer, part, lastEventId>>
         \/ buffer' = <<>> /\ part' = Stream!NoEvent /\ lastEventId' = 0
      /\ Stream!Incomplete(buffer)'
  <2>1. CASE Stream!Restart
    <3>1. buffer' = <<>> /\ part' = Stream!NoEvent /\ lastEventId' = 0
      BY <2>1
    <3>2. DOMAIN <<>> = {}
      OBVIOUS
    <3> QED BY <3>1, <3>2 DEF Stream!Incomplete
  <2>2. CASE ~Stream!Restart
    <3>1. UNCHANGED <<buffer, part, lastEventId>> /\ Stream!Incomplete(buffer)
      BY <2>2
    <3> QED BY <3>1 DEF Stream!Incomplete, Stream!EndsLine
  <2> QED BY <2>1, <2>2
<1>3. Stream!NoEvent \in [id : 0..MaxEvents, type : {0} \cup Typed, data : Seq(Stream!Events)]
  BY DEF StreamAssumption, Stream!NoEvent
<1>4. Stream!TypeOK'
  <2> HIDE DEF Stream!ConnectFails, Stream!Unauthorized, Stream!Drop, Stream!Reconnect,
               Stream!Restart
  <2>1. /\ <<>> \in Seq(Stream!Texts \cup {Stream!CR, Stream!LF})
        /\ 0 \in 0..MaxEvents
    BY DEF StreamAssumption
  <2> QED BY <1>1, <1>2, <1>3, <2>1 DEF Stream!TypeOK
<1>5. ResumeInv' /\ ChunkingIsInvisible'
  BY <1>1, <1>2 DEF ResumeInv, LastId, ChunkingIsInvisible
<1> QED BY <1>1, <1>2, <1>4, <1>5

\* The server publishes an event, which it has not written yet.
LEMMA StreamPublishInv ==
  ASSUME StreamAssumption, StreamIInv, Stream!Publish
  PROVE  StreamIInv'
<1> USE DEF StreamIInv
<1>1. /\ published' = published + 1 /\ published < MaxEvents
      /\ UNCHANGED <<cursor, wire, conn, buffer, part, lastEventId, dispatched, faults>>
  BY DEF Stream!Publish, Stream!parserVars
<1>2. Stream!TypeOK'
  BY <1>1 DEF Stream!TypeOK, StreamAssumption
<1>3. ResumeInv' /\ ChunkingIsInvisible'
  BY <1>1 DEF ResumeInv, LastId, ChunkingIsInvisible, Stream!TypeOK, StreamAssumption
<1>4. conn = "open" => OpenInv(Ahead)'
  BY <1>1, SameAhead DEF Ahead
<1>5. conn # "open" => Stream!Incomplete(buffer)'
  BY <1>1 DEF Stream!Incomplete, Stream!EndsLine
<1> QED BY <1>1, <1>2, <1>3, <1>4, <1>5

\* The invariant holds at the start.
LEMMA StreamInit ==
  StreamAssumption /\ Stream!Init => StreamIInv
<1> SUFFICES ASSUME StreamAssumption, Stream!Init PROVE StreamIInv
  OBVIOUS
<1> USE DEF Stream!Init
<1>1. Stream!NoEvent \in [id : 0..MaxEvents, type : {0} \cup Typed, data : Seq(Stream!Events)]
  BY DEF StreamAssumption, Stream!NoEvent
<1>2. Stream!TypeOK
  BY <1>1 DEF Stream!TypeOK, StreamAssumption
<1>3. ResumeInv
  BY DEF ResumeInv, LastId
<1>4. DOMAIN <<>> = {}
  OBVIOUS
<1>5. ChunkingIsInvisible /\ Stream!Incomplete(buffer)
  BY <1>4 DEF ChunkingIsInvisible, Stream!Incomplete
<1> QED BY <1>2, <1>3, <1>5 DEF StreamIInv

\* Every step keeps the invariant.
LEMMA StreamNext ==
  StreamAssumption /\ StreamIInv /\ [Stream!Next]_(Stream!vars) => StreamIInv'
<1> SUFFICES ASSUME StreamAssumption, StreamIInv, [Stream!Next]_(Stream!vars)
             PROVE  StreamIInv'
  OBVIOUS
<1>1. CASE UNCHANGED Stream!vars
  <2> USE DEF StreamIInv
  <2>1. UNCHANGED <<published, cursor, wire, conn, buffer, part, lastEventId, dispatched, faults>>
    BY <1>1 DEF Stream!vars, Stream!serverVars, Stream!parserVars
  <2>2. Stream!TypeOK'
    BY <2>1 DEF Stream!TypeOK
  <2>3. ResumeInv' /\ ChunkingIsInvisible'
    BY <2>1 DEF ResumeInv, LastId, ChunkingIsInvisible
  <2>4. conn = "open" => OpenInv(Ahead)'
    BY <2>1, SameAhead DEF Ahead
  <2>5. conn # "open" => Stream!Incomplete(buffer)'
    BY <2>1 DEF Stream!Incomplete, Stream!EndsLine
  <2> QED BY <2>1, <2>2, <2>3, <2>4, <2>5
<1>2. CASE Stream!Next
  <2>1. Stream!Exited => UNCHANGED Stream!vars
    BY DEF Stream!Exited
  <2> QED BY <1>1, <1>2, <2>1, TakeLineInv, ReadInv, ServerWritesInv, KeepaliveInv, ConnectedInv,
             ClosedInv, StreamPublishInv
          DEF Stream!Next
<1> QED BY <1>1, <1>2

\* The invariant holds in every reachable state.
LEMMA StreamInvariance ==
  ASSUME StreamAssumption PROVE Stream!Spec => []StreamIInv
<1>1. Stream!Init => StreamIInv
  BY StreamInit
<1>2. StreamIInv /\ [Stream!Next]_(Stream!vars) => StreamIInv'
  BY StreamNext
<1> QED BY <1>1, <1>2, PTL DEF Stream!Spec

\* Every variable of the stream's client keeps its type.
THEOREM StreamTypeSafety ==
  ASSUME StreamAssumption PROVE Stream!Spec => []Stream!TypeOK
<1>1. StreamIInv => Stream!TypeOK
  BY DEF StreamIInv
<1>2. Stream!Spec => []StreamIInv
  BY StreamInvariance
<1> QED BY <1>1, <1>2, PTL

\* However the network cuts the stream, whatever drops and restarts there are,
\* onEvent gets whole events as the server wrote them.
THEOREM EventsArriveWhole ==
  ASSUME StreamAssumption PROVE Stream!Spec => []ChunkingIsInvisible
<1>1. StreamIInv => ChunkingIsInvisible
  BY DEF StreamIInv
<1>2. Stream!Spec => []StreamIInv
  BY StreamInvariance
<1> QED BY <1>1, <1>2, PTL

-----------------------------------------------------------------------------
(* SseClient implements EventFeed.                                         *)

\* The events of the calls of onEvent, by their ids.
Delivered == [i \in DOMAIN dispatched |-> dispatched[i].id]

\* They are a sequence, and EventFeed's last event is the last id.
LEMMA DeliveredFacts ==
  ASSUME StreamAssumption, Stream!TypeOK
  PROVE  /\ Delivered \in Seq(Nat)
         /\ Len(Delivered) = Len(dispatched)
         /\ DOMAIN dispatched = 1..Len(dispatched)
         /\ Len(dispatched) \in Nat
         /\ Calls!Last = LastId
<1> DEFINE R == [id : 0..MaxEvents, type : {0} \cup Typed, data : Seq(Stream!Events)]
<1>1. dispatched \in Seq(R)
  BY DEF Stream!TypeOK
<1>2. \A r \in R : r.id \in Nat
  BY DEF StreamAssumption
<1> HIDE DEF R
<1>3. /\ DOMAIN dispatched = 1..Len(dispatched) /\ Len(dispatched) \in Nat
      /\ \A i \in 1..Len(dispatched) : dispatched[i] \in R
  BY <1>1
<1>4. Delivered \in [1..Len(dispatched) -> Nat]
  BY <1>2, <1>3 DEF Delivered
<1>5. Delivered \in Seq(Nat) /\ Len(Delivered) = Len(dispatched)
  BY <1>3, <1>4
<1>6. Calls!Last = LastId
  <2>1. CASE dispatched = <<>>
    <3>1. Delivered = <<>>
      BY <1>5, <2>1
    <3> QED BY <2>1, <3>1 DEF Calls!Last, LastId, Delivered
  <2>2. CASE dispatched # <<>>
    <3>1. Len(dispatched) \in DOMAIN dispatched
      BY <1>1, <1>3, <2>2
    <3>2. Delivered # <<>>
      BY <1>1, <1>5, <2>2
    <3>3. Delivered[Len(Delivered)] = dispatched[Len(dispatched)].id
      BY <1>5, <3>1 DEF Delivered
    <3>4. Calls!Last = IF Delivered = <<>> THEN 0 ELSE Delivered[Len(Delivered)]
      BY DEF Calls!Last, Delivered
    <3> QED BY <2>2, <3>2, <3>3, <3>4 DEF LastId
  <2> QED BY <2>1, <2>2
<1> QED BY <1>3, <1>5, <1>6

\* A dispatch is a delivery.
LEMMA DispatchDelivers ==
  ASSUME StreamAssumption, StreamIInv, NEW e \in Stream!Events, Dispatches(e),
         UNCHANGED published
  PROVE  e \in 1..published /\ Calls!Deliver(e)
<1> USE DEF StreamIInv
<1>1. /\ dispatched' = Append(dispatched, Stream!Event(e))
      /\ lastEventId' = e /\ LastId < e /\ e <= published
      /\ lastEventId = 0 \/ e = LastId + 1
  BY DEF Dispatches
<1>2. Stream!Event(e) \in [id : 0..MaxEvents, type : {0} \cup Typed, data : Seq(Stream!Events)]
  BY PartTypes
<1>3. /\ DOMAIN dispatched' = 1..(Len(dispatched) + 1)
      /\ \A i \in 1..Len(dispatched) : dispatched'[i] = dispatched[i]
      /\ dispatched'[Len(dispatched) + 1] = Stream!Event(e)
  BY <1>1, <1>2, LastDispatched
<1>4. /\ Delivered \in Seq(Nat) /\ Len(Delivered) = Len(dispatched)
      /\ DOMAIN dispatched = 1..Len(dispatched) /\ Len(dispatched) \in Nat
      /\ Calls!Last = LastId
  BY DeliveredFacts
<1>5. e \in Nat \ {0} /\ LastId \in Nat /\ published \in Nat /\ Stream!Event(e).id = e
  BY TokenFacts DEF ResumeInv, Stream!TypeOK, StreamAssumption, Stream!Event
<1>6. Delivered' = Append(Delivered, e)
  <2> DEFINE A == Append(Delivered, e)
             n == Len(dispatched)
  <2>1. /\ A \in Seq(Nat) /\ Len(A) = n + 1 /\ A[n + 1] = e
        /\ \A i \in 1..n : A[i] = Delivered[i]
        /\ DOMAIN A = 1..(n + 1)
    BY <1>4, <1>5
  <2>2. Delivered' = [i \in 1..(n + 1) |-> dispatched'[i].id]
    BY <1>3 DEF Delivered
  <2>3. \A i \in 1..n : Delivered[i] = dispatched[i].id
    BY <1>4 DEF Delivered
  <2> HIDE DEF A, n
  <2>4. ASSUME NEW i \in 1..(n + 1) PROVE A[i] = dispatched'[i].id
    <3>1. CASE i \in 1..n
      BY <1>3, <2>1, <2>3, <3>1 DEF n
    <3>2. CASE i = n + 1
      BY <1>3, <1>5, <2>1, <3>2 DEF n
    <3> QED BY <1>4, <3>1, <3>2 DEF n
  <2>5. A = [i \in 1..(n + 1) |-> A[i]]
    BY <2>1
  <2>6. A = Delivered'
    BY <2>2, <2>4, <2>5
  <2> QED BY <2>6 DEF A
<1>7. e \in (Calls!Last + 1)..published /\ e \in 1..published
  BY <1>1, <1>4, <1>5
<1>8. (lastEventId = 0) \/ e = Calls!Last + 1
  BY <1>1, <1>4
<1>9. (lastEventId' = 0) = FALSE
  BY <1>1, <1>5
<1> QED BY <1>6, <1>7, <1>8, <1>9 DEF Calls!Deliver, Delivered

\* Every step of the client and the server is one of EventFeed, or nothing
\* that EventFeed can tell.
LEMMA StreamStepFeeds ==
  StreamAssumption /\ StreamIInv /\ [Stream!Next]_(Stream!vars) => [Calls!Next]_(Calls!vars)
<1> SUFFICES ASSUME StreamAssumption, StreamIInv, [Stream!Next]_(Stream!vars)
             PROVE  [Calls!Next]_(Calls!vars)
  OBVIOUS
<1>1. UNCHANGED <<published, lastEventId, dispatched>> => UNCHANGED Calls!vars
  BY DEF Calls!vars
<1>2. CASE UNCHANGED Stream!vars \/ Stream!Exited
  BY <1>1, <1>2 DEF Stream!Exited, Stream!vars, Stream!serverVars
<1>3. CASE Stream!Publish
  <2>1. published' = published + 1 /\ UNCHANGED <<lastEventId, dispatched>>
    BY <1>3 DEF Stream!Publish
  <2> QED BY <2>1 DEF Calls!Next, Calls!Publish
<1>4. CASE \/ Stream!ServerWrites \/ Stream!Keepalive \/ Stream!Connected
           \/ Stream!ConnectFails \/ Stream!Unauthorized \/ Stream!Drop \/ Stream!Reconnect
           \/ \E n \in 1..Len(wire) : Stream!Read(n)
  BY <1>1, <1>4
     DEF Stream!ServerWrites, Stream!Keepalive, Stream!Connected, Stream!ConnectFails,
         Stream!Unauthorized, Stream!Drop, Stream!Reconnect, Stream!Read, Stream!serverVars
<1>5. CASE \E i \in DOMAIN buffer : Stream!TakeLine(i)
  <2>1. /\ UNCHANGED published
        /\ \/ UNCHANGED <<lastEventId, dispatched>>
           \/ \E e \in Stream!Events : Dispatches(e)
    BY <1>5, TakeLineInv
  <2>2. CASE \E e \in Stream!Events : Dispatches(e)
    BY <2>1, <2>2, DispatchDelivers DEF Calls!Next
  <2> QED BY <1>1, <2>1, <2>2
<1>6. CASE Stream!Restart
  <2>1. UNCHANGED <<published, dispatched>> /\ lastEventId' = 0
    BY <1>6 DEF Stream!Restart
  <2>2. (lastEventId' = 0) = TRUE
    BY <2>1
  <2> QED BY <2>1, <2>2 DEF Calls!Next, Calls!Restart
<1> QED BY <1>2, <1>3, <1>4, <1>5, <1>6 DEF Stream!Next

\* What AgentBridge is built on holds of the real client: events come in
\* order, none twice, and none is passed over by a reconnect that could send
\* Last-Event-ID.
THEOREM StreamImplementsFeed ==
  ASSUME StreamAssumption PROVE Stream!Spec => ImplementsEventFeed
<1>1. Stream!Init => Calls!Init
  <2> SUFFICES ASSUME Stream!Init PROVE Calls!Init
    OBVIOUS
  <2>1. published = 0 /\ dispatched = <<>> /\ lastEventId = 0
    BY DEF Stream!Init
  <2>2. [i \in DOMAIN dispatched |-> dispatched[i].id] = <<>>
    BY <2>1
  <2> QED BY <2>1, <2>2 DEF Calls!Init
<1>2. StreamIInv /\ [Stream!Next]_(Stream!vars) => [Calls!Next]_(Calls!vars)
  BY StreamStepFeeds
<1>3. Stream!Spec => []StreamIInv
  BY StreamInvariance
<1> QED BY <1>1, <1>2, <1>3, PTL DEF Stream!Spec, ImplementsEventFeed, Calls!Spec
=============================================================================
