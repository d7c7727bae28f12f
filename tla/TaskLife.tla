------------------------------ MODULE TaskLife ------------------------------
(***************************************************************************)
(* What `ano task` promises of a background task (src/core/task-store.ts,  *)
(* TaskStatus): it is queued, runs, and ends in one final state that it    *)
(* never leaves; its result is posted while it runs.  Nothing is promised  *)
(* of a task that two runners took at once ("contested").  A task that is  *)
(* only being written down shows the state it had before.                  *)
(***************************************************************************)
EXTENDS Naturals

CONSTANT Tasks

VARIABLES
  life,    \* the state of each task
  posts    \* the messages that its runs have left in the channel

lifeVars == <<life, posts>>

Final == {"done", "failed"}

Init ==
  /\ life = [t \in Tasks |-> "new"]
  /\ posts = [t \in Tasks |-> 0]

Move(t, from, to) ==
  /\ life[t] = from
  /\ life' = [life EXCEPT ![t] = to]
  /\ UNCHANGED posts

Queue(t) == Move(t, "new", "queued")
Start(t) == Move(t, "queued", "running")
Finish(t) == \E s \in Final : Move(t, "running", s)

PostsOnlyOf(t) ==
  /\ posts' \in [Tasks -> Nat]
  /\ \A u \in Tasks \ {t} : posts'[u] = posts[u]
  /\ UNCHANGED life

Post(t) ==
  /\ life[t] = "running"
  /\ PostsOnlyOf(t)
  /\ posts'[t] >= posts[t]

\* From here on anything may happen to the task, and it stays with that.
Contest(t) ==
  /\ life[t] # "new"
  /\ life' = [life EXCEPT ![t] = "contested"]
  /\ UNCHANGED posts

PostContested(t) ==
  /\ life[t] = "contested"
  /\ PostsOnlyOf(t)

Next ==
  \E t \in Tasks :
    Queue(t) \/ Start(t) \/ Finish(t) \/ Post(t) \/ Contest(t) \/ PostContested(t)

Spec == Init /\ [][Next]_lifeVars

=============================================================================
