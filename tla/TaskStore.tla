------------------------------ MODULE TaskStore ------------------------------
(***************************************************************************)
(* Background tasks: `ano task "<prompt>"` and its detached runner         *)
(* (src/cli/commands/task/index.ts, src/cli/commands/task/run.ts) over one *)
(* JSON file per task (src/core/task-store.ts).                            *)
(*                                                                         *)
(* The dispatching command, the runners, the readers and the Stop hook of  *)
(* the skills package are processes of their own that meet only in the     *)
(* file.  writeFile empties the file and then fills it; who reads it in    *)
(* between finds no task.  A runner keeps the task it has read in memory   *)
(* and writes the whole of it back.                                        *)
(***************************************************************************)
EXTENDS Naturals

CONSTANTS
  Tasks,
  Runners,      \* `ano task __run` processes
  Job,          \* the task each of them is for
  First,        \* the runner that the dispatching command spawns
  Targeted,     \* the tasks with --to
  MaxPosts,     \* 1 + retryFetch's retries: the sends of one sendMessage
  MaxKills,     \* bound: how many runners are killed
  None,         \* a result of null
  Blank         \* the result ""

ASSUME TaskAssumption ==
  /\ Targeted \subseteq Tasks
  /\ Job \in [Runners -> Tasks]
  /\ First \in [Tasks -> Runners]
  /\ \A t \in Tasks : Job[First[t]] = t
  /\ MaxPosts \in Nat \ {0}
  /\ MaxKills \in Nat
  /\ None \notin Runners
  /\ Blank \notin Runners \cup {None}

VARIABLES
  file,       \* the task's file
  dpc,        \* the place of the command that dispatches the task
  pc,         \* the place of a runner
  copy,       \* the task as a runner holds it in memory
  posts,      \* the messages the channel has got for the task
  kills,
  took,       \* history: the runners that found the task queued
  unsure,     \* history: tasks with a post whose fate is not clear
  broken,     \* history: tasks with a runner that was killed
  relayed     \* history: how often the Stop hook has relayed the task

vars == <<file, dpc, pc, copy, posts, kills, took, unsure, broken, relayed>>

Final == {"done", "failed"}
Status == {"queued", "running"} \cup Final
Unreadable == {"absent", "torn"}

\* A runner r whose claude printed something has the result r.
Results == Runners \cup {None, Blank}

\* AsyncTask, less what never changes.  "absent": there is no file; "torn": it
\* does not parse.
Contents == [status : Status \cup Unreadable, result : Results,
             error : BOOLEAN, surfaced : BOOLEAN]

FileWith(status) ==
  [status |-> status, result |-> None, error |-> FALSE, surfaced |-> FALSE]

DispatcherPc == {"idle", "open", "fill", "spawn", "over"}
RunnerPc == {"none", "read", "start", "fillStart", "claude", "post", "end",
             "fillEnd", "over", "dead"}

TypeOK ==
  /\ file \in [Tasks -> Contents]
  /\ dpc \in [Tasks -> DispatcherPc]
  /\ pc \in [Runners -> RunnerPc]
  /\ copy \in [Runners -> Contents]
  /\ posts \in [Tasks -> Nat]
  /\ kills \in 0..MaxKills
  /\ took \in [Tasks -> SUBSET Runners]
  /\ unsure \subseteq Tasks
  /\ broken \subseteq Tasks
  /\ relayed \in [Tasks -> Nat]

Init ==
  /\ file = [t \in Tasks |-> FileWith("absent")]
  /\ dpc = [t \in Tasks |-> "idle"]
  /\ pc = [r \in Runners |-> "none"]
  /\ copy = [r \in Runners |-> FileWith("absent")]
  /\ posts = [t \in Tasks |-> 0]
  /\ kills = 0
  /\ took = [t \in Tasks |-> {}]
  /\ unsure = {}
  /\ broken = {}
  /\ relayed = [t \in Tasks |-> 0]

-----------------------------------------------------------------------------
(* The file                                                                *)

\* writeTask: mkdir, then writeFile opens the file and empties it.
Empty(t) == file' = [file EXCEPT ![t] = FileWith("torn")]

\* writeFile fills the file from its start.  What another process has put
\* there in the meantime is overwritten, and its rest may stay behind.
Fill(t, task) ==
  \/ file' = [file EXCEPT ![t] = task]
  \/ /\ file[t].status # "torn"
     /\ file' = [file EXCEPT ![t] = FileWith("torn")]

\* listTasks and readTask: a file that does not parse is no task.
Listed == {t \in Tasks : file[t].status \notin Unreadable}

\* What `ano task list` and `ano task result` print.
Shown(t) == IF t \in Listed THEN file[t].status ELSE "not found"

-----------------------------------------------------------------------------
(* `ano task "<prompt>" [--to <channel>]`                                  *)

DispatcherAt(t, from, to) == dpc[t] = from /\ dpc' = [dpc EXCEPT ![t] = to]

Dispatch(t) ==
  /\ DispatcherAt(t, "idle", "open")
  /\ UNCHANGED <<file, pc, copy, posts, kills, took, unsure, broken, relayed>>

\* createTask
CreateOpens(t) ==
  /\ DispatcherAt(t, "open", "fill")
  /\ Empty(t)
  /\ UNCHANGED <<pc, copy, posts, kills, took, unsure, broken, relayed>>

CreateFills(t) ==
  /\ DispatcherAt(t, "fill", "spawn")
  /\ Fill(t, FileWith("queued"))
  /\ UNCHANGED <<pc, copy, posts, kills, took, unsure, broken, relayed>>

\* Mutant of SpawnRunner: the runner is spawned before the task is written.
SpawnEarly(t) ==
  /\ dpc[t] \in {"open", "spawn"}
  /\ pc[First[t]] = "none" \/ dpc[t] = "spawn"
  /\ dpc' = [dpc EXCEPT ![t] = IF @ = "spawn" THEN "over" ELSE @]
  /\ pc' = [pc EXCEPT ![First[t]] = IF @ = "none" THEN "read" ELSE @]
  /\ UNCHANGED <<file, copy, posts, kills, took, unsure, broken, relayed>>

\* spawnRunner; the command prints the id and ends.
SpawnRunner(t) ==
  /\ DispatcherAt(t, "spawn", "over")
  /\ pc' = [pc EXCEPT ![First[t]] = "read"]
  /\ UNCHANGED <<file, copy, posts, kills, took, unsure, broken, relayed>>

\* The task is run a second time, by whoever knows its id.
RunAgain(r) ==
  /\ r # First[Job[r]]
  /\ dpc[Job[r]] = "over" /\ pc[r] = "none"
  /\ pc' = [pc EXCEPT ![r] = "read"]
  /\ UNCHANGED <<file, dpc, copy, posts, kills, took, unsure, broken, relayed>>

-----------------------------------------------------------------------------
(* runTask                                                                 *)

\* Mutant of MayRun: a task that is found running is run again.
MayRunAgain(task) == task.status \in {"queued", "running"}

\* runTask goes on only with a task that is there and queued.
MayRun(task) == task.status = "queued"

ReadTask(r) ==
  LET t == Job[r] IN
  /\ pc[r] = "read"
  /\ IF MayRun(file[t])
       THEN /\ pc' = [pc EXCEPT ![r] = "start"]
            /\ copy' = [copy EXCEPT ![r] = file[t]]
            /\ took' = [took EXCEPT ![t] = @ \cup {r}]
       ELSE /\ pc' = [pc EXCEPT ![r] = "over"]
            /\ UNCHANGED <<copy, took>>
  /\ UNCHANGED <<file, dpc, posts, kills, unsure, broken, relayed>>

RunnerOpens(r) ==
  /\ \/ pc[r] = "start" /\ pc' = [pc EXCEPT ![r] = "fillStart"]
     \/ pc[r] = "end" /\ pc' = [pc EXCEPT ![r] = "fillEnd"]
  /\ Empty(Job[r])
  /\ UNCHANGED <<dpc, copy, posts, kills, took, unsure, broken, relayed>>

WithStatus(task, status) == [task EXCEPT !.status = status]

\* Mutant of MarkRunning: the task is written before its status is set.
MarkRunningLate(r) ==
  /\ pc[r] = "fillStart"
  /\ pc' = [pc EXCEPT ![r] = "claude"]
  /\ copy' = [copy EXCEPT ![r] = WithStatus(@, "running")]
  /\ Fill(Job[r], copy[r])
  /\ UNCHANGED <<dpc, posts, kills, took, unsure, broken, relayed>>

MarkRunning(r) ==
  /\ pc[r] = "fillStart"
  /\ pc' = [pc EXCEPT ![r] = "claude"]
  /\ copy' = [copy EXCEPT ![r] = WithStatus(@, "running")]
  /\ Fill(Job[r], copy'[r])
  /\ UNCHANGED <<dpc, posts, kills, took, unsure, broken, relayed>>

Outcome(task, result, error) == [task EXCEPT !.result = result, !.error = error]

\* runClaude: some output, none, or an error.  The result is posted if there
\* is one and the task has a target.
ClaudeEnds(r) ==
  /\ pc[r] = "claude"
  /\ \/ /\ copy' = [copy EXCEPT ![r] = Outcome(@, r, FALSE)]
        /\ pc' = [pc EXCEPT ![r] = IF Job[r] \in Targeted THEN "post" ELSE "end"]
     \/ /\ copy' = [copy EXCEPT ![r] = Outcome(@, Blank, FALSE)]
        /\ pc' = [pc EXCEPT ![r] = "end"]
     \/ /\ copy' = [copy EXCEPT ![r] = Outcome(@, None, TRUE)]
        /\ pc' = [pc EXCEPT ![r] = "end"]
  /\ UNCHANGED <<file, dpc, posts, kills, took, unsure, broken, relayed>>

\* The channel gets n messages.
Arrive(t, n) == posts' = [posts EXCEPT ![t] = @ + n]

PostEnds(r, failed) ==
  /\ pc[r] = "post"
  /\ pc' = [pc EXCEPT ![r] = "end"]
  /\ copy' = [copy EXCEPT ![r] = Outcome(@, @.result, failed)]
  /\ UNCHANGED <<file, dpc, kills, took, broken, relayed>>

PostSucceeds(r) ==
  /\ PostEnds(r, FALSE)
  /\ Arrive(Job[r], 1)
  /\ UNCHANGED unsure

\* Mutant of PostRefused: the error of the post is not kept.
PostRefusalIgnored(r) ==
  /\ PostEnds(r, FALSE)
  /\ UNCHANGED <<posts, unsure>>

\* No credentials, or a refusal: nothing was sent or nothing was taken.
PostRefused(r) ==
  /\ PostEnds(r, TRUE)
  /\ UNCHANGED <<posts, unsure>>

\* An attempt had no clear answer.  Each one that the retries make may have
\* arrived; that the last one succeeded is known.
PostUnclear(r) ==
  /\ \/ PostEnds(r, TRUE) /\ \E n \in 0..MaxPosts : Arrive(Job[r], n)
     \/ PostEnds(r, FALSE) /\ \E n \in 1..MaxPosts : Arrive(Job[r], n)
  /\ unsure' = unsure \cup {Job[r]}

\* Mutant of MarkFinal: a failed post gives up before the last write.
MarkFinalUnlessFailed(r) ==
  /\ pc[r] = "fillEnd"
  /\ pc' = [pc EXCEPT ![r] = "over"]
  /\ IF copy[r].error /\ copy[r].result # None
       THEN Fill(Job[r], copy[r]) /\ UNCHANGED copy
       ELSE /\ copy' = [copy EXCEPT ![r] =
                         WithStatus(@, IF @.error THEN "failed" ELSE "done")]
            /\ Fill(Job[r], copy'[r])
  /\ UNCHANGED <<dpc, posts, kills, took, unsure, broken, relayed>>

MarkFinal(r) ==
  /\ pc[r] = "fillEnd"
  /\ pc' = [pc EXCEPT ![r] = "over"]
  /\ copy' = [copy EXCEPT ![r] = WithStatus(@, IF @.error THEN "failed" ELSE "done")]
  /\ Fill(Job[r], copy'[r])
  /\ UNCHANGED <<dpc, posts, kills, took, unsure, broken, relayed>>

-----------------------------------------------------------------------------
(* Around them                                                             *)

\* Reboot, kill or crash of a runner.  What it was posting may have arrived.
Kill(r) ==
  /\ kills < MaxKills
  /\ pc[r] \notin {"none", "over", "dead"}
  /\ kills' = kills + 1
  /\ pc' = [pc EXCEPT ![r] = "dead"]
  /\ broken' = broken \cup {Job[r]}
  /\ IF pc[r] = "post"
       THEN /\ unsure' = unsure \cup {Job[r]}
            /\ \E n \in 0..MaxPosts : Arrive(Job[r], n)
       ELSE UNCHANGED <<posts, unsure>>
  /\ UNCHANGED <<file, dpc, copy, took, relayed>>

Surfaced(task) == [task EXCEPT !.surfaced = TRUE]

\* The Stop hook relays a finished task to the shell and marks it.
Surface(t) ==
  /\ file[t].status \in Final /\ ~file[t].surfaced
  /\ file' = [file EXCEPT ![t] = Surfaced(@)]
  /\ relayed' = [relayed EXCEPT ![t] = @ + 1]
  /\ UNCHANGED <<dpc, pc, copy, posts, kills, took, unsure, broken>>

-----------------------------------------------------------------------------
Dispatcher(t) == Dispatch(t) \/ CreateOpens(t) \/ CreateFills(t) \/ SpawnRunner(t)

Runner(r) ==
  \/ ReadTask(r) \/ RunnerOpens(r) \/ MarkRunning(r) \/ ClaudeEnds(r)
  \/ PostSucceeds(r) \/ PostRefused(r) \/ PostUnclear(r) \/ MarkFinal(r)

Next ==
  \/ \E t \in Tasks : Dispatcher(t) \/ Surface(t)
  \/ \E r \in Runners : Runner(r) \/ RunAgain(r) \/ Kill(r)

Spec == Init /\ [][Next]_vars

\* A dispatched command and a runner go on, claude and the post included, and
\* the hook runs at each of Claude Code's stops.
Fairness ==
  /\ \A t \in Tasks : WF_vars(Dispatcher(t)) /\ WF_vars(Surface(t))
  /\ \A r \in Runners : WF_vars(Runner(r))

FairSpec == Spec /\ Fairness

-----------------------------------------------------------------------------
\* Two runners hold the task.
Contested(t) == \E r, q \in took[t] : r # q

\* run.ts: "guards against a double-spawn racing the same id".  What the check
\* for "queued" gives: a second runner takes a task only if no runner that
\* took it has written "running", or begun to.
TakenTwiceOnlyBeforeStart ==
  [][\A r \in Runners : r \in took'[Job[r]] \ took[Job[r]] =>
       \A q \in took[Job[r]] : pc[q] \in {"start", "dead"}]_vars

\* A task that only one runner took is told of once: the Stop hook relays it at
\* most once, although a runner writes back the whole task it has read; and
\* unless a post went unanswered, its channel has got at most one message, the
\* one message if the task is done and has something to tell, and none if it
\* failed.
ToldOnce ==
  \A t \in Tasks : ~Contested(t) =>
    /\ relayed[t] <= 1
    /\ t \notin unsure =>
         /\ posts[t] <= 1
         /\ file[t].status = "done" /\ t \in Targeted /\ file[t].result # Blank => posts[t] = 1
         /\ file[t].status = "failed" => posts[t] = 0

\* Once its dispatching command has ended, a task is listed and found except
\* while its runner is writing the file, unless that runner was killed or two
\* have written over each other; and when its runner is through, it is final
\* with what claude said, whatever became of the post.
ResultIsKept ==
  \A t \in Tasks \ broken : dpc[t] = "over" /\ ~Contested(t) =>
    /\ Shown(t) = "not found" =>
         \E r \in took[t] : pc[r] \in {"fillStart", "fillEnd"}
    /\ \A r \in took[t] : pc[r] = "over" =>
         /\ file[t].status \in Final
         /\ file[t].result = copy[r].result

\* A task that was dispatched and is in no other hands than its runner's ends,
\* and its end is relayed to the shell, unless the runner is killed.
TaskIsRelayed ==
  \A t \in Tasks :
    (dpc[t] = "over") ~> (relayed[t] > 0 \/ t \in broken \/ Contested(t))

-----------------------------------------------------------------------------
\* The life of a task is what its file says, or while the file does not read,
\* what the runner that writes it has last written.
LifeOf(t) ==
  IF Contested(t) THEN "contested"
  ELSE IF dpc[t] \in {"idle", "open", "fill"} THEN "new"
  ELSE IF t \in Listed THEN file[t].status
  ELSE copy[CHOOSE r \in took[t] : TRUE].status

Life == INSTANCE TaskLife WITH life <- [t \in Tasks |-> LifeOf(t)]

\* TaskStore implements TaskLife: queued, then run by one runner to one final
\* state, with posts only in between, until two runners hold the task.
ImplementsLife == Life!Spec

=============================================================================
