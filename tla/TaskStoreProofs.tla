--------------------------- MODULE TaskStoreProofs ---------------------------
(***************************************************************************)
(* Proofs about TaskStore: for any tasks, runners and bounds.              *)
(***************************************************************************)
EXTENDS TaskStore, TLAPS

\* Whoever runs, was started after the task was written; who holds the task
\* has read it.
StartedInv ==
  \A r \in Runners :
    /\ pc[r] # "none" => dpc[Job[r]] = "over"
    /\ r \in took[Job[r]] => pc[r] \notin {"none", "read"}
    /\ pc[r] \notin {"none", "read", "over", "dead"} => r \in took[Job[r]]

JobInv == \A t \in Tasks : \A r \in took[t] : Job[r] = t

KilledInv == \A r \in Runners : pc[r] = "dead" => Job[r] \in broken

\* A task that nobody has taken yet.
Untouched(t) ==
  /\ posts[t] = 0
  /\ relayed[t] = 0
  /\ dpc[t] \in {"idle", "open"} => file[t] = FileWith("absent")
  /\ dpc[t] = "fill" => file[t] = FileWith("torn")
  /\ dpc[t] \in {"spawn", "over"} => file[t] = FileWith("queued")

\* What a runner has in memory at each place.
CopyInv ==
  \A r \in Runners : r \in took[Job[r]] =>
    /\ copy[r].surfaced = FALSE
    /\ pc[r] \in {"start", "fillStart"} => copy[r].status = "queued"
    /\ pc[r] \in {"claude", "post", "end", "fillEnd"} => copy[r].status = "running"
    /\ pc[r] = "over" => copy[r].status = IF copy[r].error THEN "failed" ELSE "done"
    /\ pc[r] = "dead" => copy[r].status \in {"queued", "running"}
    /\ pc[r] = "post" =>
         Job[r] \in Targeted /\ ~copy[r].error /\ copy[r].result # Blank

\* The file of a task that r alone has taken.
FileOf(r, t) ==
  /\ pc[r] = "start" => file[t].status = "queued"
  /\ pc[r] \in {"claude", "post", "end"} => file[t].status = "running"
  /\ pc[r] \in {"fillStart", "fillEnd"} => file[t].status = "torn"
  /\ pc[r] = "dead" => file[t].status \in {"torn", copy[r].status}
  /\ pc[r] = "over" => file[t].status = copy[r].status /\ file[t].result = copy[r].result

\* What it has been told of.
Told(r, t) ==
  /\ relayed[t] = IF file[t].status \in Final /\ file[t].surfaced THEN 1 ELSE 0
  /\ t \notin unsure =>
       /\ pc[r] \in {"start", "fillStart", "claude", "post"} => posts[t] = 0
       /\ pc[r] \in {"end", "fillEnd", "over"} =>
            posts[t] = IF ~copy[r].error /\ t \in Targeted /\ copy[r].result # Blank
                       THEN 1 ELSE 0
       /\ pc[r] = "dead" => posts[t] <= 1

TaskInv ==
  \A t \in Tasks :
    /\ took[t] = {} => Untouched(t)
    /\ \A r \in Runners : took[t] = {r} => FileOf(r, t) /\ Told(r, t)

\* Only a finished task is marked as surfaced.
SurfacedInv == \A t \in Tasks : file[t].status \notin Final => file[t].surfaced = FALSE

\* A task that reads as queued has not been started by whoever took it.
QueuedInv ==
  \A t \in Tasks : file[t].status = "queued" =>
    \A r \in took[t] : pc[r] \in {"start", "dead"}

IInv ==
  /\ TypeOK /\ SurfacedInv /\ QueuedInv /\ StartedInv /\ JobInv /\ KilledInv /\ CopyInv /\ TaskInv

-----------------------------------------------------------------------------
(* The records                                                             *)

LEMMA ContentsFields ==
  \A status \in Status \cup Unreadable :
    /\ FileWith(status) \in Contents
    /\ FileWith(status).status = status
    /\ FileWith(status).surfaced = FALSE
BY DEF FileWith, Contents, Results

LEMMA EditedFields ==
  ASSUME NEW task \in Contents
  PROVE  /\ \A s \in Status : /\ WithStatus(task, s) \in Contents
                              /\ WithStatus(task, s).status = s
                              /\ WithStatus(task, s).result = task.result
                              /\ WithStatus(task, s).error = task.error
                              /\ WithStatus(task, s).surfaced = task.surfaced
         /\ Surfaced(task) \in Contents
         /\ Surfaced(task).status = task.status
         /\ Surfaced(task).result = task.result
         /\ Surfaced(task).surfaced = TRUE
BY DEF WithStatus, Surfaced, Contents

LEMMA OutcomeFields ==
  ASSUME NEW task \in Contents, NEW x \in Results
  PROVE  /\ Outcome(task, x, TRUE) \in Contents /\ Outcome(task, x, TRUE).error
         /\ Outcome(task, x, TRUE).status = task.status
         /\ Outcome(task, x, TRUE).result = x
         /\ Outcome(task, x, TRUE).surfaced = task.surfaced
         /\ Outcome(task, x, FALSE) \in Contents /\ ~Outcome(task, x, FALSE).error
         /\ Outcome(task, x, FALSE).status = task.status
         /\ Outcome(task, x, FALSE).result = x
         /\ Outcome(task, x, FALSE).surfaced = task.surfaced
BY DEF Outcome, Contents

LEMMA InitInv == Init => IInv
<1> SUFFICES ASSUME Init PROVE IInv
  OBVIOUS
<1>1. TypeOK
  BY TaskAssumption DEF Init, TypeOK, FileWith, Contents, Results, DispatcherPc, RunnerPc, Unreadable, Status, Final
<1>2. StartedInv /\ JobInv /\ KilledInv /\ CopyInv
  BY TaskAssumption DEF Init, StartedInv, JobInv, KilledInv, CopyInv
<1>3. TaskInv /\ SurfacedInv /\ QueuedInv
  BY DEF Init, TaskInv, Untouched, SurfacedInv, QueuedInv, FileWith
<1> QED
  BY <1>1, <1>2, <1>3 DEF IInv

-----------------------------------------------------------------------------
(* The dispatching command                                                 *)

LEMMA DispatchStep ==
  ASSUME IInv, NEW t \in Tasks,
         Dispatch(t) \/ CreateOpens(t) \/ CreateFills(t) \/ SpawnRunner(t)
  PROVE  IInv'
<1> USE DEF IInv, DispatcherAt
<1>1. took' = took /\ copy' = copy /\ posts' = posts /\ relayed' = relayed /\ unsure' = unsure /\ broken' = broken
  BY DEF Dispatch, CreateOpens, CreateFills, SpawnRunner
<1>2. dpc[t] # "over" /\ (pc' # pc => dpc[t] = "spawn")
  BY DEF Dispatch, CreateOpens, CreateFills, SpawnRunner
<1>3. pc[First[t]] = "none" /\ took[t] = {}
  BY <1>2, TaskAssumption DEF StartedInv, JobInv, TypeOK
<1>4. TypeOK'
  BY <1>1, ContentsFields, TaskAssumption
     DEF TypeOK, Dispatch, CreateOpens, CreateFills, SpawnRunner, Empty, Fill, DispatcherPc,
         RunnerPc, Unreadable, Status
<1>5. StartedInv'
  BY <1>1, <1>3, TaskAssumption
     DEF StartedInv, TypeOK, JobInv, Dispatch, CreateOpens, CreateFills, SpawnRunner
<1>6. JobInv' /\ KilledInv'
  BY <1>1, <1>3, TaskAssumption
     DEF JobInv, KilledInv, TypeOK, Dispatch, CreateOpens, CreateFills, SpawnRunner
<1>7. \A r \in Runners : r \in took[Job[r]] => pc'[r] = pc[r]
  BY <1>3, TaskAssumption
     DEF StartedInv, TypeOK, Dispatch, CreateOpens, CreateFills, SpawnRunner
<1>8. CopyInv' /\ SurfacedInv'
  BY <1>1, <1>7, ContentsFields
     DEF CopyInv, SurfacedInv, TypeOK, Dispatch, CreateOpens, CreateFills, SpawnRunner, Empty,
         Fill, Status, Unreadable
<1>9. TaskInv'
  <2> SUFFICES ASSUME NEW u \in Tasks
               PROVE  /\ took'[u] = {} => Untouched(u)'
                      /\ \A r \in Runners : took'[u] = {r} => FileOf(r, u)' /\ Told(r, u)'
    BY DEF TaskInv
  <2>1. CASE u # t
    <3>1. file'[u] = file[u] /\ dpc'[u] = dpc[u]
      BY <2>1 DEF TypeOK, Dispatch, CreateOpens, CreateFills, SpawnRunner, Empty, Fill
    <3>2. \A r \in Runners : took[u] = {r} => pc'[r] = pc[r]
      BY <1>7 DEF JobInv
    <3> QED
      BY <1>1, <3>1, <3>2 DEF TaskInv, Untouched, FileOf, Told
  <2>2. CASE u = t
    <3>1. Untouched(t)
      BY <1>3 DEF TaskInv
    <3>2. Untouched(t)'
      BY <1>1, <3>1, ContentsFields
         DEF Untouched, TypeOK, Dispatch, CreateOpens, CreateFills, SpawnRunner, Empty, Fill,
             DispatcherPc, Unreadable
    <3> QED
      BY <1>1, <1>3, <2>2, <3>2
  <2> QED
    BY <2>1, <2>2
<1>10. QueuedInv'
  <2>1. \A u \in Tasks : \A r \in took[u] : u # t /\ file'[u] = file[u] /\ pc'[r] = pc[r]
    BY <1>3, <1>7 DEF JobInv, TypeOK, Dispatch, CreateOpens, CreateFills, SpawnRunner, Empty, Fill
  <2> QED
    BY <1>1, <2>1 DEF QueuedInv
<1> QED
  BY <1>4, <1>5, <1>6, <1>8, <1>9, <1>10

LEMMA RunAgainStep ==
  ASSUME IInv, NEW r \in Runners, RunAgain(r)
  PROVE  IInv'
<1> USE DEF IInv, RunAgain
<1>1. r \notin took[Job[r]]
  BY DEF StartedInv
<1>2. TypeOK'
  BY DEF TypeOK, RunnerPc
<1>3. StartedInv' /\ JobInv' /\ KilledInv' /\ CopyInv' /\ SurfacedInv' /\ QueuedInv'
  BY <1>1 DEF StartedInv, JobInv, KilledInv, CopyInv, SurfacedInv, QueuedInv, TypeOK
<1>4. \A t \in Tasks, q \in Runners : took[t] = {q} => pc'[q] = pc[q]
  BY <1>1 DEF JobInv, TypeOK
<1>5. TaskInv'
  BY <1>4 DEF TaskInv, Untouched, FileOf, Told
<1> QED
  BY <1>2, <1>3, <1>5

-----------------------------------------------------------------------------
(* The runner                                                              *)

LEMMA ReadStep ==
  ASSUME IInv, NEW r \in Runners, ReadTask(r)
  PROVE  IInv'
<1> USE DEF IInv, ReadTask
<1> DEFINE t == Job[r]
<1>1. t \in Tasks /\ r \notin took[t] /\ dpc[t] = "over"
  BY TaskAssumption DEF StartedInv
<1>2. TypeOK'
  BY <1>1 DEF TypeOK, RunnerPc
<1>3. StartedInv' /\ KilledInv'
  BY <1>1, TaskAssumption DEF StartedInv, KilledInv, TypeOK
<1>4. JobInv'
  BY <1>1 DEF JobInv, TypeOK
<1>5. \A q \in Runners : q # r => pc'[q] = pc[q] /\ copy'[q] = copy[q] /\ (q \in took'[Job[q]] <=> q \in took[Job[q]])
  BY <1>1, TaskAssumption DEF TypeOK
<1>8. QueuedInv'
  <2> SUFFICES ASSUME NEW u \in Tasks, file[u].status = "queued", NEW q \in took'[u]
               PROVE  pc'[q] \in {"start", "dead"}
    BY DEF QueuedInv
  <2>1. CASE q = r
    BY <1>1, <1>4, <2>1 DEF TypeOK, JobInv
  <2>2. CASE q # r
    BY <1>1, <1>5, <2>2 DEF QueuedInv, TypeOK
  <2> QED
    BY <2>1, <2>2
<1>6. CASE MayRun(file[t])
  <2>1. file[t].status = "queued"
    BY <1>6 DEF MayRun
  <2>2. pc'[r] = "start" /\ copy'[r] = file[t] /\ took'[t] = took[t] \cup {r}
    BY <1>1, <1>6 DEF TypeOK
  <2>3. \A u \in Tasks : u # t => took'[u] = took[u]
    BY <1>6 DEF TypeOK
  <2>4. copy'[r].status = "queued" /\ copy'[r].surfaced = FALSE
    BY <1>1, <2>1, <2>2 DEF SurfacedInv, Final
  <2>5. CopyInv'
    BY <1>1, <1>5, <2>1, <2>2, <2>4 DEF CopyInv
  <2>6. ASSUME NEW u \in Tasks, NEW q \in Runners, took'[u] = {q}
        PROVE  FileOf(q, u)' /\ Told(q, u)'
    <3>1. CASE u # t
      <4>1. q # r
        BY <1>4, <2>6, <3>1 DEF JobInv
      <4> QED
        BY <1>5, <2>3, <2>6, <3>1, <4>1 DEF TaskInv, FileOf, Told
    <3>2. CASE u = t
      <4>1. q = r /\ took[t] = {}
        BY <1>1, <2>2, <2>6, <3>2
      <4>2. Untouched(t)
        BY <1>1, <4>1 DEF TaskInv
      <4> QED
        BY <1>1, <2>1, <2>2, <3>2, <4>1, <4>2 DEF Untouched, FileOf, Told, Final
    <3> QED
      BY <3>1, <3>2
  <2>7. TaskInv'
    BY <2>2, <2>3, <2>6 DEF TaskInv, Untouched
  <2> QED
    BY <1>2, <1>3, <1>4, <1>8, <2>5, <2>7 DEF SurfacedInv
<1>7. CASE ~MayRun(file[t])
  <2>1. took' = took /\ copy' = copy
    BY <1>7
  <2>2. CopyInv' /\ SurfacedInv'
    BY <1>1, <1>5, <2>1 DEF CopyInv, SurfacedInv
  <2>3. \A u \in Tasks, q \in Runners : took[u] = {q} => q # r
    BY <1>1 DEF JobInv
  <2>4. TaskInv'
    BY <1>5, <2>1, <2>3 DEF TaskInv, Untouched, FileOf, Told
  <2> QED
    BY <1>2, <1>3, <1>4, <1>8, <2>2, <2>4
<1> QED
  BY <1>6, <1>7

\* A step of runner r that leaves its task taken as it was, and does not touch
\* the file or the posts of any other task.
Within(r) ==
  /\ r \in took[Job[r]]
  /\ took' = took /\ dpc' = dpc
  /\ broken' = broken \/ broken' = broken \cup {Job[r]}
  /\ \A q \in Runners \ {r} : pc'[q] = pc[q] /\ copy'[q] = copy[q]
  /\ pc'[r] \notin {"none", "read"}
  /\ \A t \in Tasks \ {Job[r]} :
       /\ file'[t] = file[t] /\ posts'[t] = posts[t] /\ relayed'[t] = relayed[t]
       /\ t \in unsure' <=> t \in unsure

\* It preserves the invariant if it does so for r and its task.
LEMMA WithinStep ==
  ASSUME IInv, TypeOK', NEW r \in Runners, Within(r),
         pc'[r] = "dead" => Job[r] \in broken',
         file'[Job[r]].status \notin Final => file'[Job[r]].surfaced = FALSE,
         file'[Job[r]].status = "queued" =>
           file[Job[r]].status = "queued" /\ pc'[r] \in {"start", "dead"},
         took[Job[r]] = {r} => FileOf(r, Job[r])' /\ Told(r, Job[r])',
         CopyInv'
  PROVE  IInv'
<1> USE DEF IInv, Within
<1> DEFINE t == Job[r]
<1>1. t \in Tasks /\ dpc[t] = "over"
  BY TaskAssumption DEF StartedInv
<1>2. SurfacedInv' /\ StartedInv' /\ JobInv' /\ KilledInv'
  BY <1>1, TaskAssumption DEF SurfacedInv, StartedInv, JobInv, KilledInv
<1>6. QueuedInv'
  <2> SUFFICES ASSUME NEW u \in Tasks, file'[u].status = "queued", NEW q \in took[u]
               PROVE  pc'[q] \in {"start", "dead"}
    BY DEF QueuedInv
  <2>1. q \in Runners /\ Job[q] = u
    BY DEF JobInv, TypeOK
  <2> QED
    BY <1>1, <2>1 DEF QueuedInv
<1>3. ASSUME NEW u \in Tasks, NEW q \in Runners, took'[u] = {q}
      PROVE  FileOf(q, u)' /\ Told(q, u)'
  <2>1. CASE q = r
    BY <1>3, <2>1 DEF JobInv
  <2>2. CASE q # r
    <3>1. u # t
      BY <1>3, <2>2
    <3> QED
      BY <1>3, <2>2, <3>1 DEF TaskInv, FileOf, Told
  <2> QED
    BY <2>1, <2>2
<1>4. \A u \in Tasks : took'[u] = {} => Untouched(u)'
  <2> SUFFICES ASSUME NEW u \in Tasks, took[u] = {} PROVE Untouched(u)'
    OBVIOUS
  <2>1. u # t
    OBVIOUS
  <2> QED
    BY <2>1 DEF TaskInv, Untouched
<1>5. TaskInv'
  BY <1>3, <1>4 DEF TaskInv
<1> QED
  BY <1>2, <1>5, <1>6

LEMMA OpenStep ==
  ASSUME IInv, NEW r \in Runners, RunnerOpens(r)
  PROVE  IInv'
<1> USE DEF IInv, RunnerOpens, Empty
<1> DEFINE t == Job[r]
<1>1. t \in Tasks /\ r \in took[t]
  BY TaskAssumption DEF StartedInv
<1>2. TypeOK' /\ FileWith("torn").status = "torn" /\ FileWith("torn").surfaced = FALSE
  BY <1>1, ContentsFields DEF TypeOK, RunnerPc, Unreadable
<1>3. Within(r)
  BY <1>1 DEF Within, TypeOK
<1>4. took[t] = {r} => FileOf(r, t)' /\ Told(r, t)'
  BY <1>1, <1>2 DEF TaskInv, FileOf, Told, TypeOK, Final
<1>5. CopyInv'
  BY <1>1, <1>3 DEF CopyInv, Within, TypeOK
<1> QED
  BY <1>1, <1>2, <1>3, <1>4, <1>5, WithinStep DEF TypeOK

LEMMA MarkRunningStep ==
  ASSUME IInv, NEW r \in Runners, MarkRunning(r)
  PROVE  IInv'
<1> USE DEF IInv, MarkRunning
<1> DEFINE t == Job[r]
           task == WithStatus(copy[r], "running")
<1>1. t \in Tasks /\ r \in took[t] /\ copy[r] \in Contents
  BY TaskAssumption DEF StartedInv, TypeOK
<1>2. /\ task \in Contents /\ task.status = "running" /\ task.surfaced = FALSE
  <2>1. "running" \in Status /\ copy[r].surfaced = FALSE
    BY <1>1 DEF Status, CopyInv
  <2> HIDE DEF IInv, MarkRunning
  <2> QED
    BY <1>1, <2>1, EditedFields
<1>3. FileWith("torn") \in Contents /\ FileWith("torn").status = "torn" /\ FileWith("torn").surfaced = FALSE
  BY ContentsFields DEF Unreadable
<1>4. TypeOK'
  BY <1>1, <1>2, <1>3 DEF TypeOK, Fill, RunnerPc
<1>5. /\ copy'[r] = task /\ pc'[r] = "claude"
      /\ \/ file'[t] = task
         \/ file[t].status # "torn" /\ file'[t] = FileWith("torn")
  <2>1. copy'[r] = task /\ pc'[r] = "claude"
    BY <1>1 DEF TypeOK
  <2>2. Fill(t, task)
    BY <2>1
  <2>3. file \in [Tasks -> Contents]
    BY DEF TypeOK
  <2> HIDE DEF IInv, MarkRunning, task
  <2> QED
    BY <1>1, <2>1, <2>2, <2>3 DEF Fill
<1>6. Within(r)
  BY <1>1 DEF Within, TypeOK, Fill
<1>7. took[t] = {r} => FileOf(r, t)' /\ Told(r, t)'
  BY <1>1, <1>2, <1>5 DEF TaskInv, FileOf, Told, Final
<1>8. CopyInv'
  BY <1>1, <1>2, <1>5, <1>6 DEF CopyInv, Within
<1> QED
  BY <1>1, <1>2, <1>3, <1>4, <1>5, <1>6, <1>7, <1>8, WithinStep

LEMMA ClaudeStep ==
  ASSUME IInv, NEW r \in Runners, ClaudeEnds(r)
  PROVE  IInv'
<1> USE DEF IInv, ClaudeEnds
<1> DEFINE t == Job[r]
<1>1. /\ t \in Tasks /\ r \in took[t] /\ copy[r] \in Contents
      /\ copy[r].surfaced = FALSE /\ copy[r].status = "running"
  BY TaskAssumption DEF StartedInv, CopyInv, TypeOK
<1>2. /\ copy'[r] \in Contents /\ copy'[r].status = "running" /\ copy'[r].surfaced = FALSE
      /\ pc'[r] = IF ~copy'[r].error /\ copy'[r].result # Blank /\ t \in Targeted
                  THEN "post" ELSE "end"
      /\ copy' = [copy EXCEPT ![r] = copy'[r]]
      /\ pc' = [pc EXCEPT ![r] = pc'[r]]
  <2>1. r \in Results /\ Blank \in Results /\ None \in Results /\ r # Blank /\ None # Blank
    BY TaskAssumption DEF Results
  <2>2. CASE copy' = [copy EXCEPT ![r] = Outcome(@, r, FALSE)]
             /\ pc' = [pc EXCEPT ![r] = IF Job[r] \in Targeted THEN "post" ELSE "end"]
    BY <1>1, <2>1, <2>2, OutcomeFields DEF TypeOK
  <2>3. CASE copy' = [copy EXCEPT ![r] = Outcome(@, Blank, FALSE)] /\ pc' = [pc EXCEPT ![r] = "end"]
    BY <1>1, <2>1, <2>3, OutcomeFields DEF TypeOK
  <2>4. CASE copy' = [copy EXCEPT ![r] = Outcome(@, None, TRUE)] /\ pc' = [pc EXCEPT ![r] = "end"]
    BY <1>1, <2>1, <2>4, OutcomeFields DEF TypeOK
  <2> QED
    BY <2>2, <2>3, <2>4
<1>3. TypeOK'
  BY <1>1, <1>2 DEF TypeOK, RunnerPc
<1>4. Within(r)
  BY <1>1, <1>2 DEF Within, TypeOK
<1>5. took[t] = {r} => FileOf(r, t)' /\ Told(r, t)'
  BY <1>1, <1>2 DEF TaskInv, FileOf, Told
<1>6. CopyInv'
  BY <1>1, <1>2, <1>4 DEF CopyInv, Within
<1> QED
  BY <1>1, <1>2, <1>3, <1>4, <1>5, <1>6, WithinStep DEF SurfacedInv, QueuedInv

LEMMA PostStep ==
  ASSUME IInv, NEW r \in Runners, PostSucceeds(r) \/ PostRefused(r) \/ PostUnclear(r)
  PROVE  IInv'
<1> USE DEF IInv, Arrive
<1> DEFINE t == Job[r]
<1>1. /\ t \in Tasks /\ r \in took[t] /\ pc[r] = "post"
      /\ copy[r] \in Contents /\ copy[r].result \in Results
      /\ copy[r].surfaced = FALSE /\ copy[r].status = "running"
  BY TaskAssumption
     DEF StartedInv, TypeOK, CopyInv, Contents, PostSucceeds, PostRefused, PostUnclear, PostEnds
<1>2. PostEnds(r, TRUE) \/ PostEnds(r, FALSE)
  BY DEF PostSucceeds, PostRefused, PostUnclear
<1>3. /\ pc' = [pc EXCEPT ![r] = "end"]
      /\ file' = file /\ dpc' = dpc /\ kills' = kills /\ took' = took
      /\ broken' = broken /\ relayed' = relayed
  BY <1>2 DEF PostEnds
<1>4. /\ copy'[r] \in Contents /\ copy'[r].status = "running" /\ copy'[r].surfaced = FALSE
      /\ copy'[r].result = copy[r].result
      /\ copy' = [copy EXCEPT ![r] = copy'[r]]
      /\ PostEnds(r, TRUE) => copy'[r].error
      /\ PostEnds(r, FALSE) => ~copy'[r].error
  <2>1. PostEnds(r, TRUE) =>
          /\ copy'[r] = Outcome(copy[r], copy[r].result, TRUE)
          /\ copy' = [copy EXCEPT ![r] = copy'[r]]
    BY <1>1 DEF PostEnds, TypeOK
  <2>2. PostEnds(r, FALSE) =>
          /\ copy'[r] = Outcome(copy[r], copy[r].result, FALSE)
          /\ copy' = [copy EXCEPT ![r] = copy'[r]]
    BY <1>1 DEF PostEnds, TypeOK
  <2>3. /\ PostEnds(r, TRUE) => copy'[r].error
        /\ PostEnds(r, FALSE) => ~copy'[r].error
    <3>1. Outcome(copy[r], copy[r].result, TRUE).error /\ ~Outcome(copy[r], copy[r].result, FALSE).error
      BY <1>1, OutcomeFields
    <3> QED
      BY <2>1, <2>2, <3>1, Zenon
  <2> DEFINE FieldsOf(c) == /\ c \in Contents /\ c.status = "running"
                            /\ c.surfaced = FALSE /\ c.result = copy[r].result
             fails == Outcome(copy[r], copy[r].result, TRUE)
             works == Outcome(copy[r], copy[r].result, FALSE)
  <2>4. fails \in Contents /\ fails.status = "running" /\ fails.surfaced = FALSE
        /\ fails.result = copy[r].result
    BY <1>1, OutcomeFields
  <2>5. works \in Contents /\ works.status = "running" /\ works.surfaced = FALSE
        /\ works.result = copy[r].result
    BY <1>1, OutcomeFields
  <2>6. FieldsOf(fails) /\ FieldsOf(works)
    BY <2>4, <2>5
  <2> HIDE DEF FieldsOf
  <2>7. FieldsOf(copy'[r]) /\ copy' = [copy EXCEPT ![r] = copy'[r]]
    BY <1>2, <2>1, <2>2, <2>6, Zenon
  <2> QED
    BY <2>3, <2>7, Zenon DEF FieldsOf
<1>5. PICK n \in Nat :
        /\ posts' = [posts EXCEPT ![t] = @ + n]
        /\ unsure' = unsure \/ unsure' = unsure \cup {t}
        /\ t \notin unsure' => n = IF copy'[r].error THEN 0 ELSE 1
  <2>1. CASE PostSucceeds(r)
    BY <1>4, <2>1 DEF PostSucceeds
  <2>2. CASE PostRefused(r)
    <3>1. posts' = [posts EXCEPT ![t] = @ + 0]
      BY <2>2, <1>1 DEF PostRefused, TypeOK
    <3> QED
      BY <1>4, <2>2, <3>1 DEF PostRefused
  <2>3. CASE PostUnclear(r)
    <3>1. unsure' = unsure \cup {t}
      BY <2>3 DEF PostUnclear
    <3>2. \E n \in 0..MaxPosts : posts' = [posts EXCEPT ![t] = @ + n]
      <4>1. CASE PostEnds(r, TRUE) /\ \E n \in 0..MaxPosts : Arrive(Job[r], n)
        BY <4>1
      <4>2. CASE PostEnds(r, FALSE) /\ \E n \in 1..MaxPosts : Arrive(Job[r], n)
        <5>1. \E n \in 1..MaxPosts : posts' = [posts EXCEPT ![t] = @ + n]
          BY <4>2, Zenon
        <5>2. PICK n \in 1..MaxPosts : posts' = [posts EXCEPT ![t] = @ + n]
          BY <5>1
        <5>3. n \in 0..MaxPosts
          BY TaskAssumption
        <5> QED
          BY <5>2, <5>3, Zenon
      <4> QED
        BY <2>3, <4>1, <4>2 DEF PostUnclear
    <3>3. PICK n \in 0..MaxPosts : posts' = [posts EXCEPT ![t] = @ + n]
      BY <3>2
    <3>4. n \in Nat /\ t \in unsure'
      BY <1>1, <3>1, <3>3, TaskAssumption
    <3> QED
      BY <3>1, <3>3, <3>4
  <2> QED
    BY <2>1, <2>2, <2>3
<1>6. TypeOK'
  BY <1>1, <1>3, <1>4, <1>5 DEF TypeOK, RunnerPc
<1>7. Within(r)
  BY <1>1, <1>3, <1>4, <1>5 DEF Within, TypeOK
<1>8. pc'[r] = "end" /\ posts'[t] = posts[t] + n
  BY <1>1, <1>3, <1>5 DEF TypeOK
<1>9. took[t] = {r} => FileOf(r, t)' /\ Told(r, t)'
  <2> SUFFICES ASSUME took[t] = {r} PROVE FileOf(r, t)' /\ Told(r, t)'
    OBVIOUS
  <2>1. FileOf(r, t) /\ Told(r, t)
    BY <1>1 DEF TaskInv
  <2>2. FileOf(r, t)'
    BY <1>1, <1>3, <1>8, <2>1 DEF FileOf
  <2>3. t \in Targeted /\ copy[r].result # Blank
    BY <1>1 DEF CopyInv
  <2>4. t \notin unsure' => posts'[t] = IF copy'[r].error THEN 0 ELSE 1
    BY <1>1, <1>5, <1>8, <2>1 DEF Told, TypeOK
  <2> QED
    BY <1>3, <1>4, <1>8, <2>1, <2>2, <2>3, <2>4 DEF Told
<1>10. CopyInv'
  BY <1>1, <1>4, <1>7, <1>8 DEF CopyInv, Within
<1> QED
  BY <1>1, <1>3, <1>6, <1>7, <1>8, <1>9, <1>10, WithinStep DEF SurfacedInv, QueuedInv

LEMMA MarkFinalStep ==
  ASSUME IInv, NEW r \in Runners, MarkFinal(r)
  PROVE  IInv'
<1> USE DEF IInv, MarkFinal
<1> DEFINE t == Job[r]
           end == IF copy[r].error THEN "failed" ELSE "done"
           task == WithStatus(copy[r], end)
<1>1. t \in Tasks /\ r \in took[t] /\ copy[r] \in Contents
  BY TaskAssumption DEF StartedInv, TypeOK
<1>2. /\ task \in Contents /\ task.status = end /\ task.surfaced = FALSE
      /\ task.error = copy[r].error /\ task.result = copy[r].result
  <2>1. end \in Status /\ copy[r].surfaced = FALSE
    BY <1>1 DEF Status, Final, CopyInv
  <2> HIDE DEF IInv, MarkFinal, end
  <2> QED
    BY <1>1, <2>1, EditedFields
<1>3. FileWith("torn") \in Contents /\ FileWith("torn").status = "torn" /\ FileWith("torn").surfaced = FALSE
  BY ContentsFields DEF Unreadable
<1>4. TypeOK'
  BY <1>1, <1>2, <1>3 DEF TypeOK, Fill, RunnerPc
<1>5. /\ copy'[r] = task /\ pc'[r] = "over"
      /\ \/ file'[t] = task
         \/ file[t].status # "torn" /\ file'[t] = FileWith("torn")
  <2>1. copy'[r] = task /\ pc'[r] = "over"
    BY <1>1 DEF TypeOK
  <2>2. Fill(t, task)
    BY <2>1
  <2>3. file \in [Tasks -> Contents]
    BY DEF TypeOK
  <2> HIDE DEF IInv, MarkFinal, task
  <2> QED
    BY <1>1, <2>1, <2>2, <2>3 DEF Fill
<1>6. Within(r)
  BY <1>1 DEF Within, TypeOK, Fill
<1>7. took[t] = {r} => FileOf(r, t)' /\ Told(r, t)'
  BY <1>1, <1>2, <1>5 DEF TaskInv, FileOf, Told, Final
<1>8. CopyInv'
  BY <1>1, <1>2, <1>5, <1>6 DEF CopyInv, Within
<1> QED
  BY <1>1, <1>2, <1>3, <1>4, <1>5, <1>6, <1>7, <1>8, WithinStep

-----------------------------------------------------------------------------
(* Around them                                                             *)

LEMMA KillStep ==
  ASSUME IInv, NEW r \in Runners, Kill(r)
  PROVE  IInv'
<1> USE DEF IInv, Kill, Arrive
<1> DEFINE t == Job[r]
<1>1. t \in Tasks
  BY TaskAssumption
<1>2. /\ pc' = [pc EXCEPT ![r] = "dead"] /\ pc'[r] = "dead" /\ kills' \in 0..MaxKills
      /\ t \in broken'
  BY TaskAssumption DEF TypeOK
<1>3. posts' \in [Tasks -> Nat] /\ unsure' \subseteq Tasks
  BY <1>1, TaskAssumption DEF TypeOK
<1>4. TypeOK'
  BY <1>1, <1>2, <1>3 DEF TypeOK, RunnerPc
<1>5. CASE r \in took[t]
  <2>1. Within(r)
    BY <1>1, <1>2, <1>5 DEF Within, TypeOK
  <2>2. took[t] = {r} => FileOf(r, t)' /\ Told(r, t)'
    <3> SUFFICES ASSUME took[t] = {r} PROVE FileOf(r, t)' /\ Told(r, t)'
      OBVIOUS
    <3>1. FileOf(r, t) /\ Told(r, t) /\ pc[r] \notin {"none", "read", "over", "dead"}
      BY <1>1, <1>5 DEF TaskInv, StartedInv
    <3>2. FileOf(r, t)'
      BY <1>2, <1>5, <3>1 DEF FileOf, CopyInv, TypeOK, RunnerPc
    <3>3. t \notin unsure' => posts'[t] = posts[t] /\ t \notin unsure /\ posts[t] <= 1
      BY <1>1, <3>1 DEF Told, TypeOK, RunnerPc
    <3> QED
      BY <1>2, <3>1, <3>2, <3>3 DEF Told
  <2>3. CopyInv'
    BY <1>2, <1>5, <2>1 DEF CopyInv, Within, StartedInv, TypeOK, RunnerPc
  <2> QED
    BY <1>1, <1>2, <1>4, <2>1, <2>2, <2>3, WithinStep DEF SurfacedInv
<1>6. CASE r \notin took[t]
  <2>1. pc[r] = "read" /\ posts' = posts /\ unsure' = unsure
    BY <1>6 DEF StartedInv
  <2>2. \A q \in Runners : q \in took[Job[q]] => pc'[q] = pc[q]
    BY <1>2, <1>6 DEF TypeOK
  <2>3. SurfacedInv' /\ QueuedInv' /\ StartedInv' /\ JobInv' /\ KilledInv' /\ CopyInv'
    BY <1>2, <1>6, <2>1, <2>2 DEF SurfacedInv, QueuedInv, StartedInv, JobInv, KilledInv, CopyInv, TypeOK
  <2>4. TaskInv'
    BY <2>1, <2>2 DEF TaskInv, JobInv, Untouched, FileOf, Told
  <2> QED
    BY <1>4, <2>3, <2>4
<1> QED
  BY <1>5, <1>6

LEMMA SurfaceStep ==
  ASSUME IInv, NEW t \in Tasks, Surface(t)
  PROVE  IInv'
<1> USE DEF IInv, Surface
<1>1. /\ file'[t] = Surfaced(file[t]) /\ relayed'[t] = relayed[t] + 1
      /\ \A u \in Tasks \ {t} : file'[u] = file[u] /\ relayed'[u] = relayed[u]
  BY DEF TypeOK
<1>2. /\ Surfaced(file[t]) \in Contents /\ file'[t].status = file[t].status
      /\ file'[t].result = file[t].result /\ file'[t].surfaced = TRUE
  BY <1>1, EditedFields DEF TypeOK
<1>3. TypeOK' /\ SurfacedInv' /\ QueuedInv' /\ StartedInv' /\ JobInv' /\ KilledInv' /\ CopyInv'
  BY <1>1, <1>2 DEF TypeOK, SurfacedInv, QueuedInv, Final, StartedInv, JobInv, KilledInv, CopyInv
<1>4. took[t] # {}
  BY ContentsFields
     DEF TaskInv, Untouched, TypeOK, DispatcherPc, Status, Unreadable, Final
<1>5. ASSUME NEW q \in Runners, took[t] = {q}
      PROVE  FileOf(q, t)' /\ Told(q, t)'
  BY <1>1, <1>2, <1>5 DEF TaskInv, FileOf, Told, Final
<1>6. TaskInv'
  BY <1>1, <1>4, <1>5 DEF TaskInv, Untouched, FileOf, Told
<1> QED
  BY <1>3, <1>6

LEMMA StutterStep == IInv /\ UNCHANGED vars => IInv'
BY DEF IInv, vars, TypeOK, SurfacedInv, QueuedInv, StartedInv, JobInv, KilledInv, CopyInv, TaskInv,
       Untouched, FileOf, Told

LEMMA NextInv == IInv /\ [Next]_vars => IInv'
<1> SUFFICES ASSUME IInv, [Next]_vars PROVE IInv'
  OBVIOUS
<1>1. CASE UNCHANGED vars
  BY <1>1, StutterStep
<1>2. CASE \E t \in Tasks : Dispatcher(t) \/ Surface(t)
  BY <1>2, DispatchStep, SurfaceStep DEF Dispatcher
<1>3. CASE \E r \in Runners : Runner(r) \/ RunAgain(r) \/ Kill(r)
  BY <1>3, ReadStep, OpenStep, MarkRunningStep, ClaudeStep, PostStep, MarkFinalStep,
     RunAgainStep, KillStep DEF Runner
<1> QED
  BY <1>1, <1>2, <1>3 DEF Next

LEMMA Invariance == Spec => []IInv
BY InitInv, NextInv, PTL DEF Spec

-----------------------------------------------------------------------------
(* The theorems                                                            *)

\* The variables keep their types in every behaviour: a task's file holds a
\* task of the shape that the Stop hook reads, none, or one that does not parse.
THEOREM TypeSafety == Spec => []TypeOK
<1>1. IInv => TypeOK
  BY DEF IInv
<1> QED
  BY <1>1, Invariance, PTL

LEMMA AloneFacts ==
  ASSUME IInv, NEW t \in Tasks, ~Contested(t)
  PROVE  took[t] = {} \/ \E r \in Runners : took[t] = {r}
BY DEF IInv, TypeOK, Contested

LEMMA ToldLemma == IInv => ToldOnce
<1> SUFFICES ASSUME IInv, NEW t \in Tasks, ~Contested(t)
             PROVE  /\ relayed[t] <= 1
                    /\ t \notin unsure =>
                         /\ posts[t] <= 1
                         /\ file[t].status = "done" /\ t \in Targeted /\ file[t].result # Blank => posts[t] = 1
                         /\ file[t].status = "failed" => posts[t] = 0
  BY DEF ToldOnce
<1>1. CASE took[t] = {}
  <2>1. file[t].status \notin Final
    BY <1>1, ContentsFields
       DEF IInv, TaskInv, Untouched, TypeOK, DispatcherPc, Status, Unreadable, Final
  <2> QED
    BY <1>1, <2>1 DEF IInv, TaskInv, Untouched, Final
<1>2. ASSUME NEW r \in Runners, took[t] = {r}
      PROVE  /\ relayed[t] <= 1
             /\ t \notin unsure =>
                  /\ posts[t] <= 1
                  /\ file[t].status = "done" /\ t \in Targeted /\ file[t].result # Blank => posts[t] = 1
                  /\ file[t].status = "failed" => posts[t] = 0
  <2>1. Job[r] = t /\ FileOf(r, t) /\ Told(r, t) /\ pc[r] \in RunnerPc \ {"none", "read"}
    BY <1>2 DEF IInv, TaskInv, JobInv, StartedInv, TypeOK
  <2>2. file[t].status \in Final => pc[r] = "over"
    BY <1>2, <2>1 DEF FileOf, RunnerPc, Final, IInv, CopyInv
  <2> QED
    BY <1>2, <2>1, <2>2 DEF FileOf, Told, RunnerPc, Final, IInv, CopyInv
<1> QED
  BY <1>1, <1>2, AloneFacts

\* However tasks are dispatched, run again, killed and read: a task that one
\* runner took is relayed at most once, posted once if it is done, and not at
\* all if it failed, unless a post went unanswered.
THEOREM ToldOnceAlways == Spec => []ToldOnce
BY ToldLemma, Invariance, PTL

LEMMA KeptLemma == IInv => ResultIsKept
<1> SUFFICES ASSUME IInv, NEW t \in Tasks \ broken, dpc[t] = "over", ~Contested(t)
             PROVE  /\ Shown(t) = "not found" => \E r \in took[t] : pc[r] \in {"fillStart", "fillEnd"}
                    /\ \A r \in took[t] : pc[r] = "over" =>
                         /\ file[t].status \in Final
                         /\ file[t].result = copy[r].result
  BY DEF ResultIsKept
<1>1. CASE took[t] = {}
  BY <1>1, ContentsFields DEF IInv, TaskInv, Untouched, Shown, Listed, Status, Unreadable
<1>2. ASSUME NEW r \in Runners, took[t] = {r}
      PROVE  /\ Shown(t) = "not found" => pc[r] \in {"fillStart", "fillEnd"}
             /\ pc[r] = "over" => file[t].status \in Final /\ file[t].result = copy[r].result
  <2>1. Job[r] = t /\ FileOf(r, t) /\ pc[r] \in RunnerPc \ {"none", "read", "dead"}
    BY <1>2 DEF IInv, TaskInv, JobInv, StartedInv, KilledInv, TypeOK
  <2> QED
    BY <1>2, <2>1 DEF FileOf, RunnerPc, Shown, Listed, Unreadable, Final, IInv, CopyInv
<1> QED
  BY <1>1, <1>2, AloneFacts

\* A task that was dispatched stays readable except while its runner writes it,
\* and keeps what claude said when the runner is through, for any number of
\* tasks and runners, unless a runner is killed or two hold the task.
THEOREM ResultIsKeptAlways == Spec => []ResultIsKept
BY KeptLemma, Invariance, PTL

-----------------------------------------------------------------------------
(* TaskStore implements TaskLife                                           *)

LifeTable ==
  \A t \in Tasks :
    /\ took[t] = {} =>
         LifeOf(t) = IF dpc[t] \in {"idle", "open", "fill"} THEN "new" ELSE "queued"
    /\ \A r \in Runners : took[t] = {r} => LifeOf(t) = copy[r].status
    /\ Contested(t) => LifeOf(t) = "contested"

LEMMA LifeTableHolds == IInv => LifeTable
<1> SUFFICES ASSUME IInv, NEW t \in Tasks
             PROVE  /\ took[t] = {} =>
                         LifeOf(t) = IF dpc[t] \in {"idle", "open", "fill"} THEN "new" ELSE "queued"
                    /\ \A r \in Runners : took[t] = {r} => LifeOf(t) = copy[r].status
                    /\ Contested(t) => LifeOf(t) = "contested"
  BY DEF LifeTable
<1>1. CASE took[t] = {}
  <2>1. ~Contested(t) /\ ~\E r \in Runners : took[t] = {r}
    BY <1>1 DEF Contested
  <2>2. dpc[t] \in {"spawn", "over"} => file[t].status = "queued" /\ t \in Listed
    BY <1>1, ContentsFields DEF IInv, TaskInv, Untouched, Shown, Listed, Status, Unreadable
  <2> QED
    BY <1>1, <2>1, <2>2 DEF LifeOf, IInv, TypeOK, DispatcherPc
<1>2. ASSUME NEW r \in Runners, took[t] = {r}
      PROVE  ~Contested(t) /\ LifeOf(t) = copy[r].status
  <2>1. /\ Job[r] = t /\ FileOf(r, t) /\ pc[r] \in RunnerPc \ {"none", "read"} /\ dpc[t] = "over"
        /\ ~Contested(t) /\ (CHOOSE q \in took[t] : TRUE) = r
    BY <1>2 DEF IInv, TaskInv, JobInv, StartedInv, TypeOK, Contested
  <2>2. copy[r].status \in Status
    BY <1>2, <2>1 DEF IInv, CopyInv, RunnerPc, Status, Final
  <2>3. file[t].status \in {"torn", copy[r].status}
    BY <1>2, <2>1 DEF IInv, CopyInv, FileOf, RunnerPc
  <2> QED
    BY <2>1, <2>2, <2>3 DEF LifeOf, Listed, Unreadable, Status, Final
<1> QED
  BY <1>1, <1>2 DEF LifeOf, Contested

LEMMA Unmoved ==
  ASSUME \A t \in Tasks : LifeOf(t)' = LifeOf(t), posts' = posts
  PROVE  UNCHANGED Life!lifeVars
BY DEF Life!lifeVars

LEMMA MovedOne ==
  ASSUME NEW t \in Tasks, \A u \in Tasks \ {t} : LifeOf(u)' = LifeOf(u), posts' = posts,
         NEW from, LifeOf(t) = from
  PROVE  Life!Move(t, from, LifeOf(t)')
BY DEF Life!Move

\* What a step does to the tasks it is not about.
Elsewhere(t) ==
  /\ \A u \in Tasks \ {t} : took'[u] = took[u] /\ dpc'[u] = dpc[u] /\ posts'[u] = posts[u]
  /\ \A r \in Runners : Job[r] # t => copy'[r] = copy[r]

LEMMA ElsewhereSame ==
  ASSUME IInv, LifeTable, LifeTable', NEW t \in Tasks, Elsewhere(t)
  PROVE  \A u \in Tasks \ {t} : LifeOf(u)' = LifeOf(u)
<1> SUFFICES ASSUME NEW u \in Tasks \ {t} PROVE LifeOf(u)' = LifeOf(u)
  OBVIOUS
<1>1. took'[u] = took[u] /\ dpc'[u] = dpc[u]
  BY DEF Elsewhere
<1>2. CASE took[u] = {}
  BY <1>1, <1>2 DEF LifeTable
<1>3. ASSUME NEW r \in Runners, took[u] = {r} PROVE LifeOf(u)' = LifeOf(u)
  <2>1. Job[r] = u
    BY <1>3 DEF IInv, JobInv
  <2> QED
    BY <1>1, <1>3, <2>1 DEF LifeTable, Elsewhere
<1>4. CASE Contested(u)
  BY <1>1, <1>4 DEF LifeTable, Contested
<1> QED
  BY <1>2, <1>3, <1>4, AloneFacts

LifeStep == Life!Next \/ UNCHANGED Life!lifeVars

LEMMA DispatcherLives ==
  ASSUME IInv, IInv', LifeTable, LifeTable', NEW t \in Tasks, Dispatcher(t)
  PROVE  LifeStep
<1> USE DEF Dispatcher, DispatcherAt
<1>1. /\ took' = took /\ copy' = copy /\ posts' = posts /\ dpc[t] # "over"
      /\ Elsewhere(t)
  BY DEF Dispatch, CreateOpens, CreateFills, SpawnRunner, Elsewhere, IInv, TypeOK
<1>2. took[t] = {}
  BY <1>1, TaskAssumption DEF IInv, JobInv, StartedInv, TypeOK
<1>3. \A u \in Tasks \ {t} : LifeOf(u)' = LifeOf(u)
  BY <1>1, ElsewhereSame
<1>4. CASE CreateFills(t)
  <2>1. LifeOf(t) = "new" /\ LifeOf(t)' = "queued"
    BY <1>1, <1>2, <1>4 DEF LifeTable, CreateFills, IInv, TypeOK
  <2>2. Life!Queue(t)
    BY <1>1, <1>3, <2>1, MovedOne DEF Life!Queue
  <2> QED
    BY <2>2 DEF LifeStep, Life!Next
<1>5. CASE Dispatch(t) \/ CreateOpens(t) \/ SpawnRunner(t)
  <2>1. LifeOf(t)' = LifeOf(t)
    BY <1>1, <1>2, <1>5 DEF LifeTable, Dispatch, CreateOpens, SpawnRunner, IInv, TypeOK
  <2> QED
    BY <1>1, <1>3, <2>1, Unmoved DEF LifeStep
<1> QED
  BY <1>4, <1>5

LEMMA ReadLives ==
  ASSUME IInv, IInv', LifeTable, LifeTable', NEW r \in Runners, ReadTask(r)
  PROVE  LifeStep
<1> USE DEF ReadTask
<1> DEFINE t == Job[r]
<1>1. /\ t \in Tasks /\ r \notin took[t] /\ dpc[t] = "over" /\ dpc' = dpc /\ posts' = posts
  BY TaskAssumption DEF IInv, StartedInv
<1>2. Elsewhere(t)
  BY <1>1 DEF Elsewhere, IInv, TypeOK
<1>3. \A u \in Tasks \ {t} : LifeOf(u)' = LifeOf(u)
  BY <1>1, <1>2, ElsewhereSame
<1>4. CASE ~MayRun(file[t])
  <2>1. LifeOf(t)' = LifeOf(t)
    BY <1>1, <1>4 DEF LifeOf, Listed, Contested
  <2> QED
    BY <1>1, <1>3, <2>1, Unmoved DEF LifeStep
<1>5. CASE MayRun(file[t])
  <2>1. took'[t] = took[t] \cup {r} /\ copy'[r] = file[t] /\ file[t].status = "queued"
    BY <1>1, <1>5 DEF IInv, TypeOK, MayRun
  <2>2. CASE took[t] = {}
    <3>1. LifeOf(t) = "queued" /\ LifeOf(t)' = "queued"
      BY <1>1, <2>1, <2>2 DEF LifeTable
    <3> QED
      BY <1>1, <1>3, <3>1, Unmoved DEF LifeStep
  <2>3. CASE took[t] # {}
    <3>1. Contested(t)'
      BY <1>1, <2>1, <2>3 DEF Contested
    <3>2. LifeOf(t)' = "contested"
      BY <1>1, <3>1 DEF LifeTable
    <3>3. LifeOf(t) # "new"
      <4>1. CASE Contested(t)
        BY <1>1, <4>1 DEF LifeTable
      <4>2. ASSUME NEW q \in Runners, took[t] = {q} PROVE LifeOf(t) # "new"
        <5>1. Job[q] = t /\ pc[q] \in RunnerPc \ {"none", "read"} /\ q \in took[t]
          BY <1>1, <4>2 DEF IInv, JobInv, StartedInv, TypeOK
        <5> QED
          BY <1>1, <4>2, <5>1 DEF LifeTable, IInv, CopyInv, RunnerPc
      <4> QED
        BY <1>1, <2>3, <4>1, <4>2, AloneFacts
    <3>4. Life!Contest(t)
      BY <1>1, <1>3, <3>2, <3>3 DEF Life!Contest
    <3> QED
      BY <1>1, <3>4 DEF LifeStep, Life!Next
  <2> QED
    BY <2>2, <2>3
<1> QED
  BY <1>4, <1>5

\* A step of a runner on a task that only it has taken moves the life along
\* with the copy; on a contested task it moves nothing.
LEMMA WithinLives ==
  ASSUME IInv, IInv', LifeTable, LifeTable', NEW r \in Runners, Within(r)
  PROVE  /\ Job[r] \in Tasks
         /\ \A u \in Tasks \ {Job[r]} : LifeOf(u)' = LifeOf(u)
         /\ \/ /\ LifeOf(Job[r]) = "contested" /\ LifeOf(Job[r])' = "contested"
            \/ /\ LifeOf(Job[r]) = copy[r].status /\ LifeOf(Job[r])' = copy'[r].status
<1> DEFINE t == Job[r]
<1>1. t \in Tasks /\ r \in took[t] /\ took' = took
  BY TaskAssumption DEF Within
<1>2. Elsewhere(t)
  BY <1>1 DEF Elsewhere, Within
<1>3. \A u \in Tasks \ {t} : LifeOf(u)' = LifeOf(u)
  BY <1>1, <1>2, ElsewhereSame
<1>4. CASE Contested(t)
  BY <1>1, <1>3, <1>4 DEF LifeTable, Contested
<1>5. CASE took[t] = {r}
  BY <1>1, <1>3, <1>5 DEF LifeTable
<1> QED
  BY <1>1, <1>4, <1>5, AloneFacts

LEMMA RunnerLives ==
  ASSUME IInv, IInv', LifeTable, LifeTable', NEW r \in Runners,
         Runner(r) \/ Kill(r), ~ReadTask(r), r \in took[Job[r]]
  PROVE  LifeStep
<1> USE DEF IInv
<1> DEFINE t == Job[r]
<1>1. t \in Tasks
  BY TaskAssumption
<1>2. Within(r)
  <2>1. r \in took[t]
    OBVIOUS
  <2>2. CASE RunnerOpens(r)
    BY <1>1, <2>1, <2>2 DEF Within, TypeOK, RunnerOpens, Empty
  <2>3. CASE MarkRunning(r)
    BY <1>1, <2>1, <2>3 DEF Within, TypeOK, MarkRunning, Fill
  <2>4. CASE ClaudeEnds(r)
    BY <1>1, <2>1, <2>4 DEF Within, TypeOK, ClaudeEnds
  <2>5. CASE MarkFinal(r)
    BY <1>1, <2>1, <2>5 DEF Within, TypeOK, MarkFinal, Fill
  <2>6. CASE Kill(r)
    BY <1>1, <2>1, <2>6 DEF Within, TypeOK, Kill, Arrive
  <2>7. CASE PostSucceeds(r) \/ PostRefused(r) \/ PostUnclear(r)
    <3>1. /\ pc' = [pc EXCEPT ![r] = "end"]
          /\ file' = file /\ dpc' = dpc /\ took' = took
          /\ broken' = broken /\ relayed' = relayed
          /\ \A q \in Runners \ {r} : copy'[q] = copy[q]
      BY <2>7 DEF PostSucceeds, PostRefused, PostUnclear, PostEnds, TypeOK
    <3>2. unsure' = unsure \/ unsure' = unsure \cup {t}
      BY <2>7 DEF PostSucceeds, PostRefused, PostUnclear
    <3>3. \A u \in Tasks \ {t} : posts'[u] = posts[u]
      BY <1>1, <2>7 DEF PostSucceeds, PostRefused, PostUnclear, Arrive, TypeOK
    <3> QED
      BY <1>1, <2>1, <3>1, <3>2, <3>3 DEF Within, TypeOK
  <2> QED
    BY <2>2, <2>3, <2>4, <2>5, <2>6, <2>7 DEF Runner
<1>3. /\ \A u \in Tasks \ {t} : LifeOf(u)' = LifeOf(u)
      /\ \/ LifeOf(t) = "contested" /\ LifeOf(t)' = "contested"
         \/ LifeOf(t) = copy[r].status /\ LifeOf(t)' = copy'[r].status
  BY <1>2, WithinLives
<1>4. CASE pc[r] = "post"
  <2>1. copy[r].status = "running" /\ copy'[r].status = "running"
    <3>1. pc'[r] \in {"end", "dead"} /\ (pc'[r] = "dead" => copy' = copy)
      BY <1>4 DEF Runner, Kill, RunnerOpens, MarkRunning, ClaudeEnds, PostSucceeds, PostRefused,
                  PostUnclear, PostEnds, MarkFinal, ReadTask, TypeOK
    <3> QED
      BY <1>2, <1>4, <3>1 DEF CopyInv, Within
  <2>2. /\ posts' \in [Tasks -> Nat] /\ posts'[t] >= posts[t]
        /\ \A u \in Tasks \ {t} : posts'[u] = posts[u]
    <3>1. PostSucceeds(r) \/ PostRefused(r) \/ PostUnclear(r) \/ Kill(r)
      BY <1>4 DEF Runner, RunnerOpens, MarkRunning, ClaudeEnds, MarkFinal
    <3>2. CASE PostSucceeds(r) \/ PostRefused(r)
      <4>1. posts' = posts \/ posts' = [posts EXCEPT ![t] = @ + 1]
        BY <3>2, Zenon DEF PostSucceeds, PostRefused, Arrive
      <4> QED
        BY <1>1, <4>1 DEF TypeOK
    <3>3. CASE PostUnclear(r)
      <4>1. \/ \E n \in 0..MaxPosts : posts' = [posts EXCEPT ![t] = @ + n]
            \/ \E n \in 1..MaxPosts : posts' = [posts EXCEPT ![t] = @ + n]
        BY <3>3, Zenon DEF PostUnclear, Arrive
      <4> QED
        BY <1>1, <4>1, TaskAssumption DEF TypeOK
    <3>4. CASE Kill(r)
      BY <1>1, <3>4, TaskAssumption DEF Kill, Arrive, TypeOK
    <3> QED
      BY <3>1, <3>2, <3>3, <3>4
  <2>3. LifeOf(t)' = LifeOf(t)
    BY <1>3, <2>1
  <2>4. UNCHANGED [u \in Tasks |-> LifeOf(u)]
    BY <1>3, <2>3
  <2>5. Life!PostsOnlyOf(t)
    BY <2>2, <2>4 DEF Life!PostsOnlyOf
  <2>6. Life!Post(t) \/ Life!PostContested(t)
    BY <1>1, <1>3, <2>1, <2>2, <2>5 DEF Life!Post, Life!PostContested
  <2> QED
    BY <1>1, <2>6 DEF LifeStep, Life!Next
<1>5. CASE pc[r] # "post"
  <2>1. posts' = posts
    BY <1>5 DEF Runner, Kill, RunnerOpens, MarkRunning, ClaudeEnds, PostSucceeds, PostRefused,
                PostUnclear, PostEnds, MarkFinal, ReadTask
  <2>2. CASE LifeOf(t)' = LifeOf(t)
    BY <1>3, <2>1, <2>2, Unmoved DEF LifeStep
  <2>3. CASE LifeOf(t)' # LifeOf(t)
    <3>1. LifeOf(t) = copy[r].status /\ LifeOf(t)' = copy'[r].status
      BY <1>3, <2>3
    <3>2. Life!Move(t, copy[r].status, copy'[r].status)
      BY <1>1, <1>3, <2>1, <3>1, MovedOne
    <3>3. CASE MarkRunning(r)
      <4>1. copy[r].status = "queued" /\ copy'[r].status = "running"
        BY <1>2, <3>3 DEF CopyInv, Within, MarkRunning, TypeOK
      <4> QED
        BY <1>1, <3>2, <4>1 DEF LifeStep, Life!Next, Life!Start
    <3>4. CASE MarkFinal(r)
      <4>1. copy[r].status = "running" /\ copy'[r].status \in {"failed", "done"}
        BY <1>2, <3>4 DEF CopyInv, Within, MarkFinal, TypeOK
      <4> QED
        BY <1>1, <3>2, <4>1 DEF LifeStep, Life!Next, Life!Finish, Life!Final
    <3>5. CASE RunnerOpens(r) \/ ClaudeEnds(r) \/ Kill(r)
      <4>1. copy'[r].status = copy[r].status
        <5>1. CASE RunnerOpens(r) \/ Kill(r)
          BY <5>1 DEF RunnerOpens, Kill
        <5>2. CASE ClaudeEnds(r)
          BY <1>2, <5>2 DEF ClaudeEnds, CopyInv, Within, TypeOK
        <5> QED
          BY <3>5, <5>1, <5>2
      <4> QED
        BY <2>3, <3>1, <4>1
    <3> QED
      BY <1>5, <3>3, <3>4, <3>5 DEF Runner, ReadTask, PostSucceeds, PostRefused, PostUnclear, PostEnds
  <2> QED
    BY <2>2, <2>3
<1> QED
  BY <1>4, <1>5

LEMMA OthersLive ==
  ASSUME IInv, NEW r \in Runners, RunAgain(r) \/ (Kill(r) /\ r \notin took[Job[r]])
  PROVE  LifeStep
<1>1. took' = took /\ copy' = copy /\ file' = file /\ dpc' = dpc
  BY DEF RunAgain, Kill
<1>2. posts' = posts
  BY DEF RunAgain, Kill, IInv, StartedInv
<1>3. \A t \in Tasks : LifeOf(t)' = LifeOf(t)
  BY <1>1 DEF LifeOf, Contested, Listed
<1> QED
  BY <1>2, <1>3, Unmoved DEF LifeStep

LEMMA SurfaceLives ==
  ASSUME IInv, IInv', LifeTable, LifeTable', NEW t \in Tasks, Surface(t)
  PROVE  LifeStep
<1>1. Elsewhere(t) /\ took' = took /\ copy' = copy /\ dpc' = dpc /\ posts' = posts
  BY DEF Surface, Elsewhere
<1>2. \A u \in Tasks \ {t} : LifeOf(u)' = LifeOf(u)
  BY <1>1, ElsewhereSame
<1>3. LifeOf(t)' = LifeOf(t)
  BY <1>1, AloneFacts DEF LifeTable, Contested
<1> QED
  BY <1>1, <1>2, <1>3, Unmoved DEF LifeStep

LEMMA NextLives ==
  ASSUME IInv, IInv', LifeTable, LifeTable', [Next]_vars
  PROVE  [Life!Next]_(Life!lifeVars)
<1>1. CASE UNCHANGED vars
  <2>1. \A t \in Tasks : LifeOf(t)' = LifeOf(t)
    BY <1>1 DEF vars, LifeOf, Contested, Listed
  <2> QED
    BY <1>1, <2>1, Unmoved DEF vars
<1>2. CASE \E t \in Tasks : Dispatcher(t) \/ Surface(t)
  BY <1>2, DispatcherLives, SurfaceLives DEF LifeStep
<1>3. ASSUME NEW r \in Runners, Runner(r) \/ RunAgain(r) \/ Kill(r)
      PROVE  LifeStep
  <2>1. CASE ReadTask(r)
    BY <2>1, ReadLives
  <2>2. CASE RunAgain(r) \/ (Kill(r) /\ r \notin took[Job[r]])
    BY <2>2, OthersLive
  <2>3. CASE (Runner(r) \/ Kill(r)) /\ ~ReadTask(r) /\ r \in took[Job[r]]
    BY <2>3, RunnerLives
  <2>4. Runner(r) /\ ~ReadTask(r) => r \in took[Job[r]]
    BY DEF Runner, RunnerOpens, MarkRunning, ClaudeEnds, PostSucceeds, PostRefused, PostUnclear,
           PostEnds, MarkFinal, IInv, StartedInv
  <2> QED
    BY <1>3, <2>1, <2>2, <2>3, <2>4
<1> QED
  BY <1>1, <1>2, <1>3 DEF Next, LifeStep

LEMMA InitLives == Init => Life!Init
BY DEF Init, Life!Init, LifeOf, Contested

\* TaskStore implements TaskLife: whatever is dispatched, run again, killed and
\* read, a task is queued, is run, and ends in one state for good, and is only
\* posted while it runs, until two runners hold it.
THEOREM Implementation == Spec => ImplementsLife
<1>1. IInv /\ IInv' /\ [Next]_vars => [Life!Next]_(Life!lifeVars)
  <2>1. IInv' => LifeTable'
    BY LifeTableHolds, PTL
  <2> QED
    BY <2>1, LifeTableHolds, NextLives
<1> QED
  BY <1>1, InitLives, Invariance, PTL DEF Spec, ImplementsLife, Life!Spec

\* However many runners a task is given, a second one takes it only before the
\* first has begun to write "running", or after it was killed.
THEOREM TakenTwice == Spec => TakenTwiceOnlyBeforeStart
<1>1. IInv /\ [Next]_vars =>
        [\A r \in Runners : r \in took'[Job[r]] \ took[Job[r]] =>
           \A q \in took[Job[r]] : pc[q] \in {"start", "dead"}]_vars
  <2> SUFFICES ASSUME IInv, Next, NEW r \in Runners, r \in took'[Job[r]] \ took[Job[r]]
               PROVE  \A q \in took[Job[r]] : pc[q] \in {"start", "dead"}
    OBVIOUS
  <2>1. \A t \in Tasks : Dispatcher(t) \/ Surface(t) => took' = took
    BY DEF Dispatcher, Dispatch, CreateOpens, CreateFills, SpawnRunner, Surface
  <2>2. \A q \in Runners : (Runner(q) /\ ~ReadTask(q)) \/ RunAgain(q) \/ Kill(q) => took' = took
    BY DEF Runner, RunnerOpens, MarkRunning, ClaudeEnds, PostSucceeds, PostRefused, PostUnclear,
           PostEnds, MarkFinal, RunAgain, Kill
  <2>3. PICK q \in Runners : ReadTask(q)
    BY <2>1, <2>2 DEF Next, Runner
  <2>4. Job[r] \in Tasks /\ Job[q] \in Tasks
    BY TaskAssumption
  <2>5. Job[q] = Job[r] /\ file[Job[r]].status = "queued"
    BY <2>3, <2>4 DEF ReadTask, MayRun, IInv, TypeOK
  <2> QED
    BY <2>4, <2>5 DEF IInv, QueuedInv
<1> QED
  BY <1>1, Invariance, PTL DEF Spec, TakenTwiceOnlyBeforeStart
=============================================================================
