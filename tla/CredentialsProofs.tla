------------------------- MODULE CredentialsProofs -------------------------
(***************************************************************************)
(* Proofs about Credentials for any number of commands, profiles,          *)
(* workspaces and kills.  EnvironmentsStayApart speaks of the file and of  *)
(* the hosts that keys are minted at; it needs to be known of what         *)
(* commands hold in memory and are about to write (GoodInv, StageInv), and *)
(* that a session belongs to a sign-in (OwnerInv).  OthersKept needs what  *)
(* a command that runs alone has done to the file so far (AloneInv).       *)
(* SessionFileIsWhole needs whose file the next rename moves (WholeInv),   *)
(* and OneKeyPerSignIn where a sign-in's token can still be had from once  *)
(* a key was minted with it (TokenInv, KeyInv).                            *)
(***************************************************************************)
EXTENDS Credentials, TLAPS

SignInOps == {"login", "complete", "key"}

\* Sessions, files on the way to be one, and tokens come from sign-ins.
SignedInBy(t) == t \in Commands => job[t].op \in {"login", "print"}

OwnerInv ==
  /\ \A c \in Commands : pc[c] = "new" => job[c] = NoJob
  /\ SignedInBy(session) /\ SignedInBy(tmp)
  /\ \A c \in Commands : SignedInBy(token[c])

\* What a command has in hand at the stage it is at.
Staged(c) ==
  /\ pc[c] = "oauth" => job[c].op \in {"login", "print"}
  /\ pc[c] = "list" => job[c].op \in {"login", "print", "complete", "use"}
  /\ pc[c] = "list" /\ job[c].op # "use" => token[c] # None
  /\ pc[c] \in {"unlink", "open", "fill", "rename"} => job[c].op = "print"
  /\ pc[c] = "mint" => /\ job[c].op \in {"login", "complete"}
                       /\ token[c] # None /\ host[c] # None
  /\ pc[c] = "load" => job[c].op \in SignInOps \cup {"logout", "use", "refresh"}
  /\ pc[c] = "load" /\ job[c].op \in SignInOps => host[c] # None
  /\ pc[c] \in {"route", "truncate", "write"} => content[c] # None
  /\ pc[c] = "route" => job[c].op = "refresh" /\ content[c][Target(job[c])] # None

StageInv == \A c \in Commands : Staged(c)

\* A profile that a sign-in saved points where its key is good.
GoodEntry(e) == e # None /\ e.set = "signin" => Serves(e.endpoint, e.key.ws)
GoodContents(f) == \A p \in Profiles : GoodEntry(f[p])

\* Whatever a command holds, it keeps to the environment of its sign-in.
GoodWork(c) ==
  /\ content[c] # None => GoodContents(content[c])
  /\ pc[c] = "mint" => EnvOf(host[c]) = EnvOf(SignInHost(token[c]))
  /\ pc[c] = "load" /\ job[c].op \in SignInOps => Serves(host[c], job[c].ws)

GoodInv ==
  /\ GoodContents(LoadOrEmpty(file))
  /\ \A c \in Commands : GoodWork(c)

\* Do f and what c found agree on the profiles that are not c's?
Agree(c, f) == \A p \in Profiles \ {Target(job[c])} : f[p] = LoadOrEmpty(before[c])[p]

\* A command that overlaps no other is the only one that runs, and the file is
\* as it was until the command empties it.
Alone(c) ==
  /\ \A d \in Commands \ {c} : ~Live(d)
  /\ pc[c] \notin {"write", "forget", "forgetFailed"} => file = before[c]
  /\ pc[c] \in {"route", "truncate", "write"} => Agree(c, content[c])
  /\ pc[c] = "write" => file = Emptied
  /\ pc[c] = "forget" => Agree(c, LoadOrEmpty(file))

AloneInv == \A c \in Commands : Live(c) /\ c \notin overlapped => Alone(c)

IInv == TypeOK /\ OwnerInv /\ StageInv /\ GoodInv /\ AloneInv

-----------------------------------------------------------------------------
(* Jobs, entries and the operators on them. *)

\* A job's parts, by the kind of command.
LEMMA JobFacts ==
  ASSUME NEW j \in Jobs
  PROVE  /\ j.op \in SignInOps \cup {"print", "logout", "refresh", "use"}
         /\ j.op \in {"login", "key", "print"} => j.endpoint \in SignInHosts
         /\ j.op \in SignInOps \cup {"use"} => j.ws \in Workspaces
         /\ j.profile \in Flags
  BY DEF Jobs, LoginJobs, PrintJobs, CompleteJobs, EditJobs, UseJobs, Job, SignInOps, Flags

\* The profile that a command acts on exists.
LEMMA TargetIsProfile ==
  ASSUME NEW j \in Jobs
  PROVE  Target(j) \in Profiles
  BY JobFacts, CredentialsAssumption DEF Target, Flags

\* What the code does at the start of a command or when it reads the files.
LEMMA LoadFacts ==
  ASSUME NEW f \in Contents \cup Unreadable
  PROVE  /\ Load(f) # None => f \in Contents
         /\ LoadOrEmpty(f) \in Contents
         /\ f \in Contents => Load(f) = f /\ LoadOrEmpty(f) = f
  BY FileAssumption DEF Load, LoadOrEmpty, NoProfiles, Contents, Unreadable

\* resolveAuth without a key or a project gives a profile's entry, or nothing.
LEMMA ResolveType ==
  ASSUME NEW f \in Contents \cup Unreadable, NEW p \in Flags, NEW a \in BOOLEAN,
         NEW r, r = resolveAuth([key |-> None, project |-> None, profile |-> p, auto |-> a], f)
  PROVE  r # None => r \in [key : Keys, endpoint : Hosts, from : Profiles]
  <1>1. ASSUME NEW g \in Contents, NEW q \in Profiles, g[q] # None
        PROVE  Profile(g, q) \in [key : Keys, endpoint : Hosts, from : Profiles]
    <2>1. g[q] \in Entries
      BY <1>1 DEF Contents
    <2> QED
      BY <2>1 DEF Profile, Choice, Entries
  <1>2. CASE p # None
    BY <1>1, <1>2, LoadFacts, CredentialsAssumption DEF resolveAuth, Named, Flags
  <1>3. CASE p = None
    <2>1. r = IF Load(f) = None THEN None ELSE FromProfiles(f, a)
      BY <1>3 DEF resolveAuth
    <2>2. CASE Load(f) # None /\ f # NoProfiles
      <3>1. f \in Contents
        BY <2>2, LoadFacts
      <3>2. \E q \in Profiles : f[q] # None
        BY <2>2, <3>1 DEF NoProfiles, Contents
      <3>3. FirstProfile(f) \in Profiles /\ f[FirstProfile(f)] # None
        BY <3>2, CredentialsAssumption DEF FirstProfile
      <3> QED
        BY <1>1, <2>1, <2>2, <3>1, <3>3, CredentialsAssumption DEF FromProfiles
    <2>3. CASE Load(f) # None /\ f = NoProfiles
      <3>1. f["local"] = None
        BY <2>3, CredentialsAssumption DEF NoProfiles
      <3> QED
        BY <2>1, <2>3, <3>1 DEF FromProfiles
    <2> QED
      BY <2>1, <2>2, <2>3
  <1> QED
    BY <1>2, <1>3

\* A new profile is well-formed.
LEMMA EntryOfType ==
  ASSUME NEW w \in Workspaces, NEW c \in Commands, NEW h \in Hosts, NEW how \in {"signin", "refresh"}
  PROVE  EntryOf(w, c, h, how) \in Entries
  BY DEF EntryOf, Entries, Keys

\* What /route and the list of workspaces name is a host, and a region serves
\* the workspaces that it is named for.
LEMMA RouteFacts ==
  ASSUME NEW w \in Workspaces
  PROVE  /\ Route(w) \subseteq Hosts
         /\ SameEnv("apex", w) => \A h \in Route(w) : Serves(h, w) /\ EnvOf(h) = "prod"
  BY CredentialsAssumption DEF Route, Hosts, RegionHosts, SameEnv, EnvOf, Serves

\* A mint stays in the environment of its sign-in.
LEMMA MintHostFacts ==
  ASSUME NEW w \in Workspaces, NEW h \in Hosts, SameEnv(h, w), NEW g \in MintHosts(h, w)
  PROVE  g \in Hosts /\ EnvOf(g) = EnvOf(h)
  BY RouteFacts DEF MintHosts, EnvOf

\* A profile that refresh-region moves is no longer one that a sign-in saved.
LEMMA MovedFacts ==
  ASSUME NEW e \in Entries, NEW h \in Hosts
  PROVE  Moved(e, h) \in Entries /\ GoodEntry(Moved(e, h))
  BY DEF Moved, Entries, GoodEntry

\* What a command makes of the file it has loaded is a file again, in which the
\* other profiles are as they were, and no sign-in's endpoint is a wrong one.
LEMMA EditedFacts ==
  ASSUME TypeOK, StageInv, GoodInv, NEW c \in Commands, pc[c] = "load", job[c] \in Jobs,
         NEW new, new = Edited(c, file), new # None
  PROVE  /\ new \in Contents
         /\ GoodContents(new)
         /\ \A p \in Profiles \ {Target(job[c])} : new[p] = LoadOrEmpty(file)[p]
         /\ job[c].op = "refresh" => new[Target(job[c])] # None
  <1> DEFINE p == Target(job[c])
             f == LoadOrEmpty(file)
  <1>1. p \in Profiles /\ f \in Contents
    BY TargetIsProfile, LoadFacts DEF TypeOK, FileTypeOK
  <1>2. GoodContents(f)
    BY DEF GoodInv
  <1>3. CASE job[c].op \in SignInOps
    <2> DEFINE e == EntryOf(job[c].ws, c, host[c], "signin")
    <2>1. new = [f EXCEPT ![p] = e]
      BY <1>3 DEF Edited, SavedProfile, SignInOps
    <2>2. e \in Entries
      BY <1>3, JobFacts, EntryOfType DEF TypeOK, WorkTypeOK, StageInv, Staged
    <2>3. Serves(host[c], job[c].ws)
      BY <1>3 DEF GoodInv, GoodWork
    <2>4. GoodEntry(e)
      BY <2>3 DEF GoodEntry, EntryOf
    <2> QED
      BY <1>1, <1>2, <1>3, <2>1, <2>2, <2>4 DEF Contents, GoodContents, SignInOps
  <1>4. CASE job[c].op \in {"logout", "use", "refresh"}
    <2>1. file \in Contents /\ f = file /\ file[p] # None
      BY <1>4, LoadFacts DEF Edited, TypeOK, FileTypeOK
    <2>2. file[p] \in Entries
      BY <1>1, <2>1 DEF Contents
    <2>3. CASE job[c].op = "logout"
      <3>1. new = [f EXCEPT ![p] = None]
        BY <2>1, <2>3 DEF Edited
      <3> QED
        BY <1>1, <1>2, <2>3, <3>1 DEF Contents, GoodContents, GoodEntry
    <2>4. CASE job[c].op = "use"
      <3>1. new = [f EXCEPT ![p].ws = job[c].ws]
        BY <2>1, <2>4 DEF Edited
      <3>2. job[c].ws \in Workspaces
        BY <2>4, JobFacts
      <3>3. new[p] = [f[p] EXCEPT !.ws = job[c].ws] /\ new[p] \in Entries
        BY <1>1, <2>1, <2>2, <3>1, <3>2 DEF Contents, Entries
      <3>4. GoodEntry(new[p])
        BY <1>1, <1>2, <2>1, <2>2, <3>3 DEF GoodContents, GoodEntry, Entries
      <3> QED
        BY <1>1, <1>2, <2>4, <3>1, <3>3, <3>4 DEF Contents, GoodContents
    <2>5. CASE job[c].op = "refresh"
      <3>1. new = f
        BY <2>1, <2>5 DEF Edited
      <3> QED
        BY <1>1, <1>2, <2>1, <3>1
    <2> QED
      BY <1>4, <2>3, <2>4, <2>5
  <1> QED
    BY <1>3, <1>4 DEF StageInv, Staged

-----------------------------------------------------------------------------
(* Types are preserved, action by action. *)

WorkDone == WorkTypeOK' /\ HistTypeOK' /\ pc' \in [Commands -> Stages]

\* The parts of the state that a step leaves alone keep their types.
LEMMA Frames ==
  ASSUME TypeOK
  PROVE  /\ UNCHANGED loopVars => LoopTypeOK'
         /\ UNCHANGED fileVars => FileTypeOK'
         /\ UNCHANGED workVars => WorkTypeOK'
         /\ UNCHANGED histVars => HistTypeOK'
         /\ UNCHANGED job => job' \in [Commands -> Jobs \cup {NoJob}]
         /\ UNCHANGED minted => minted' \in [Commands \cup {Old} -> Nat]
  BY DEF TypeOK, LoopTypeOK, FileTypeOK, WorkTypeOK, HistTypeOK, loopVars, fileVars, workVars, histVars

\* A command goes on to another stage.
LEMMA GoType ==
  ASSUME TypeOK, NEW c \in Commands, NEW s \in Stages, Go(c, s)
  PROVE  pc' \in [Commands -> Stages]
  BY DEF TypeOK, Go

\* A command ends, in whatever way.
LEMMA EndType ==
  ASSUME TypeOK, NEW c \in Commands, NEW r \in Over, End(c, r)
  PROVE  /\ pc' \in [Commands -> Stages]
         /\ WorkTypeOK'
         /\ before' \in [Commands -> Contents \cup Unreadable \cup {None}]
         /\ UNCHANGED <<crashes, overlapped, unsure>> => HistTypeOK'
  <1>1. r \in Stages /\ Go(c, r)
    BY DEF Stages, End
  <1> QED
    BY <1>1, GoType DEF TypeOK, WorkTypeOK, HistTypeOK, End

\* A command fails.
LEMMA FailType ==
  ASSUME TypeOK, NEW c \in Commands, Fail(c)
  PROVE  WorkDone
  BY EndType DEF Fail, WorkDone, Over

\* A command begins.
LEMMA EnterType ==
  ASSUME TypeOK, NEW c \in Commands, NEW j \in Jobs, Enter(c, j)
  PROVE  HistTypeOK' /\ job' \in [Commands -> Jobs \cup {NoJob}]
  <1>1. HistTypeOK'
    BY DEF TypeOK, HistTypeOK, FileTypeOK, Enter, Live
  <1>2. job' \in [Commands -> Jobs \cup {NoJob}]
    BY DEF TypeOK, Enter
  <1> QED
    BY <1>1, <1>2

\* The listeners' types.
LEMMA LoopType ==
  ASSUME LoopTypeOK, NEW c \in Commands, LoopNext(c)
  PROVE  LoopTypeOK'
  <1>1. ASSUME NEW d \in Commands, NEW r \in {"resolved", "rejected"}, Settle(d, r)
        PROVE  /\ stack' \in [Commands -> [Stacks -> {"closed", "pending", "listening", "down"}]]
               /\ flow' \in [Commands -> {"idle", "waiting", "resolved", "rejected"}]
    <2>1. AllClosed \in [Stacks -> {"closed", "pending", "listening", "down"}]
      BY DEF AllClosed
    <2> QED
      BY <1>1, <2>1 DEF LoopTypeOK, Settle
  <1>2. ASSUME NEW s \in Stacks, Listening(c, s)
        PROVE  LoopTypeOK'
    BY <1>2 DEF LoopTypeOK, Listening
  <1>3. ASSUME NEW s \in Stacks, BindFails(c, s)
        PROVE  LoopTypeOK'
    <2> DEFINE bound == [stack[c] EXCEPT ![s] = "down"]
    <2>1. bound \in [Stacks -> {"closed", "pending", "listening", "down"}]
      BY DEF LoopTypeOK
    <2> QED
      BY <1>1, <1>3, <2>1 DEF LoopTypeOK, BindFails
  <1>4. ASSUME NEW d \in Commands, HandleCallback(d, c)
        PROVE  LoopTypeOK'
    BY <1>1, <1>4 DEF LoopTypeOK, HandleCallback
  <1>5. CASE CallbackTimeout(c)
    BY <1>1, <1>5 DEF LoopTypeOK, CallbackTimeout
  <1> QED
    BY <1>2, <1>3, <1>4, <1>5 DEF LoopNext

\* A command that saves goes on to delete its session, or ends.
LEMMA SaveEndsType ==
  ASSUME TypeOK, NEW c \in Commands, NEW b \in BOOLEAN, SaveEnds(c, b)
  PROVE  WorkDone
  BY Frames, GoType, EndType DEF SaveEnds, WorkDone, Stages, Over

\* The sign-in that a token comes from was made at a host.
LEMMA SignInHostIsHost ==
  ASSUME TypeOK, OwnerInv, NEW c \in Commands, token[c] # None
  PROVE  SignInHost(token[c]) \in Hosts
  <1>1. CASE token[c] = Old
    BY <1>1 DEF SignInHost, Hosts
  <1>2. CASE token[c] \in Commands
    <2>1. job[token[c]] \in Jobs /\ job[token[c]].op \in {"login", "print"}
      BY <1>2 DEF OwnerInv, SignedInBy, TypeOK, NoJob, Job
    <2> QED
      BY <1>2, <2>1, JobFacts, CredentialsAssumption DEF SignInHost, Hosts, SignInHosts
  <1> QED
    BY <1>1, <1>2 DEF TypeOK, WorkTypeOK

\* Every step keeps the types.
LEMMA TypeStep ==
  ASSUME IInv, NEW c \in Commands, Step(c)
  PROVE  TypeOK'
  <1>1. TypeOK /\ StageInv /\ GoodInv
    BY DEF IInv
  <1> USE <1>1, Frames
  <1>2. LoginJobs \cup PrintJobs \cup CompleteJobs \cup EditJobs \cup UseJobs \subseteq Jobs
    BY DEF Jobs
  <1>3. CASE BeginSignIn(c)
    <2>1. PICK j \in Jobs : Enter(c, j)
      BY <1>2, <1>3 DEF BeginSignIn
    <2>2. LoopTypeOK'
      BY <1>3 DEF BeginSignIn, StartLoopback, LoopTypeOK, TypeOK
    <2> QED
      BY <1>3, <2>1, <2>2, EnterType, GoType DEF TypeOK, BeginSignIn, Stages
  <1>4. CASE BeginComplete(c)
    <2>1. PICK j \in Jobs : Enter(c, j)
      BY <1>2, <1>4 DEF BeginComplete
    <2>2. WorkTypeOK' /\ pc' \in [Commands -> Stages]
      BY <1>4, GoType DEF BeginComplete, TypeOK, WorkTypeOK, FileTypeOK, Stages, Over
    <2> QED
      BY <1>4, <2>1, <2>2, EnterType DEF TypeOK, BeginComplete
  <1>5. CASE BeginKeyLogin(c)
    <2>1. PICK j \in {k \in LoginJobs : k.op = "key"} :
             /\ Enter(c, j)
             /\ \/ /\ \E h \in {j.endpoint} \cup (IF j.endpoint = "apex" THEN Route(j.ws) ELSE {}) :
                        host' = [host EXCEPT ![c] = h]
                   /\ Go(c, "load")
                \/ Go(c, "failed") /\ UNCHANGED host
      BY <1>5 DEF BeginKeyLogin
    <2>2. j \in Jobs /\ j.endpoint \in Hosts /\ j.ws \in Workspaces
      BY <1>2, <2>1, JobFacts DEF SignInHosts, Hosts, SignInOps
    <2>3. WorkTypeOK'
      BY <1>5, <2>1, <2>2, RouteFacts DEF BeginKeyLogin, TypeOK, WorkTypeOK
    <2>4. pc' \in [Commands -> Stages]
      BY <2>1, GoType DEF Stages, Over
    <2> QED
      BY <1>5, <2>1, <2>2, <2>3, <2>4, EnterType DEF TypeOK, BeginKeyLogin
  <1>6. CASE BeginUse(c)
    <2>1. PICK j \in UseJobs :
             LET chosen == resolveAuth([key |-> None, project |-> None, profile |-> j.profile, auto |-> j.auto], file)
             IN /\ Enter(c, j)
                /\ IF chosen = None
                     THEN Go(c, "failed") /\ UNCHANGED auth
                     ELSE Go(c, "list") /\ auth' = [auth EXCEPT ![c] = chosen]
      BY <1>6 DEF BeginUse
    <2>2. j \in Jobs /\ j.profile \in Flags /\ j.auto \in BOOLEAN
      BY <1>2, <2>1, JobFacts DEF UseJobs, Job
    <2>3. WorkTypeOK'
      BY <1>6, <2>1, <2>2, ResolveType DEF BeginUse, TypeOK, WorkTypeOK, FileTypeOK
    <2>4. pc' \in [Commands -> Stages]
      BY <2>1, GoType DEF Stages, Over
    <2> QED
      BY <1>6, <2>1, <2>2, <2>3, <2>4, EnterType DEF TypeOK, BeginUse
  <1>7. CASE BeginEdit(c)
    <2>1. PICK j \in Jobs : Enter(c, j)
      BY <1>2, <1>7 DEF BeginEdit
    <2> QED
      BY <1>7, <2>1, EnterType, GoType DEF TypeOK, BeginEdit, Stages
  <1>8. CASE Loopback(c)
    BY <1>8, LoopType DEF Loopback, TypeOK
  <1>9. CASE SignedIn(c)
    <2>1. WorkDone
      BY <1>9, FailType, GoType DEF SignedIn, WorkDone, TypeOK, WorkTypeOK, Stages
    <2> QED
      BY <1>9, <2>1 DEF SignedIn, WorkDone, TypeOK
  <1>10. CASE ListWorkspaces(c)
    <2>1. ASSUME job[c].op \in {"login", "complete"}, SameEnv(SignInHost(token[c]), job[c].ws),
                 NEW h \in MintHosts(SignInHost(token[c]), job[c].ws), host' = [host EXCEPT ![c] = h],
                 pc[c] = "list"
          PROVE  host' \in [Commands -> Hosts \cup {None}]
      <3>1. SignInHost(token[c]) \in Hosts
        BY <2>1, SignInHostIsHost DEF IInv, StageInv, Staged
      <3>2. job[c] \in Jobs
        BY <2>1 DEF TypeOK, NoJob, Job
      <3>3. job[c].ws \in Workspaces
        BY <2>1, <3>2, JobFacts DEF SignInOps
      <3> QED
        BY <2>1, <3>1, <3>3, MintHostFacts DEF TypeOK, WorkTypeOK
    <2>2. WorkDone
      BY <1>10, <2>1, FailType, GoType DEF ListWorkspaces, WorkDone, TypeOK, WorkTypeOK, Stages
    <2> QED
      BY <1>10, <2>2 DEF ListWorkspaces, WorkDone, TypeOK
  <1>11. CASE Mint(c)
    <2>1. WorkDone
      <3>1. CASE End(c, "failed") /\ unsure' = unsure \cup {c} /\ UNCHANGED <<crashes, overlapped>>
        BY <3>1, EndType DEF WorkDone, TypeOK, HistTypeOK, Over
      <3> QED
        BY <1>11, <3>1, FailType, GoType DEF Mint, WorkDone, TypeOK, Stages
    <2>2. minted' \in [Commands \cup {Old} -> Nat]
      BY <1>11 DEF Mint, TypeOK
    <2> QED
      BY <1>11, <2>1, <2>2 DEF Mint, WorkDone, TypeOK
  <1>12. CASE UnlinkTmp(c)
    BY <1>12, GoType DEF UnlinkTmp, TypeOK, FileTypeOK, Stages
  <1>13. CASE OpenTmp(c)
    <2>1. WorkDone /\ FileTypeOK'
      BY <1>13, FailType, GoType DEF OpenTmp, WorkDone, TypeOK, FileTypeOK, Stages
    <2> QED
      BY <1>13, <2>1 DEF OpenTmp, WorkDone, TypeOK
  <1>14. CASE FillTmp(c)
    <2>1. WorkDone /\ FileTypeOK'
      BY <1>14, FailType, GoType DEF FillTmp, WorkDone, TypeOK, FileTypeOK, Stages
    <2> QED
      BY <1>14, <2>1 DEF FillTmp, WorkDone, TypeOK
  <1>15. CASE RenameTmp(c)
    <2>1. WorkDone /\ FileTypeOK'
      BY <1>15, FailType, EndType DEF RenameTmp, WorkDone, TypeOK, FileTypeOK, Over
    <2> QED
      BY <1>15, <2>1 DEF RenameTmp, WorkDone, TypeOK
  <1>16. CASE LoadCredentials(c)
    <2> DEFINE new == Edited(c, file)
    <2>1. CASE new = None
      BY <1>16, <2>1, EndType DEF LoadCredentials, TypeOK, Over
    <2>2. CASE new # None
      <3>1. job[c] \in Jobs
        BY <1>16 DEF LoadCredentials, StageInv, Staged, TypeOK, NoJob, Job, SignInOps
      <3>2. new \in Contents
        BY <1>16, <2>2, <3>1, EditedFacts DEF LoadCredentials
      <3>3. WorkTypeOK' /\ pc' \in [Commands -> Stages]
        BY <1>16, <2>2, <3>2, GoType DEF LoadCredentials, TypeOK, WorkTypeOK, Stages
      <3> QED
        BY <1>16, <2>2, <3>3 DEF LoadCredentials, TypeOK
    <2> QED
      BY <2>1, <2>2
  <1>17. CASE RefreshRegion(c)
    <2>1. WorkDone
      <3> DEFINE p == Target(job[c])
                 e == content[c][p]
      <3>1. pc[c] = "route" /\ job[c].op = "refresh" /\ content[c] \in Contents /\ e # None
        BY <1>17 DEF RefreshRegion, StageInv, Staged, TypeOK, WorkTypeOK
      <3>2. job[c] \in Jobs /\ p \in Profiles
        BY <3>1, TargetIsProfile DEF TypeOK, NoJob, Job
      <3>3. e \in Entries
        BY <3>1, <3>2 DEF Contents
      <3>4. ASSUME NEW h \in Route(e.ws)
            PROVE  [content[c] EXCEPT ![p] = Moved(e, h)] \in Contents
        BY <3>1, <3>3, <3>4, RouteFacts, MovedFacts DEF Contents, Entries
      <3> QED
        BY <1>17, <3>4, FailType, EndType, GoType
        DEF RefreshRegion, WorkDone, TypeOK, WorkTypeOK, Stages, Over
    <2> QED
      BY <1>17, <2>1 DEF RefreshRegion, WorkDone, TypeOK
  <1>18. CASE TruncateCredentials(c)
    <2>1. WorkDone /\ FileTypeOK'
      BY <1>18, SaveEndsType, GoType DEF TruncateCredentials, WorkDone, TypeOK, FileTypeOK, Stages, Unreadable
    <2> QED
      BY <1>18, <2>1 DEF TruncateCredentials, WorkDone, TypeOK
  <1>19. CASE WriteCredentials(c)
    <2>1. content[c] \in Contents
      BY <1>19 DEF WriteCredentials, StageInv, Staged, TypeOK, WorkTypeOK
    <2>2. WorkDone /\ FileTypeOK'
      BY <1>19, <2>1, SaveEndsType DEF WriteCredentials, WorkDone, TypeOK, FileTypeOK, Unreadable
    <2> QED
      BY <1>19, <2>2 DEF WriteCredentials, WorkDone, TypeOK
  <1>20. CASE ForgetSession(c)
    BY <1>20, EndType DEF ForgetSession, TypeOK, FileTypeOK, Over
  <1>21. CASE Crash(c)
    <2>1. LoopTypeOK'
      BY <1>21 DEF Crash, TypeOK, LoopTypeOK, AllClosed
    <2>2. HistTypeOK'
      BY <1>21, EndType, CredentialsAssumption DEF Crash, TypeOK, HistTypeOK, Over
    <2> QED
      BY <1>21, <2>1, <2>2, EndType DEF Crash, TypeOK, Over
  <1> QED
    BY <1>3, <1>4, <1>5, <1>6, <1>7, <1>8, <1>9, <1>10, <1>11, <1>12, <1>13, <1>14, <1>15, <1>16,
       <1>17, <1>18, <1>19, <1>20, <1>21 DEF Step

-----------------------------------------------------------------------------
(* What a step of one command does to the state of the others: nothing, but  *)
(* for the files they share and what is recorded of overlaps.                *)

\* A command that begins has a job from then on.
LEMMA EnterOwn ==
  ASSUME TypeOK, NEW c \in Commands, NEW j \in Jobs, Enter(c, j), NEW d \in Commands \ {c}
  PROVE  job'[d] = job[d] /\ job'[c] = j /\ pc[c] = "new"
  BY DEF TypeOK, Enter

\* d is where it was, with what it had.
Untouched(d) ==
  /\ pc'[d] = pc[d] /\ job'[d] = job[d]
  /\ host'[d] = host[d] /\ content'[d] = content[d] /\ token'[d] = token[d]

\* A step of c leaves what the other commands hold as it is.
LEMMA OnlyOwn ==
  ASSUME IInv, NEW c \in Commands, Step(c), NEW d \in Commands \ {c}
  PROVE  Untouched(d)
  <1> USE DEF Untouched
  <1>1. TypeOK /\ WorkTypeOK /\ pc \in [Commands -> Stages]
    BY DEF IInv, TypeOK
  <1>2. LoginJobs \cup PrintJobs \cup CompleteJobs \cup EditJobs \cup UseJobs \subseteq Jobs
    BY DEF Jobs
  <1>3. CASE BeginSignIn(c) \/ BeginComplete(c) \/ BeginKeyLogin(c) \/ BeginUse(c) \/ BeginEdit(c)
    <2>1. \E j \in Jobs : Enter(c, j)
      BY <1>2, <1>3 DEF BeginSignIn, BeginComplete, BeginKeyLogin, BeginUse, BeginEdit
    <2>2. job'[d] = job[d]
      BY <1>1, <2>1, EnterOwn
    <2>3. pc'[d] = pc[d]
      BY <1>1, <1>3 DEF BeginSignIn, BeginComplete, BeginKeyLogin, BeginUse, BeginEdit, Go
    <2>4. host'[d] = host[d] /\ content'[d] = content[d] /\ token'[d] = token[d]
      BY <1>1, <1>3 DEF BeginSignIn, BeginComplete, BeginKeyLogin, BeginUse, BeginEdit, workVars, WorkTypeOK
    <2> QED
      BY <2>2, <2>3, <2>4
  <1>4. CASE Loopback(c)
    BY <1>4 DEF Loopback, workVars
  <1>5. CASE SignedIn(c) \/ ListWorkspaces(c)
    BY <1>1, <1>5 DEF SignedIn, ListWorkspaces, Fail, End, Go, workVars, WorkTypeOK
  <1>6. CASE Mint(c)
    BY <1>1, <1>6 DEF Mint, Fail, End, Go, workVars, WorkTypeOK
  <1>7. CASE UnlinkTmp(c) \/ OpenTmp(c) \/ FillTmp(c) \/ RenameTmp(c)
    BY <1>1, <1>7 DEF UnlinkTmp, OpenTmp, FillTmp, RenameTmp, Fail, End, Go, workVars, WorkTypeOK
  <1>8. CASE LoadCredentials(c) \/ RefreshRegion(c)
    BY <1>1, <1>8 DEF LoadCredentials, RefreshRegion, Fail, End, Go, workVars, WorkTypeOK
  <1>9. CASE TruncateCredentials(c) \/ WriteCredentials(c)
    BY <1>1, <1>9 DEF TruncateCredentials, WriteCredentials, SaveEnds, End, Go, workVars, WorkTypeOK
  <1>10. CASE ForgetSession(c) \/ Crash(c)
    BY <1>1, <1>10 DEF ForgetSession, Crash, End, Go, WorkTypeOK
  <1> QED
    BY <1>3, <1>4, <1>5, <1>6, <1>7, <1>8, <1>9, <1>10 DEF Step

\* A job is given to a command that has none, and not taken back.
LEMMA JobStep ==
  ASSUME IInv, NEW c \in Commands, Step(c)
  PROVE  job'[c] = job[c] \/ (pc[c] = "new" /\ job'[c] \in Jobs)
  <1>1. LoginJobs \cup PrintJobs \cup CompleteJobs \cup EditJobs \cup UseJobs \subseteq Jobs
    BY DEF Jobs
  <1>2. CASE BeginSignIn(c) \/ BeginComplete(c) \/ BeginKeyLogin(c) \/ BeginUse(c) \/ BeginEdit(c)
    <2>1. \E j \in Jobs : Enter(c, j)
      BY <1>1, <1>2 DEF BeginSignIn, BeginComplete, BeginKeyLogin, BeginUse, BeginEdit
    <2> QED
      BY <2>1 DEF Enter, IInv, TypeOK
  <1>3. CASE job' = job
    BY <1>3
  <1> QED
    BY <1>2, <1>3 DEF Step, Loopback, SignedIn, ListWorkspaces, Mint, UnlinkTmp, OpenTmp, FillTmp, RenameTmp,
       LoadCredentials, RefreshRegion, TruncateCredentials, WriteCredentials, ForgetSession, Crash

\* No step makes a command one that has not begun.
LEMMA Begun ==
  ASSUME IInv, NEW c \in Commands, Step(c), pc[c] # "new" \/ pc' # pc
  PROVE  pc'[c] # "new"
  <1>1. pc' = pc \/ \E s \in Stages \ {"new"} : Go(c, s)
    BY DEF Step, BeginSignIn, BeginComplete, BeginKeyLogin, BeginUse, BeginEdit, Loopback, SignedIn,
       ListWorkspaces, Mint, UnlinkTmp, OpenTmp, FillTmp, RenameTmp, LoadCredentials, RefreshRegion,
       TruncateCredentials, WriteCredentials, SaveEnds, ForgetSession, Crash, Fail, End, Stages, Over
  <1> QED
    BY <1>1 DEF Go, IInv, TypeOK

-----------------------------------------------------------------------------
(* Sessions and tokens keep coming from sign-ins. *)

\* Every step keeps it that sessions and tokens come from sign-ins.
LEMMA OwnerStep ==
  ASSUME IInv, NEW c \in Commands, Step(c)
  PROVE  OwnerInv'
  <1>1. TypeOK /\ OwnerInv /\ StageInv
    BY DEF IInv
  <1>2. ASSUME NEW d \in Commands, pc'[d] = "new"
        PROVE  job'[d] = NoJob
    <2>1. CASE d = c
      <3>1. pc[c] = "new" /\ pc' = pc
        BY <1>2, <2>1, Begun
      <3>2. \A s \in Stages \ {"new"} : ~Go(c, s)
        BY <1>1, <1>2, <2>1, <3>1 DEF Go, TypeOK
      <3>3. job' = job
        BY <3>2 DEF Step, BeginSignIn, BeginComplete, BeginKeyLogin, BeginUse, BeginEdit, Loopback, SignedIn,
           ListWorkspaces, Mint, UnlinkTmp, OpenTmp, FillTmp, RenameTmp, LoadCredentials, RefreshRegion,
           TruncateCredentials, WriteCredentials, ForgetSession, Crash, Stages, Over
      <3> QED
        BY <1>1, <2>1, <3>1, <3>3 DEF OwnerInv
    <2>2. CASE d # c
      BY <1>1, <1>2, <2>2, OnlyOwn DEF OwnerInv, Untouched
    <2> QED
      BY <2>1, <2>2
  <1>3. ASSUME NEW t, SignedInBy(t)
        PROVE  SignedInBy(t)'
    <2>1. CASE t = c
      <3>1. pc[c] # "new"
        BY <1>1, <1>3, <2>1 DEF OwnerInv, SignedInBy, NoJob, Job
      <3> QED
        BY <1>3, <2>1, <3>1, JobStep DEF SignedInBy
    <2>2. CASE t # c
      BY <1>3, <2>2, OnlyOwn DEF SignedInBy, Untouched
    <2> QED
      BY <2>1, <2>2
  <1>4. pc[c] \in {"oauth", "open"} => SignedInBy(c)
    BY <1>1 DEF StageInv, Staged, SignedInBy
  <1>5. /\ session' \in {session, tmp, None}
        /\ tmp' \in {tmp, None} \/ (tmp' = c /\ pc[c] = "open")
        /\ token'[c] \in {token[c], session} \/ (token'[c] = c /\ pc[c] = "oauth")
    <2>1. CASE BeginSignIn(c) \/ BeginComplete(c) \/ BeginKeyLogin(c) \/ BeginUse(c) \/ BeginEdit(c)
      BY <1>1, <2>1 DEF BeginSignIn, BeginComplete, BeginKeyLogin, BeginUse, BeginEdit, fileVars, workVars,
         TypeOK, WorkTypeOK
    <2>2. CASE Loopback(c) \/ SignedIn(c) \/ ListWorkspaces(c) \/ Mint(c)
      BY <1>1, <2>2 DEF Loopback, SignedIn, ListWorkspaces, Mint, Fail, End, fileVars, workVars,
         TypeOK, WorkTypeOK
    <2>3. CASE UnlinkTmp(c) \/ OpenTmp(c) \/ FillTmp(c) \/ RenameTmp(c)
      BY <2>3 DEF UnlinkTmp, OpenTmp, FillTmp, RenameTmp, Fail, End, workVars
    <2>4. CASE LoadCredentials(c) \/ RefreshRegion(c) \/ TruncateCredentials(c) \/ WriteCredentials(c)
      BY <2>4 DEF LoadCredentials, RefreshRegion, TruncateCredentials, WriteCredentials, SaveEnds, Fail, End,
         fileVars, workVars
    <2>5. CASE ForgetSession(c) \/ Crash(c)
      BY <2>5 DEF ForgetSession, Crash, End, fileVars
    <2> QED
      BY <2>1, <2>2, <2>3, <2>4, <2>5 DEF Step
  <1>6. SignedInBy(None)
    BY CredentialsAssumption DEF SignedInBy
  <1>7. \A t \in {session, tmp, None, token[c]} : SignedInBy(t)'
    BY <1>1, <1>3, <1>6 DEF OwnerInv
  <1>8. pc[c] \in {"oauth", "open"} => SignedInBy(c)'
    BY <1>3, <1>4
  <1>9. SignedInBy(session)' /\ SignedInBy(tmp)' /\ SignedInBy(token[c])'
    BY <1>5, <1>7, <1>8 DEF SignedInBy
  <1>10. ASSUME NEW d \in Commands
         PROVE  SignedInBy(token[d])'
    BY <1>1, <1>3, <1>9, OnlyOwn DEF OwnerInv, SignedInBy, Untouched
  <1> QED
    BY <1>2, <1>9, <1>10 DEF OwnerInv

-----------------------------------------------------------------------------
(* What a command has at each stage. *)

\* Every step leaves a command with what its next stage needs.
LEMMA StageStep ==
  ASSUME IInv, NEW c \in Commands, Step(c)
  PROVE  StageInv'
  <1>1. TypeOK /\ WorkTypeOK /\ Staged(c) /\ pc \in [Commands -> Stages] /\ GoodInv /\ StageInv
    BY DEF IInv, StageInv, TypeOK
  <1>2. ASSUME NEW d \in Commands \ {c}
        PROVE  Staged(d)'
    <2>1. Untouched(d) /\ Staged(d)
      BY OnlyOwn DEF IInv, StageInv
    <2> QED
      BY <2>1 DEF Untouched, Staged, Target
  <1>3. ASSUME NEW r \in Over, End(c, r)
        PROVE  Staged(c)'
    BY <1>1, <1>3 DEF End, Go, Staged, Over
  <1>4. ASSUME Fail(c)
        PROVE  Staged(c)'
    BY <1>3, <1>4 DEF Fail, Over
  <1>5. ASSUME NEW b \in BOOLEAN, SaveEnds(c, b)
        PROVE  Staged(c)'
    BY <1>1, <1>3, <1>5 DEF SaveEnds, Go, Staged, Over
  <1>6. ASSUME NEW j \in Jobs, Enter(c, j)
        PROVE  job'[c] = j
    BY <1>1, <1>6 DEF Enter, TypeOK
  <1>a. SUFFICES Staged(c)'
    BY <1>2 DEF StageInv
  <1>7. CASE BeginSignIn(c)
    <2>1. PICK j \in {k \in LoginJobs : k.op = "login"} \cup PrintJobs : Enter(c, j)
      BY <1>7 DEF BeginSignIn
    <2>2. j \in Jobs /\ j.op \in {"login", "print"}
      BY <2>1 DEF Jobs, PrintJobs, Job
    <2> QED
      BY <1>1, <1>6, <1>7, <2>1, <2>2 DEF BeginSignIn, Go, Staged
  <1>8. CASE BeginComplete(c)
    <2>1. PICK j \in CompleteJobs : Enter(c, j)
      BY <1>8 DEF BeginComplete
    <2>2. j \in Jobs /\ j.op = "complete"
      BY <2>1 DEF Jobs, CompleteJobs, Job
    <2>3. job'[c] = j /\ job'[c].op = "complete"
      BY <1>6, <2>1, <2>2
    <2>4. \/ pc'[c] = "failed"
          \/ pc'[c] = "list" /\ token'[c] = session /\ session # None
      BY <1>1, <1>8 DEF BeginComplete, Go, WorkTypeOK
    <2> QED
      BY <2>3, <2>4 DEF Staged
  <1>9. CASE BeginKeyLogin(c)
    <2>1. PICK j \in {k \in LoginJobs : k.op = "key"} :
             /\ Enter(c, j)
             /\ \/ /\ \E h \in {j.endpoint} \cup (IF j.endpoint = "apex" THEN Route(j.ws) ELSE {}) :
                        host' = [host EXCEPT ![c] = h]
                   /\ Go(c, "load")
                \/ Go(c, "failed") /\ UNCHANGED host
      BY <1>9 DEF BeginKeyLogin
    <2>2. j \in Jobs /\ j.op = "key" /\ j.endpoint \in Hosts /\ j.ws \in Workspaces
      BY <2>1, JobFacts DEF Jobs, SignInHosts, Hosts, SignInOps
    <2>3. Go(c, "load") => host'[c] # None
      BY <1>1, <2>1, <2>2, RouteFacts, CredentialsAssumption DEF WorkTypeOK, Go
    <2> QED
      BY <1>1, <1>6, <2>1, <2>2, <2>3 DEF Go, Staged, SignInOps
  <1>10. CASE BeginUse(c)
    <2>1. PICK j \in UseJobs : Enter(c, j)
      BY <1>10 DEF BeginUse
    <2>2. j \in Jobs /\ j.op = "use"
      BY <2>1 DEF Jobs, UseJobs, Job
    <2> QED
      BY <1>1, <1>6, <1>10, <2>1, <2>2 DEF BeginUse, Go, Staged
  <1>11. CASE BeginEdit(c)
    <2>1. PICK j \in EditJobs : Enter(c, j)
      BY <1>11 DEF BeginEdit
    <2>2. j \in Jobs /\ j.op \in {"logout", "refresh"}
      BY <2>1 DEF Jobs, EditJobs, Job
    <2> QED
      BY <1>1, <1>6, <1>11, <2>1, <2>2 DEF BeginEdit, Go, Staged, SignInOps
  <1>12. CASE Loopback(c)
    BY <1>1, <1>12 DEF Loopback, workVars, Staged, Target
  <1>13. CASE SignedIn(c)
    BY <1>1, <1>4, <1>13, CredentialsAssumption DEF SignedIn, Go, Staged, WorkTypeOK
  <1>14. CASE ListWorkspaces(c)
    <2>1. ASSUME job[c].op \in {"login", "complete"}, SameEnv(SignInHost(token[c]), job[c].ws),
                 NEW h \in MintHosts(SignInHost(token[c]), job[c].ws), pc[c] = "list"
          PROVE  h # None
      <3>1. SignInHost(token[c]) \in Hosts
        BY <1>1, <2>1, SignInHostIsHost DEF IInv, Staged
      <3>2. job[c].ws \in Workspaces
        BY <1>1, <2>1, JobFacts DEF SignInOps, TypeOK, NoJob, Job
      <3> QED
        BY <2>1, <3>1, <3>2, MintHostFacts, CredentialsAssumption
    <2> QED
      BY <1>1, <1>4, <1>14, <2>1 DEF ListWorkspaces, Go, Staged, WorkTypeOK, SignInOps, workVars
  <1>15. CASE Mint(c)
    BY <1>1, <1>3, <1>4, <1>15 DEF Mint, Go, Staged, workVars, SignInOps, Over
  <1>16. CASE UnlinkTmp(c) \/ OpenTmp(c) \/ FillTmp(c)
    BY <1>1, <1>4, <1>16 DEF UnlinkTmp, OpenTmp, FillTmp, Go, Staged, workVars
  <1>17. CASE RenameTmp(c)
    BY <1>3, <1>4, <1>17 DEF RenameTmp, Over
  <1>18. CASE LoadCredentials(c)
    <2> DEFINE new == Edited(c, file)
    <2>1. CASE new = None
      BY <1>3, <1>18, <2>1 DEF LoadCredentials, Over
    <2>2. CASE new # None
      <3>1. job[c] \in Jobs
        BY <1>1, <1>18 DEF LoadCredentials, Staged, TypeOK, NoJob, Job, SignInOps
      <3>2. new \in Contents /\ (job[c].op = "refresh" => new[Target(job[c])] # None)
        BY <1>1, <1>18, <2>2, <3>1, EditedFacts DEF LoadCredentials
      <3>3. content'[c] = new /\ job'[c] = job[c]
            /\ pc'[c] = IF job[c].op = "refresh" THEN "route" ELSE "truncate"
        BY <1>1, <1>18, <2>2 DEF LoadCredentials, Go, WorkTypeOK
      <3> QED
        BY <2>2, <3>2, <3>3 DEF Staged, Target
    <2> QED
      BY <2>1, <2>2
  <1>19. CASE RefreshRegion(c)
    <2> DEFINE p == Target(job[c])
               e == content[c][p]
               moved(h) == [content[c] EXCEPT ![p] = Moved(e, h)]
    <2>2. pc[c] = "route" /\ content[c] \in Contents /\ e # None /\ job[c].op = "refresh"
      BY <1>1, <1>19 DEF RefreshRegion, Staged, TypeOK, WorkTypeOK
    <2>3. p \in Profiles
      BY <2>2, TargetIsProfile DEF IInv, TypeOK, NoJob, Job
    <2>4. e \in Entries
      BY <2>2, <2>3 DEF Contents
    <2>5. ASSUME NEW h \in Route(e.ws)
          PROVE  moved(h) # None
      <3>1. moved(h) \in Contents
        BY <2>2, <2>4, RouteFacts, MovedFacts DEF Contents, Entries
      <3> QED
        BY <3>1, FileAssumption
    <2>6. ASSUME NEW v, content' = [content EXCEPT ![c] = v], Go(c, "truncate"), v # None
          PROVE  Staged(c)'
      BY <1>1, <2>6 DEF Staged, Go, WorkTypeOK
    <2>7. \/ \E r \in Over : End(c, r)
          \/ Go(c, "truncate") /\ \E h \in Route(e.ws) : content' = [content EXCEPT ![c] = moved(h)]
          \/ Fail(c)
      BY <1>1, <1>19 DEF RefreshRegion, Over, TypeOK, WorkTypeOK
    <2> HIDE DEF moved
    <2> QED
      BY <1>3, <1>4, <2>5, <2>6, <2>7
  <1>20. CASE TruncateCredentials(c)
    BY <1>1, <1>5, <1>20 DEF TruncateCredentials, Go, Staged, workVars
  <1>21. CASE WriteCredentials(c)
    BY <1>5, <1>21 DEF WriteCredentials
  <1>22. CASE ForgetSession(c) \/ Crash(c)
    BY <1>3, <1>22 DEF ForgetSession, Crash, Over
  <1> QED
    BY <1>7, <1>8, <1>9, <1>10, <1>11, <1>12, <1>13, <1>14, <1>15, <1>16, <1>17, <1>18, <1>19, <1>20,
       <1>21, <1>22 DEF Step

-----------------------------------------------------------------------------
(* No sign-in's profile is a wrong one. *)

\* credentials.json is emptied, garbled, or gets what the command holds.
LEMMA FileStep ==
  ASSUME IInv, NEW c \in Commands, Step(c)
  PROVE  \/ file' \in {file, Emptied, Garbled}
         \/ pc[c] = "write" /\ file' = content[c] /\ content[c] \in Contents
  <1>1. CASE BeginSignIn(c) \/ BeginComplete(c) \/ BeginKeyLogin(c) \/ BeginUse(c) \/ BeginEdit(c)
    BY <1>1 DEF BeginSignIn, BeginComplete, BeginKeyLogin, BeginUse, BeginEdit, fileVars
  <1>2. CASE TruncateCredentials(c)
    BY <1>2 DEF TruncateCredentials
  <1>3. CASE WriteCredentials(c)
    <2>1. pc[c] = "write" /\ file' \in {content[c], Garbled}
      BY <1>3 DEF WriteCredentials
    <2>2. content[c] \in Contents
      BY <2>1 DEF IInv, StageInv, Staged, TypeOK, WorkTypeOK
    <2> QED
      BY <2>1, <2>2
  <1> QED
    BY <1>1, <1>2, <1>3 DEF Step, Loopback, SignedIn, ListWorkspaces, Mint, UnlinkTmp, OpenTmp, FillTmp,
       RenameTmp, LoadCredentials, RefreshRegion, ForgetSession, Crash, fileVars

\* A sign-in that has given a token keeps its host.
LEMMA SignInHostStays ==
  ASSUME IInv, NEW c \in Commands, Step(c), NEW t \in Commands \cup {Old}, SignedInBy(t)
  PROVE  SignInHost(t)' = SignInHost(t)
  <1>1. CASE t = Old
    BY <1>1 DEF SignInHost
  <1>2. CASE t \in Commands
    <2>1. pc[t] # "new"
      BY <1>2 DEF IInv, OwnerInv, SignedInBy, NoJob, Job
    <2>2. job'[t] = job[t]
      BY <1>2, <2>1, JobStep, OnlyOwn DEF Untouched
    <2> QED
      BY <2>2 DEF SignInHost
  <1> QED
    BY <1>1, <1>2

\* No step mints, holds or saves across environments.
LEMMA GoodStep ==
  ASSUME IInv, NEW c \in Commands, Step(c)
  PROVE  GoodInv'
  <1>1. TypeOK /\ WorkTypeOK /\ Staged(c) /\ StageInv /\ GoodInv /\ GoodWork(c) /\ OwnerInv
    BY DEF IInv, StageInv, GoodInv, TypeOK
  <1>2. GoodContents(LoadOrEmpty(file))'
    <2>1. ASSUME NEW f, f \in Unreadable
          PROVE  GoodContents(LoadOrEmpty(f))
      BY <2>1 DEF LoadOrEmpty, GoodContents, NoProfiles, GoodEntry
    <2>2. ASSUME content[c] \in Contents
          PROVE  GoodContents(LoadOrEmpty(content[c]))
      BY <1>1, <2>2, FileAssumption, LoadFacts DEF GoodWork
    <2>3. GoodContents(LoadOrEmpty(file'))
      BY <1>1, <2>1, <2>2, FileStep DEF Unreadable, GoodInv
    <2> QED
      BY <2>3 DEF GoodContents, GoodEntry, LoadOrEmpty, Serves, SameEnv, EnvOf
  <1>3. ASSUME NEW d \in Commands, token'[d] = token[d], token[d] # None
        PROVE  SignInHost(token[d])' = SignInHost(token[d])
    <2>1. token[d] \in Commands \cup {Old} /\ SignedInBy(token[d])
      BY <1>1, <1>3 DEF WorkTypeOK, OwnerInv
    <2>2. PICK t \in Commands \cup {Old} : t = token[d] /\ SignedInBy(t)
      BY <2>1
    <2>3. SignInHost(t)' = SignInHost(t)
      BY <2>2, SignInHostStays
    <2> QED
      BY <1>3, <2>2, <2>3 DEF SignInHost
  <1>4. ASSUME NEW d \in Commands, Untouched(d)
        PROVE  GoodWork(d)'
    <2>1. Staged(d) /\ GoodWork(d)
      BY <1>1 DEF StageInv, GoodInv
    <2>2. pc[d] = "mint" => SignInHost(token[d])' = SignInHost(token[d])
      BY <1>3, <1>4, <2>1 DEF Staged, Untouched
    <2> QED
      BY <1>4, <2>1, <2>2 DEF GoodWork, GoodContents, GoodEntry, Untouched, Serves, SameEnv, EnvOf
  <1>5. SUFFICES GoodWork(c)'
    BY <1>2, <1>4, OnlyOwn DEF GoodInv
  <1>6. ASSUME NEW s \in Stages \ {"mint", "load"}, pc'[c] = s, content'[c] \in {content[c], None}
        PROVE  GoodWork(c)'
    BY <1>1, <1>6 DEF GoodWork, GoodContents, GoodEntry, Serves, SameEnv, EnvOf
  <1>7. ASSUME NEW r \in Over, End(c, r)
        PROVE  GoodWork(c)'
    BY <1>1, <1>6, <1>7 DEF End, Go, Over, Stages, TypeOK, WorkTypeOK
  <1>8. ASSUME NEW s \in Stages \ {"mint", "load"}, Go(c, s), UNCHANGED content
        PROVE  GoodWork(c)'
    BY <1>1, <1>6, <1>8 DEF Go, TypeOK
  <1>9. ASSUME Fail(c)
        PROVE  GoodWork(c)'
    BY <1>7, <1>9 DEF Fail, Over
  <1>10. ASSUME NEW b \in BOOLEAN, SaveEnds(c, b)
         PROVE  GoodWork(c)'
    BY <1>7, <1>8, <1>10 DEF SaveEnds, workVars, Stages, Over
  <1>11. CASE BeginSignIn(c)
    BY <1>8, <1>11 DEF BeginSignIn, workVars, Stages
  <1>12. CASE BeginComplete(c)
    BY <1>8, <1>12 DEF BeginComplete, Stages, Over
  <1>13. CASE BeginKeyLogin(c)
    <2>1. PICK j \in {k \in LoginJobs : k.op = "key"} :
             /\ Enter(c, j)
             /\ \/ /\ Serves(j.endpoint, j.ws)
                   /\ \E h \in {j.endpoint} \cup (IF j.endpoint = "apex" THEN Route(j.ws) ELSE {}) :
                        host' = [host EXCEPT ![c] = h]
                   /\ Go(c, "load")
                \/ Go(c, "failed") /\ UNCHANGED host
      BY <1>13 DEF BeginKeyLogin
    <2>2. j \in Jobs /\ j.ws \in Workspaces
      BY <2>1, JobFacts DEF Jobs, SignInOps
    <2>3. job'[c] = j
      BY <1>1, <2>1, <2>2, EnterOwn DEF Enter, TypeOK
    <2>4. CASE Go(c, "failed")
      BY <1>8, <1>13, <2>4 DEF BeginKeyLogin, Stages, Over
    <2>5. CASE Go(c, "load")
      <3>1. PICK h \in {j.endpoint} \cup (IF j.endpoint = "apex" THEN Route(j.ws) ELSE {}) :
               host' = [host EXCEPT ![c] = h] /\ Serves(j.endpoint, j.ws)
        BY <1>1, <2>1, <2>5 DEF Go, TypeOK
      <3>2. Serves(h, j.ws)
        <4>1. CASE h = j.endpoint
          BY <3>1, <4>1
        <4>2. CASE j.endpoint = "apex" /\ h \in Route(j.ws)
          BY <2>2, <3>1, <4>2, RouteFacts, CredentialsAssumption DEF Serves
        <4> QED
          BY <3>1, <4>1, <4>2
      <3>3. pc'[c] = "load" /\ host'[c] = h /\ content'[c] = content[c]
        BY <1>1, <1>13, <2>5, <3>1 DEF BeginKeyLogin, Go, TypeOK, WorkTypeOK
      <3> QED
        BY <1>1, <2>3, <3>2, <3>3 DEF GoodWork, GoodContents, GoodEntry, Serves, SameEnv, EnvOf
    <2> QED
      BY <2>1, <2>4, <2>5
  <1>14. CASE BeginUse(c)
    BY <1>8, <1>14 DEF BeginUse, Stages, Over
  <1>15. CASE BeginEdit(c)
    <2>1. PICK j \in EditJobs : Enter(c, j)
      BY <1>15 DEF BeginEdit
    <2>2. j \in Jobs /\ j.op \in {"logout", "refresh"}
      BY <2>1 DEF Jobs, EditJobs, Job
    <2>3. job'[c] = j /\ pc'[c] = "load" /\ content' = content
      BY <1>1, <1>15, <2>1, <2>2 DEF BeginEdit, Enter, Go, TypeOK, workVars
    <2> QED
      BY <1>1, <2>2, <2>3 DEF GoodWork, GoodContents, GoodEntry, Serves, SameEnv, EnvOf, SignInOps
  <1>16. CASE Loopback(c)
    BY <1>4, <1>16 DEF Loopback, workVars, Untouched
  <1>17. CASE SignedIn(c)
    BY <1>8, <1>9, <1>17 DEF SignedIn, Stages
  <1>18. CASE ListWorkspaces(c)
    <2>1. CASE Go(c, "unlink") /\ UNCHANGED content
      BY <1>8, <2>1 DEF Stages
    <2>2. ASSUME pc[c] = "list", job[c].op \in {"login", "complete"}, UNCHANGED <<content, token, job>>,
                 SameEnv(SignInHost(token[c]), job[c].ws), Go(c, "mint"),
                 NEW h \in MintHosts(SignInHost(token[c]), job[c].ws), host' = [host EXCEPT ![c] = h]
          PROVE  GoodWork(c)'
      <3>1. token[c] # None /\ SignInHost(token[c]) \in Hosts
        BY <1>1, <2>2, SignInHostIsHost DEF Staged
      <3>2. job[c].ws \in Workspaces
        BY <1>1, <2>2, JobFacts DEF SignInOps, TypeOK, NoJob, Job
      <3>3. EnvOf(h) = EnvOf(SignInHost(token[c]))
        BY <2>2, <3>1, <3>2, MintHostFacts
      <3>4. pc'[c] = "mint" /\ host'[c] = h /\ SignInHost(token[c])' = SignInHost(token[c])
        BY <1>1, <1>3, <2>2, <3>1 DEF Go, TypeOK, WorkTypeOK
      <3> QED
        BY <1>1, <2>2, <3>3, <3>4 DEF GoodWork, GoodContents, GoodEntry, Serves, SameEnv, EnvOf
    <2>3. CASE job[c].op = "use" /\ Go(c, "load") /\ UNCHANGED <<content, job>>
      <3>1. pc'[c] = "load"
        BY <1>1, <2>3 DEF Go, TypeOK
      <3> QED
        BY <1>1, <2>3, <3>1 DEF GoodWork, GoodContents, GoodEntry, Serves, SameEnv, EnvOf, SignInOps
    <2> QED
      BY <1>9, <1>18, <2>1, <2>2, <2>3 DEF ListWorkspaces, workVars
  <1>19. CASE Mint(c)
    <2>1. CASE Go(c, "load") /\ Serves(host[c], job[c].ws) /\ UNCHANGED <<content, host, job>>
      <3>1. pc'[c] = "load"
        BY <1>1, <2>1 DEF Go, TypeOK
      <3> QED
        BY <1>1, <2>1, <3>1 DEF GoodWork, GoodContents, GoodEntry, Serves, SameEnv, EnvOf
    <2> QED
      BY <1>7, <1>9, <1>19, <2>1 DEF Mint, workVars, Over
  <1>20. CASE UnlinkTmp(c) \/ OpenTmp(c) \/ FillTmp(c)
    BY <1>8, <1>9, <1>20 DEF UnlinkTmp, OpenTmp, FillTmp, workVars, Stages
  <1>21. CASE RenameTmp(c)
    BY <1>7, <1>9, <1>21 DEF RenameTmp, Over
  <1>22. ASSUME NEW new, GoodContents(new), content' = [content EXCEPT ![c] = new],
                NEW s \in Stages \ {"mint", "load"}, Go(c, s)
         PROVE  GoodWork(c)'
    <2>1. content'[c] = new /\ pc'[c] = s
      BY <1>1, <1>22 DEF Go, TypeOK, WorkTypeOK
    <2> QED
      BY <1>22, <2>1 DEF GoodWork, GoodContents, GoodEntry, Serves, SameEnv, EnvOf
  <1>23. CASE LoadCredentials(c)
    <2>1. pc[c] = "load" /\ job[c] \in Jobs
      BY <1>1, <1>23 DEF LoadCredentials, Staged, TypeOK, NoJob, Job, SignInOps
    <2>2. CASE Edited(c, file) = None
      BY <1>7, <1>23, <2>2 DEF LoadCredentials, Over
    <2>3. CASE Edited(c, file) # None
      <3>1. GoodContents(Edited(c, file))
        BY <1>1, <2>1, <2>3, EditedFacts
      <3> QED
        BY <1>22, <1>23, <2>3, <3>1 DEF LoadCredentials, Stages
    <2> QED
      BY <2>2, <2>3
  <1>24. CASE RefreshRegion(c)
    <2> DEFINE p == Target(job[c])
               e == content[c][p]
    <2>1. pc[c] = "route" /\ content[c] \in Contents /\ e # None /\ job[c].op = "refresh"
      BY <1>1, <1>24 DEF RefreshRegion, Staged, TypeOK, WorkTypeOK
    <2>2. p \in Profiles
      BY <1>1, <2>1, TargetIsProfile DEF TypeOK, NoJob, Job
    <2>3. e \in Entries
      BY <2>1, <2>2 DEF Contents
    <2>4. ASSUME NEW h \in Route(e.ws)
          PROVE  GoodContents([content[c] EXCEPT ![p] = Moved(e, h)])
      <3>1. GoodEntry(Moved(e, h))
        BY <2>3, RouteFacts, MovedFacts DEF Entries
      <3> QED
        BY <1>1, <2>1, <2>2, <3>1, FileAssumption DEF GoodContents, Contents, GoodWork
    <2> QED
      BY <1>7, <1>9, <1>22, <1>24, <2>4 DEF RefreshRegion, Over, Stages
  <1>25. CASE TruncateCredentials(c) \/ WriteCredentials(c)
    BY <1>8, <1>10, <1>25 DEF TruncateCredentials, WriteCredentials, workVars, Stages
  <1>26. CASE ForgetSession(c) \/ Crash(c)
    BY <1>7, <1>26 DEF ForgetSession, Crash, Over
  <1> QED
    BY <1>11, <1>12, <1>13, <1>14, <1>15, <1>16, <1>17, <1>18, <1>19, <1>20, <1>21, <1>23, <1>24, <1>25,
       <1>26 DEF Step

-----------------------------------------------------------------------------
(* A command that overlaps no other finds the file as it left it. *)

\* A command that runs has not just begun, and one that is over does nothing but
\* close what it listened on.
LEMMA Moves ==
  ASSUME IInv, NEW c \in Commands, Step(c)
  PROVE  \/ \E j \in Jobs : Enter(c, j)
         \/ Loopback(c)
         \/ Live(c) /\ overlapped' = overlapped
  <1>1. CASE BeginSignIn(c) \/ BeginComplete(c) \/ BeginKeyLogin(c) \/ BeginUse(c) \/ BeginEdit(c)
    BY <1>1 DEF BeginSignIn, BeginComplete, BeginKeyLogin, BeginUse, BeginEdit, Jobs
  <1>2. CASE SignedIn(c) \/ ListWorkspaces(c) \/ Mint(c) \/ UnlinkTmp(c) \/ OpenTmp(c) \/ FillTmp(c) \/ RenameTmp(c)
    BY <1>2 DEF SignedIn, ListWorkspaces, Mint, UnlinkTmp, OpenTmp, FillTmp, RenameTmp, Fail, histVars, Live, Over
  <1>3. CASE LoadCredentials(c) \/ RefreshRegion(c) \/ TruncateCredentials(c) \/ WriteCredentials(c)
             \/ ForgetSession(c) \/ Crash(c)
    BY <1>3 DEF LoadCredentials, RefreshRegion, TruncateCredentials, WriteCredentials, ForgetSession, Crash,
       SaveEnds, Fail, histVars, Live, Over
  <1> QED
    BY <1>1, <1>2, <1>3 DEF Step

\* Every step keeps what is known of a command that overlaps no other.
LEMMA AloneStep ==
  ASSUME IInv, NEW c \in Commands, Step(c)
  PROVE  AloneInv'
  <1>1. TypeOK /\ WorkTypeOK /\ HistTypeOK /\ Staged(c) /\ StageInv /\ GoodInv /\ AloneInv
    BY DEF IInv, StageInv, TypeOK
  <1>2. ASSUME NEW j \in Jobs, Enter(c, j)
        PROVE  \/ \A d \in Commands : Live(d) => d \in overlapped' /\ c \in overlapped'
               \/ (\A d \in Commands : ~Live(d)) /\ before'[c] = file
    BY <1>1, <1>2 DEF Enter, HistTypeOK
  <1>3. overlapped \subseteq overlapped'
    BY Moves DEF Enter, Loopback, histVars
  <1>4. ASSUME NEW d \in Commands \ {c}, Live(d)', d \notin overlapped'
        PROVE  Alone(d)'
    <2>1. Live(d) /\ d \notin overlapped /\ Alone(d)
      BY <1>1, <1>3, <1>4, OnlyOwn DEF Live, Untouched, AloneInv
    <2>2. ~Live(c)
      BY <2>1 DEF Alone
    <2>3. Loopback(c)
      BY <1>2, <1>4, <2>1, <2>2, Moves
    <2> QED
      BY <2>1, <2>3 DEF Loopback, Alone, Live, Agree, fileVars, workVars, histVars
  <1>5. SUFFICES ASSUME Live(c)', c \notin overlapped'
                 PROVE  Alone(c)'
    BY <1>4 DEF AloneInv
  <1>6. \A d \in Commands \ {c} : ~Live(d)'
    <2>1. \A d \in Commands \ {c} : ~Live(d)
      BY <1>1, <1>2, <1>3, <1>5, Moves DEF AloneInv, Alone, Loopback, Live
    <2> QED
      BY <2>1, OnlyOwn DEF Live, Untouched
  <1>7. CASE BeginSignIn(c) \/ BeginComplete(c) \/ BeginKeyLogin(c) \/ BeginUse(c) \/ BeginEdit(c)
    <2>1. \E j \in Jobs : Enter(c, j)
      BY <1>7 DEF BeginSignIn, BeginComplete, BeginKeyLogin, BeginUse, BeginEdit, Jobs
    <2>2. before'[c] = file /\ file' = file
      <3>1. c \notin overlapped'
        BY <1>5
      <3>2. pc[c] = "new"
        BY <2>1 DEF Enter
      <3>3. before'[c] = file
        BY <1>1, <2>1, <3>1, <3>2 DEF Enter, HistTypeOK
      <3> QED
        BY <1>7, <3>3 DEF BeginSignIn, BeginComplete, BeginKeyLogin, BeginUse, BeginEdit, fileVars
    <2>3. pc'[c] \in {"oauth", "list", "load", "failed"}
      BY <1>1, <1>7 DEF BeginSignIn, BeginComplete, BeginKeyLogin, BeginUse, BeginEdit, Go, TypeOK
    <2> QED
      BY <1>6, <2>2, <2>3 DEF Alone
  <1>8. CASE Loopback(c)
    <2>1. Alone(c)
      BY <1>1, <1>5, <1>8 DEF Loopback, Live, AloneInv, histVars
    <2> QED
      BY <1>6, <1>8, <2>1 DEF Loopback, Alone, Agree, fileVars, workVars, histVars
  <1>9. Live(c) => Alone(c) /\ pc[c] \in Stages
    BY <1>1, <1>3, <1>5 DEF AloneInv, TypeOK
  <1>10. ASSUME Live(c), NEW s \in Stages \ {"route", "truncate", "write", "forget", "forgetFailed"},
                pc[c] \notin {"write", "forget", "forgetFailed"}, Go(c, s), UNCHANGED <<file, histVars>>
         PROVE  Alone(c)'
    BY <1>1, <1>6, <1>9, <1>10 DEF Alone, Go, TypeOK, histVars
  <1>11. ASSUME NEW r \in Over, End(c, r)
         PROVE  FALSE
    BY <1>1, <1>5, <1>11 DEF End, Go, Live, TypeOK
  <1>12. ~Fail(c)
    BY <1>11 DEF Fail, Over
  <1>13. CASE SignedIn(c)
    BY <1>10, <1>12, <1>13 DEF SignedIn, Stages, Live, Over, fileVars
  <1>14. CASE ListWorkspaces(c)
    BY <1>10, <1>12, <1>14 DEF ListWorkspaces, Stages, Live, Over, fileVars
  <1>15. CASE Mint(c)
    BY <1>10, <1>11, <1>12, <1>15 DEF Mint, Stages, Live, Over, fileVars
  <1>16. CASE UnlinkTmp(c) \/ OpenTmp(c) \/ FillTmp(c)
    BY <1>10, <1>12, <1>16 DEF UnlinkTmp, OpenTmp, FillTmp, Stages, Live, Over
  <1>17. CASE RenameTmp(c) \/ ForgetSession(c) \/ Crash(c)
    BY <1>11, <1>12, <1>17 DEF RenameTmp, ForgetSession, Crash, Over
  <1>18. CASE LoadCredentials(c)
    <2> DEFINE new == Edited(c, file)
    <2>1. pc[c] = "load" /\ job[c] \in Jobs /\ job' = job /\ file' = file /\ Live(c)
      BY <1>1, <1>18 DEF LoadCredentials, Staged, TypeOK, NoJob, Job, SignInOps, fileVars, Live, Over
    <2>2. new # None
      BY <1>11, <1>18 DEF LoadCredentials, Over
    <2>3. \A p \in Profiles \ {Target(job[c])} : new[p] = LoadOrEmpty(file)[p]
      BY <1>1, <2>1, <2>2, EditedFacts
    <2>4. content'[c] = new /\ before' = before /\ pc'[c] \in {"route", "truncate"}
      BY <1>1, <1>18, <2>2 DEF LoadCredentials, Go, TypeOK, WorkTypeOK, histVars
    <2>5. file = before[c]
      BY <1>9, <2>1 DEF Alone
    <2> HIDE DEF new
    <2> QED
      BY <1>6, <2>1, <2>3, <2>4, <2>5 DEF Alone, Agree
  <1>19. CASE RefreshRegion(c)
    <2> DEFINE p == Target(job[c])
               e == content[c][p]
    <2>1. pc[c] = "route" /\ content[c] \in Contents /\ job' = job /\ file' = file /\ Live(c)
      BY <1>1, <1>19 DEF RefreshRegion, Staged, TypeOK, WorkTypeOK, fileVars, Live, Over
    <2>2. file = before[c] /\ Agree(c, content[c])
      BY <1>9, <2>1 DEF Alone
    <2>3. PICK h \in Route(e.ws) : content'[c] = [content[c] EXCEPT ![p] = Moved(e, h)]
                                 /\ before' = before /\ pc'[c] = "truncate"
      BY <1>1, <1>11, <1>12, <1>19 DEF RefreshRegion, Go, TypeOK, WorkTypeOK, histVars, Over
    <2>4. \A q \in Profiles \ {p} : content'[c][q] = content[c][q]
      BY <2>1, <2>3 DEF Contents
    <2> QED
      BY <1>6, <2>1, <2>2, <2>3, <2>4 DEF Alone, Agree
  <1>20. ASSUME NEW b \in BOOLEAN, SaveEnds(c, b)
         PROVE  pc'[c] = (IF b THEN "forget" ELSE "forgetFailed") /\ before' = before
    BY <1>1, <1>11, <1>20 DEF SaveEnds, Go, TypeOK, histVars, Over
  <1>21. CASE TruncateCredentials(c)
    <2>1. Live(c) /\ pc[c] = "truncate" /\ job' = job
      BY <1>21 DEF TruncateCredentials, Live, Over
    <2>2. CASE file' = Emptied /\ Go(c, "write") /\ UNCHANGED <<workVars, histVars>>
      BY <1>1, <1>6, <1>9, <2>1, <2>2 DEF Alone, Agree, Go, TypeOK, workVars, histVars
    <2>3. CASE SaveEnds(c, FALSE)
      BY <1>6, <1>20, <2>3 DEF Alone
    <2> QED
      BY <1>21, <2>2, <2>3 DEF TruncateCredentials
  <1>22. CASE WriteCredentials(c)
    <2>1. Live(c) /\ pc[c] = "write" /\ job' = job
      BY <1>22 DEF WriteCredentials, Live, Over
    <2>2. file = Emptied /\ Agree(c, content[c]) /\ content[c] \in Contents
      BY <1>1, <1>9, <2>1 DEF Alone, Staged, WorkTypeOK
    <2>3. CASE file' = content[c] /\ SaveEnds(c, TRUE)
      <3>1. LoadOrEmpty(file') = content[c]
        BY <2>2, <2>3, LoadFacts
      <3>2. Agree(c, LoadOrEmpty(file))'
        BY <1>20, <2>1, <2>2, <2>3, <3>1 DEF Agree, LoadOrEmpty
      <3> QED
        BY <1>6, <1>20, <2>3, <3>2 DEF Alone
    <2>4. CASE SaveEnds(c, FALSE)
      BY <1>6, <1>20, <2>4 DEF Alone
    <2> QED
      BY <1>22, <2>2, <2>3, <2>4 DEF WriteCredentials
  <1> QED
    BY <1>7, <1>8, <1>13, <1>14, <1>15, <1>16, <1>17, <1>18, <1>19, <1>21, <1>22 DEF Step

-----------------------------------------------------------------------------
(* The invariant, and what follows from it. *)

\* What earlier commands left is in order, and no command has begun.
LEMMA InitIInv ==
  ASSUME Init
  PROVE  IInv
  <1>1. file \in Contents \cup Unreadable /\ GoodContents(LoadOrEmpty(file))
    <2>1. CASE file = NoFile
      BY <2>1 DEF LoadOrEmpty, Unreadable, GoodContents, GoodEntry, NoProfiles
    <2>2. CASE file \in OldContents
      <3>1. ASSUME NEW p \in Profiles, file[p] # None
            PROVE  /\ file[p] \in Entries
                   /\ Serves(file[p].endpoint, file[p].key.ws)
        <4>1. PICK w \in Workspaces, h \in {"apex", "staging"} : file[p] = EntryOf(w, Old, h, "signin")
          BY <2>2, <3>1 DEF OldContents
        <4>2. SameEnv(h, w)
          <5>1. SameEnv(file[p].endpoint, file[p].ws)
            BY <2>2, <3>1 DEF OldContents
          <5> QED
            BY <4>1, <5>1 DEF EntryOf
        <4>3. Serves(h, w)
          BY <4>1, <4>2, CredentialsAssumption DEF Serves, SameEnv, EnvOf, Hosts, RegionHosts
        <4> QED
          BY <4>1, <4>3 DEF EntryOf, Entries, Keys, Hosts
      <3>2. file \in Contents
        BY <2>2, <3>1 DEF OldContents, Contents
      <3> QED
        BY <3>1, <3>2, LoadFacts DEF GoodContents, GoodEntry
    <2> QED
      BY <2>1, <2>2, FirstFilesAssumption DEF Init
  <1>2. TypeOK
    <2>1. LoopTypeOK
      BY DEF Init, LoopInit, LoopTypeOK
    <2>2. FileTypeOK
      BY <1>1 DEF Init, FileTypeOK
    <2>3. WorkTypeOK /\ HistTypeOK
      BY CredentialsAssumption DEF Init, WorkTypeOK, HistTypeOK
    <2>4. pc \in [Commands -> Stages] /\ job \in [Commands -> Jobs \cup {NoJob}]
          /\ minted \in [Commands \cup {Old} -> Nat]
      BY DEF Init, Stages
    <2> QED
      BY <2>1, <2>2, <2>3, <2>4 DEF TypeOK
  <1>3. OwnerInv
    BY CredentialsAssumption DEF Init, OwnerInv, SignedInBy
  <1>4. StageInv
    BY DEF Init, StageInv, Staged
  <1>5. GoodInv
    BY <1>1 DEF Init, GoodInv, GoodWork
  <1>6. AloneInv
    BY DEF Init, AloneInv, Live
  <1> QED
    BY <1>2, <1>3, <1>4, <1>5, <1>6 DEF IInv

\* A step of a command, the expiry of a session and a stutter keep the invariant.
LEMMA NextIInv ==
  ASSUME IInv, [Next]_vars
  PROVE  IInv'
  <1>1. ASSUME NEW c \in Commands, Step(c)
        PROVE  IInv'
    BY <1>1, TypeStep, OwnerStep, StageStep, GoodStep, AloneStep DEF IInv
  <1>2. CASE UNCHANGED <<loopVars, file, session, tmp, pc, job, workVars, minted, histVars>>
             /\ (inode' = inode \/ SessionExpires)
    <2>1. TypeOK'
      BY <1>2, Frames DEF IInv, TypeOK, FileTypeOK, SessionExpires
    <2>2. OwnerInv'
      BY <1>2 DEF IInv, OwnerInv, SignedInBy, workVars
    <2>3. StageInv'
      BY <1>2 DEF IInv, StageInv, Staged, Target, workVars
    <2>4. GoodInv'
      BY <1>2 DEF IInv, GoodInv, GoodWork, GoodContents, GoodEntry, LoadOrEmpty, SignInHost, Serves, SameEnv,
         EnvOf, workVars
    <2>5. AloneInv'
      BY <1>2 DEF IInv, AloneInv, Alone, Agree, Live, Target, LoadOrEmpty, workVars, histVars
    <2> QED
      BY <2>1, <2>2, <2>3, <2>4, <2>5 DEF IInv
  <1> QED
    BY <1>1, <1>2 DEF Next, SessionExpires, AllOver, vars, fileVars

\* Files, commands and listeners have their types, for any number of commands.
THEOREM TypeSafety == Spec => []TypeOK
  <1>1. IInv => TypeOK
    BY DEF IInv
  <1> QED
    BY InitIInv, NextIInv, <1>1, PTL DEF Spec

\* A code goes to the sign-in that asked for it, whoever shares the port.
THEOREM OwnCodeAlways == Spec => []OwnCodeOnly
  <1>1. Init => OwnCodeOnly
    BY DEF Init, LoopInit, OwnCodeOnly
  <1>2. ASSUME IInv, OwnCodeOnly, [Next]_vars
        PROVE  OwnCodeOnly'
    <2>1. LoopTypeOK
      BY <1>2 DEF IInv, TypeOK
    <2>2. ASSUME NEW c \in Commands, LoopNext(c)
          PROVE  OwnCodeOnly'
      <3>1. CASE \E s \in Stacks : Listening(c, s) \/ BindFails(c, s)
        BY <1>2, <2>1, <3>1 DEF Listening, BindFails, Settle, OwnCodeOnly, LoopTypeOK
      <3>2. CASE \E d \in Commands : HandleCallback(d, c)
        BY <1>2, <2>1, <3>2 DEF HandleCallback, Settle, OwnCodeOnly, LoopTypeOK
      <3>3. CASE CallbackTimeout(c)
        BY <1>2, <2>1, <3>3 DEF CallbackTimeout, Settle, OwnCodeOnly, LoopTypeOK
      <3> QED
        BY <2>2, <3>1, <3>2, <3>3 DEF LoopNext
    <2>3. ASSUME NEW c \in Commands, BeginSignIn(c) \/ Crash(c)
          PROVE  OwnCodeOnly'
      BY <1>2, <2>1, <2>3 DEF BeginSignIn, StartLoopback, Crash, OwnCodeOnly, LoopTypeOK
    <2>4. CASE UNCHANGED loopVars
      BY <1>2, <2>4 DEF OwnCodeOnly, loopVars
    <2> QED
      BY <1>2, <2>2, <2>3, <2>4
      DEF Next, Step, BeginComplete, BeginKeyLogin, BeginUse, BeginEdit, Loopback, SignedIn, ListWorkspaces, Mint,
          UnlinkTmp, OpenTmp, FillTmp, RenameTmp, LoadCredentials, RefreshRegion, TruncateCredentials,
          WriteCredentials, ForgetSession, SessionExpires, AllOver, vars
  <1> QED
    BY InitIInv, NextIInv, <1>1, <1>2, PTL DEF Spec

\* A sign-in to staging stays there: no key is minted, and no profile saved, across
\* environments, however commands interleave, fail and are killed.
THEOREM ApartAlways == Spec => []EnvironmentsStayApart
  <1>1. IInv => EnvironmentsStayApart
    BY DEF IInv, GoodInv, GoodWork, GoodContents, GoodEntry, EnvironmentsStayApart
  <1> QED
    BY InitIInv, NextIInv, <1>1, PTL DEF Spec

\* A command that runs alone and succeeds changes its own profile and no other.
THEOREM KeepsOthers == Spec => OthersKept
  <1>1. ASSUME IInv, [Next]_vars
        PROVE  [\A c \in Commands : Ends(c) /\ c \notin overlapped =>
                  \A p \in Profiles \ {Target(job[c])} : Kept(c, p)]_vars
    <2>1. SUFFICES ASSUME Next, NEW c \in Commands, Ends(c), c \notin overlapped,
                          NEW p \in Profiles \ {Target(job[c])}
                   PROVE  Kept(c, p)
      BY <1>1
    <2>2. TypeOK /\ StageInv /\ Alone(c) /\ pc \in [Commands -> Stages] /\ Live(c)
      BY <1>1, <2>1 DEF IInv, TypeOK, AloneInv, Ends
    <2>3. Step(c)
      <3>1. PICK d \in Commands : Step(d)
        BY <2>1 DEF Next, SessionExpires, AllOver, vars, Ends, Live, Over
      <3>2. CASE d # c
        BY <1>1, <2>1, <3>1, <3>2, OnlyOwn DEF Untouched, Ends, Live, Over
      <3> QED
        BY <3>1, <3>2
    <2>4. CASE pc[c] \notin {"write", "forget", "forgetFailed"}
      <3>1. file = before[c]
        BY <2>2, <2>4 DEF Alone
      <3>2. file' = file
        BY <2>1, <2>2, <2>3, <2>4
        DEF Step, Ends, Live, Over, BeginSignIn, BeginComplete, BeginKeyLogin, BeginUse, BeginEdit, Loopback,
            SignedIn, ListWorkspaces, Mint, UnlinkTmp, OpenTmp, FillTmp, RenameTmp, LoadCredentials,
            RefreshRegion, TruncateCredentials, WriteCredentials, ForgetSession, Crash, fileVars, Go
      <3> QED
        BY <3>1, <3>2 DEF Kept
    <2>5. CASE pc[c] = "write"
      <3>1. WriteCredentials(c) \/ Crash(c) \/ Loopback(c)
        BY <2>3, <2>5 DEF Step, BeginSignIn, BeginComplete, BeginKeyLogin, BeginUse, BeginEdit, Enter,
           SignedIn, ListWorkspaces, Mint, UnlinkTmp, OpenTmp, FillTmp, RenameTmp, LoadCredentials,
           RefreshRegion, TruncateCredentials, ForgetSession
      <3>2. WriteCredentials(c) /\ ~SaveEnds(c, FALSE)
        BY <2>1, <2>2, <2>5, <3>1 DEF Crash, Loopback, SaveEnds, End, Go, Ends
      <3>3. file' = content[c] /\ content[c] \in Contents
        BY <2>2, <2>5, <3>2 DEF WriteCredentials, Alone, StageInv, Staged, TypeOK, WorkTypeOK
      <3>4. LoadOrEmpty(file') = content[c]
        BY <3>3, LoadFacts
      <3> QED
        BY <2>1, <2>2, <2>5, <3>4 DEF Alone, Agree, Kept
    <2>6. CASE pc[c] \in {"forget", "forgetFailed"}
      <3>1. ForgetSession(c) \/ Crash(c) \/ Loopback(c)
        BY <2>3, <2>6 DEF Step, BeginSignIn, BeginComplete, BeginKeyLogin, BeginUse, BeginEdit, Enter,
           SignedIn, ListWorkspaces, Mint, UnlinkTmp, OpenTmp, FillTmp, RenameTmp, LoadCredentials,
           RefreshRegion, TruncateCredentials, WriteCredentials
      <3>2. pc[c] = "forget" /\ file' = file
        BY <2>1, <2>2, <2>6, <3>1 DEF ForgetSession, Crash, Loopback, End, Go, Ends
      <3> QED
        BY <2>1, <2>2, <3>2 DEF Alone, Agree, Kept
    <2> QED
      BY <2>4, <2>5, <2>6
  <1> QED
    BY InitIInv, NextIInv, <1>1, PTL DEF Spec, OthersKept

-----------------------------------------------------------------------------
(* Who ran beside whom, and the session's file. *)

TwoPrints == \E c, d \in overlapped : c # d /\ job[c].op = "print" /\ job[d].op = "print"

\* Commands that run at the same time are recorded.
OverlapInv ==
  /\ \A c \in overlapped : pc[c] # "new"
  /\ \A c, d \in Commands : c # d /\ Live(c) /\ Live(d) => c \in overlapped

\* A sign-in that no other has run beside renames its own file, which is full.
WholeInv ==
  ~TwoPrints =>
    /\ session # None => inode[session] # "empty"
    /\ session \in Commands => pc[session] \in Over
    /\ \A c \in Commands : /\ pc[c] \in {"fill", "rename"} => tmp = c
                           /\ pc[c] = "rename" => inode[c] # "empty"

\* What is recorded stays, and a command that is over stays so.
LEMMA HistoryGrows ==
  ASSUME IInv, OverlapInv, NEW c \in Commands, Step(c)
  PROVE  /\ overlapped \subseteq overlapped'
         /\ \A d \in Commands : pc[d] # "new" => pc'[d] # "new" /\ job'[d] = job[d]
         /\ \A d \in Commands : pc[d] \in Over => pc'[d] = pc[d]
         /\ \A d \in Commands \ {c} : pc'[d] = pc[d] /\ job'[d] = job[d] /\ token'[d] = token[d]
         /\ TwoPrints => TwoPrints'
  <1>1. TypeOK /\ pc \in [Commands -> Stages] /\ overlapped \subseteq Commands
    BY DEF IInv, TypeOK, HistTypeOK
  <1>2. overlapped \subseteq overlapped'
    BY Moves DEF Enter, Loopback, histVars
  <1>3. \A d \in Commands \ {c} : pc'[d] = pc[d] /\ job'[d] = job[d] /\ token'[d] = token[d]
    BY OnlyOwn DEF Untouched
  <1>4. pc[c] # "new" => pc'[c] # "new" /\ job'[c] = job[c]
    BY Begun, JobStep
  <1>5. pc[c] \in Over => pc'[c] = pc[c]
    BY Moves DEF Enter, Loopback, Live, Over
  <1>6. \A d \in Commands : pc[d] # "new" => pc'[d] # "new" /\ job'[d] = job[d]
    BY <1>3, <1>4
  <1>7. TwoPrints => TwoPrints'
    BY <1>1, <1>2, <1>6 DEF TwoPrints, OverlapInv
  <1> QED
    BY <1>2, <1>3, <1>5, <1>6, <1>7

\* Every step records the commands that it lets run beside each other.
LEMMA OverlapStep ==
  ASSUME IInv, OverlapInv, NEW c \in Commands, Step(c)
  PROVE  OverlapInv'
  <1>1. TypeOK /\ HistTypeOK /\ pc \in [Commands -> Stages]
    BY DEF IInv, TypeOK
  <1>2. CASE BeginSignIn(c) \/ BeginComplete(c) \/ BeginKeyLogin(c) \/ BeginUse(c) \/ BeginEdit(c)
    <2>0. PICK j \in Jobs : Enter(c, j)
      BY <1>2 DEF BeginSignIn, BeginComplete, BeginKeyLogin, BeginUse, BeginEdit, Jobs
    <2>1. /\ pc[c] = "new"
          /\ \/ (\A d \in Commands : ~Live(d)) /\ overlapped' = overlapped
             \/ overlapped' = overlapped \cup {d \in Commands : Live(d)} \cup {c}
      BY <2>0 DEF Enter
    <2>2. \A d \in Commands \ {c} : Live(d)' <=> Live(d)
      BY HistoryGrows DEF Live
    <2>3. pc'[c] # "new"
      BY <1>1, <1>2 DEF BeginSignIn, BeginComplete, BeginKeyLogin, BeginUse, BeginEdit, Go
    <2>4. \A d \in overlapped' : pc'[d] # "new"
      BY <1>1, <2>1, <2>3, HistoryGrows DEF OverlapInv, Live, HistTypeOK
    <2>5. ASSUME NEW a \in Commands, NEW b \in Commands, a # b, Live(a)', Live(b)'
          PROVE  a \in overlapped'
      BY <2>1, <2>2, <2>5 DEF OverlapInv
    <2> QED
      BY <2>4, <2>5 DEF OverlapInv
  <1>3. CASE Loopback(c) \/ (Live(c) /\ overlapped' = overlapped)
    <2>1. \A d \in Commands : Live(d)' => Live(d)
      BY <1>3, HistoryGrows DEF Loopback, Live
    <2>2. overlapped' = overlapped
      BY <1>3 DEF Loopback, histVars
    <2> QED
      BY <1>1, <2>1, <2>2, HistoryGrows DEF OverlapInv, HistTypeOK
  <1>4. CASE ~(BeginSignIn(c) \/ BeginComplete(c) \/ BeginKeyLogin(c) \/ BeginUse(c) \/ BeginEdit(c))
    <2>1. CASE SignedIn(c) \/ ListWorkspaces(c) \/ Mint(c) \/ UnlinkTmp(c) \/ OpenTmp(c) \/ FillTmp(c)
               \/ RenameTmp(c)
      <3>1. Live(c) /\ overlapped' = overlapped
        BY <2>1 DEF SignedIn, ListWorkspaces, Mint, UnlinkTmp, OpenTmp, FillTmp, RenameTmp, Fail, histVars, Live, Over
      <3> QED
        BY <1>3, <3>1
    <2>2. CASE LoadCredentials(c) \/ RefreshRegion(c) \/ TruncateCredentials(c) \/ WriteCredentials(c)
               \/ ForgetSession(c) \/ Crash(c)
      <3>1. Live(c) /\ overlapped' = overlapped
        BY <2>2 DEF LoadCredentials, RefreshRegion, TruncateCredentials, WriteCredentials, ForgetSession, Crash,
           SaveEnds, Fail, histVars, Live, Over
      <3> QED
        BY <1>3, <3>1
    <2> QED
      BY <1>3, <1>4, <2>1, <2>2 DEF Step
  <1> QED
    BY <1>2, <1>4

\* What a step does to the files of a session.
LEMMA SessionMoves ==
  ASSUME IInv, NEW c \in Commands, Step(c)
  PROVE  \/ UnlinkTmp(c) \/ OpenTmp(c) \/ FillTmp(c) \/ RenameTmp(c) \/ ForgetSession(c)
         \/ /\ UNCHANGED <<session, tmp, inode>>
            /\ pc'[c] \in {"unlink", "open", "fill", "rename"} =>
                 pc' = pc \/ (ListWorkspaces(c) /\ pc'[c] = "unlink" /\ job[c].op = "print")
  <1>1. pc \in [Commands -> Stages]
    BY DEF IInv, TypeOK
  <1>2. CASE BeginSignIn(c) \/ BeginComplete(c) \/ BeginKeyLogin(c) \/ BeginUse(c) \/ BeginEdit(c)
    BY <1>1, <1>2 DEF BeginSignIn, BeginComplete, BeginKeyLogin, BeginUse, BeginEdit, Go, fileVars
  <1>3. CASE Loopback(c)
    BY <1>3 DEF Loopback, fileVars
  <1>4. CASE SignedIn(c) \/ Mint(c)
    BY <1>1, <1>4 DEF SignedIn, Mint, Fail, End, Go, fileVars
  <1>5. CASE ListWorkspaces(c)
    BY <1>1, <1>5 DEF ListWorkspaces, Fail, End, Go, fileVars
  <1>6. CASE LoadCredentials(c) \/ RefreshRegion(c)
    BY <1>1, <1>6 DEF LoadCredentials, RefreshRegion, Fail, End, Go, fileVars
  <1>7. CASE TruncateCredentials(c) \/ WriteCredentials(c)
    BY <1>1, <1>7 DEF TruncateCredentials, WriteCredentials, SaveEnds, End, Go
  <1>8. CASE Crash(c)
    BY <1>1, <1>8 DEF Crash, End, Go, fileVars
  <1> QED
    BY <1>2, <1>3, <1>4, <1>5, <1>6, <1>7, <1>8 DEF Step

\* Every step keeps the session's file whole.
LEMMA WholeStep ==
  ASSUME IInv, OverlapInv, WholeInv, NEW c \in Commands, Step(c)
  PROVE  WholeInv'
  <1>1. /\ TypeOK /\ FileTypeOK /\ pc \in [Commands -> Stages] /\ StageInv
        /\ inode \in [Commands \cup {Old} -> {"none", "empty", "full", "expired"}]
    BY DEF IInv, TypeOK, FileTypeOK
  <1>2. SUFFICES ASSUME ~TwoPrints'
                 PROVE  /\ session' # None => inode'[session'] # "empty"
                        /\ session' \in Commands => pc'[session'] \in Over
                        /\ \A d \in Commands : /\ pc'[d] \in {"fill", "rename"} => tmp' = d
                                               /\ pc'[d] = "rename" => inode'[d] # "empty"
    BY DEF WholeInv
  <1>3. /\ ~TwoPrints
        /\ session # None => inode[session] # "empty"
        /\ session \in Commands => pc[session] \in Over
        /\ \A d \in Commands : /\ pc[d] \in {"fill", "rename"} => tmp = d
                               /\ pc[d] = "rename" => inode[d] # "empty"
    BY <1>2, HistoryGrows DEF WholeInv
  <1>4. \A d \in Commands : pc[d] \in Over => pc'[d] = pc[d]
    BY HistoryGrows
  <1>5. \A d \in Commands \ {c} : pc'[d] = pc[d]
    BY HistoryGrows
  <1>6. CASE UNCHANGED <<session, tmp, inode>> /\ (pc'[c] \in {"fill", "rename"} => pc' = pc)
    BY <1>3, <1>4, <1>5, <1>6
  <1>7. CASE UnlinkTmp(c)
    <2>1. pc[c] = "unlink" /\ pc'[c] = "open" /\ tmp' = None /\ UNCHANGED <<session, inode>>
      BY <1>1, <1>7 DEF UnlinkTmp, Go
    <2>2. ASSUME NEW d \in Commands \ {c}, pc[d] \in {"fill", "rename"}
          PROVE  FALSE
      <3>1. job[c].op = "print" /\ job[d].op = "print"
        BY <1>1, <2>1, <2>2 DEF StageInv, Staged
      <3>2. Live(c) /\ Live(d)
        BY <2>1, <2>2 DEF Live, Over
      <3> QED
        BY <1>3, <3>1, <3>2 DEF OverlapInv, TwoPrints
    <2> QED
      BY <1>3, <1>4, <1>5, <2>1, <2>2
  <1>8. CASE OpenTmp(c)
    <2>1. pc[c] = "open" /\ session' = session
      BY <1>8 DEF OpenTmp
    <2>2. CASE tmp = None
      <3>1. tmp' = c /\ inode' = [inode EXCEPT ![c] = "empty"] /\ pc'[c] = "fill"
        BY <1>1, <1>8, <2>2 DEF OpenTmp, Go
      <3>2. session # c
        BY <1>3, <2>1 DEF Over
      <3>3. \A d \in Commands \ {c} : pc[d] \notin {"fill", "rename"}
        BY <1>3, <2>2, CredentialsAssumption
      <3>4. session # None => inode'[session] = inode[session]
        BY <1>1, <3>1, <3>2 DEF FileTypeOK
      <3> QED
        BY <1>3, <1>4, <1>5, <2>1, <3>1, <3>3, <3>4
    <2>3. CASE tmp # None
      BY <1>1, <1>3, <1>4, <1>5, <1>8, <2>3 DEF OpenTmp, Fail, End, Go
    <2> QED
      BY <2>2, <2>3
  <1>9. CASE FillTmp(c) /\ ~Fail(c)
    <2>1. /\ pc[c] = "fill" /\ pc'[c] = "rename" /\ UNCHANGED <<session, tmp>>
          /\ inode' = [inode EXCEPT ![c] = "full"]
      BY <1>1, <1>9 DEF FillTmp, Go
    <2>2. \A x \in Commands \cup {Old} : inode'[x] = inode[x] \/ inode'[x] = "full"
      BY <1>1, <2>1
    <2>3. session \in Commands \cup {None, Old} /\ inode'[c] = "full"
      BY <1>1, <2>1 DEF FileTypeOK
    <2> QED
      BY <1>3, <1>4, <1>5, <2>1, <2>2, <2>3
  <1>10. CASE RenameTmp(c)
    <2>1. pc[c] = "rename" /\ inode' = inode /\ tmp = c /\ inode[c] # "empty"
      BY <1>3, <1>10 DEF RenameTmp
    <2>2. session' = c /\ pc'[c] = "ok"
      BY <1>1, <1>10, <2>1, CredentialsAssumption DEF RenameTmp, End, Go
    <2>3. \A d \in Commands \ {c} : pc[d] \notin {"fill", "rename"}
      BY <1>3, <2>1
    <2> QED
      BY <1>5, <2>1, <2>2, <2>3 DEF Over
  <1>11. CASE ForgetSession(c)
    <2>1. session' = None /\ UNCHANGED <<tmp, inode>> /\ pc'[c] \in {"ok", "failed"}
      BY <1>1, <1>11 DEF ForgetSession, End, Go
    <2> QED
      BY <1>3, <1>5, <2>1, CredentialsAssumption
  <1> QED
    <2>1. CASE FillTmp(c) /\ Fail(c)
      BY <1>1, <1>6, <2>1 DEF FillTmp, Fail, End, Go
    <2> QED
      BY <1>6, <1>7, <1>8, <1>9, <1>10, <1>11, <2>1, SessionMoves

\* Nothing is recorded of commands when a session expires or nothing happens.
LEMMA WholeInvariance ==
  ASSUME IInv, OverlapInv, WholeInv, [Next]_vars
  PROVE  OverlapInv' /\ WholeInv'
  <1>1. ASSUME NEW c \in Commands, Step(c)
        PROVE  OverlapInv' /\ WholeInv'
    BY <1>1, OverlapStep, WholeStep
  <1>2. CASE UNCHANGED <<loopVars, file, session, tmp, pc, job, workVars, minted, histVars>>
             /\ (inode' = inode \/ SessionExpires)
    <2>1. \A x \in Commands \cup {Old} : inode'[x] = inode[x] \/ inode'[x] = "expired"
      BY <1>2 DEF SessionExpires, IInv, TypeOK, FileTypeOK
    <2>2. session \in Commands \cup {None, Old}
      BY DEF IInv, TypeOK, FileTypeOK
    <2>3. OverlapInv' /\ (TwoPrints' <=> TwoPrints)
      BY <1>2 DEF OverlapInv, TwoPrints, Live, histVars
    <2> QED
      BY <1>2, <2>1, <2>2, <2>3 DEF WholeInv
  <1> QED
    BY <1>1, <1>2 DEF Next, SessionExpires, AllOver, vars, fileVars

\* The session path never holds a part of a session, whoever is killed wherever,
\* unless two sign-ins have run at the same time.
THEOREM SessionIsWhole == Spec => []SessionFileIsWhole
  <1>1. Init => OverlapInv /\ WholeInv
    BY CredentialsAssumption DEF Init, OverlapInv, WholeInv, Live, TwoPrints
  <1>2. WholeInv => SessionFileIsWhole
    BY DEF WholeInv, SessionFileIsWhole, TwoPrints
  <1> QED
    BY InitIInv, NextIInv, WholeInvariance, <1>1, <1>2, PTL DEF Spec


-----------------------------------------------------------------------------
(* How often a sign-in is good for a key.  A step of a command is, for the   *)
(* sign-ins, one of eight moves.                                             *)

Spending == {"list", "mint"}
Saving == {"load", "truncate", "write", "forget", "forgetFailed"}
Printing == {"unlink", "open", "fill", "rename"}

\* The move leaves the session, the keys and the tokens as they are.
KeepsTokens == UNCHANGED <<session, minted, token>>

\* c begins, with no session in hand.
Starts(c) ==
  /\ KeepsTokens /\ tmp' = tmp /\ pc[c] = "new"
  /\ pc'[c] \notin Printing \cup {"mint"} /\ (pc'[c] = "list" => job'[c].op = "use")

\* c takes the session that it finds; who is at work by then runs beside it.
Takes(c) ==
  /\ UNCHANGED <<session, minted, tmp>> /\ pc[c] = "new" /\ pc'[c] = "list"
  /\ session # None /\ token'[c] = session /\ job'[c].op = "complete"
  /\ \A d \in Commands : Live(d) => d \in overlapped'

\* c has signed in.
Arrives(c) ==
  /\ UNCHANGED <<session, minted, tmp>> /\ pc[c] = "oauth" /\ pc'[c] = "list" /\ token'[c] = c

\* c goes on, or ends; who saves what it minted goes on to the end, or is killed.
GoesOn(c) ==
  /\ KeepsTokens /\ tmp' \in {tmp, None}
  /\ pc[c] = "new" => pc'[c] = "new"
  /\ pc[c] # "oauth" => pc'[c] # "oauth"
  /\ pc'[c] \in Spending => pc[c] \in Spending
  /\ pc'[c] = "unlink" => pc[c] = "unlink" \/ (pc[c] = "list" /\ job[c].op = "print")
  /\ pc'[c] = "open" => pc[c] \in {"unlink", "open"}
  /\ pc'[c] \in {"fill", "rename"} => pc[c] \in {"fill", "rename"}
  /\ pc[c] \in {"fill", "rename"} => pc'[c] \in {"fill", "rename"} \cup Over
  /\ job[c].op = "complete" /\ pc[c] \in Saving => pc'[c] \in Saving \cup {"crashed"}

Opens(c) == KeepsTokens /\ pc[c] = "open" /\ tmp' = c /\ pc'[c] = "fill"

Renames(c) ==
  /\ UNCHANGED <<minted, token>> /\ pc[c] = "rename" /\ tmp # None
  /\ session' = tmp /\ tmp' = None /\ pc'[c] = "ok"

Mints(c) ==
  /\ UNCHANGED <<session, tmp, token>> /\ pc[c] = "mint"
  /\ minted' = [minted EXCEPT ![token[c]] = @ + 1]
  /\ pc'[c] = "load" \/ (pc'[c] = "failed" /\ c \in unsure')

Forgets(c) ==
  UNCHANGED <<minted, token, tmp>> /\ session' = None /\ pc[c] \in Saving /\ pc'[c] \in Over

\* Every step is one of these moves.
LEMMA KeyMoves ==
  ASSUME IInv, NEW c \in Commands, Step(c)
  PROVE  \/ Starts(c) \/ Takes(c) \/ Arrives(c) \/ GoesOn(c)
         \/ Opens(c) \/ Renames(c) \/ Mints(c) \/ Forgets(c)
  <1>1. TypeOK /\ WorkTypeOK /\ HistTypeOK /\ FileTypeOK /\ pc \in [Commands -> Stages]
        /\ job \in [Commands -> Jobs \cup {NoJob}] /\ Staged(c)
    BY DEF IInv, StageInv, TypeOK
  <1> USE <1>1
  <1>2. ASSUME NEW j \in Jobs, Enter(c, j)
        PROVE  /\ pc[c] = "new" /\ job'[c] = j
               /\ \A d \in Commands : Live(d) => d \in overlapped'
    BY <1>2 DEF Enter, HistTypeOK
  <1>3. ASSUME BeginSignIn(c) \/ BeginKeyLogin(c) \/ BeginUse(c) \/ BeginEdit(c)
        PROVE  Starts(c)
    <2>1. CASE BeginSignIn(c) \/ BeginKeyLogin(c) \/ BeginEdit(c)
      <3>1. pc[c] = "new" /\ pc'[c] \in {"oauth", "load", "failed"}
        BY <1>2, <2>1 DEF BeginSignIn, BeginKeyLogin, BeginEdit, Go, Enter
      <3> QED
        BY <2>1, <3>1 DEF BeginSignIn, BeginKeyLogin, BeginEdit, Starts, KeepsTokens, fileVars, workVars, Printing
    <2>2. CASE BeginUse(c)
      <3>1. PICK j \in UseJobs : Enter(c, j)
        BY <2>2 DEF BeginUse
      <3>2. j.op = "use" /\ j \in Jobs
        BY <3>1 DEF UseJobs, Job, Jobs
      <3>3. pc[c] = "new" /\ job'[c] = j
        BY <1>2, <3>1, <3>2
      <3>4. pc'[c] \in {"list", "failed"}
        BY <2>2 DEF BeginUse, Go
      <3> QED
        BY <2>2, <3>2, <3>3, <3>4 DEF BeginUse, Starts, KeepsTokens, fileVars, Printing
    <2> QED
      BY <1>3, <2>1, <2>2
  <1>4. ASSUME BeginComplete(c)
        PROVE  Starts(c) \/ Takes(c)
    <2>1. PICK j \in CompleteJobs : Enter(c, j)
      BY <1>4 DEF BeginComplete
    <2>2. j.op = "complete" /\ j \in Jobs
      BY <2>1 DEF CompleteJobs, Job, Jobs
    <2>3. /\ pc[c] = "new" /\ job'[c] = j
          /\ \A d \in Commands : Live(d) => d \in overlapped'
      BY <1>2, <2>1, <2>2
    <2>4. \/ session # None /\ pc'[c] = "list" /\ token'[c] = session
          \/ pc'[c] = "failed" /\ token' = token
      BY <1>4 DEF BeginComplete, Go, WorkTypeOK
    <2> QED
      BY <1>4, <2>2, <2>3, <2>4 DEF BeginComplete, Starts, Takes, KeepsTokens, fileVars, Printing
  <1>5. ASSUME Loopback(c)
        PROVE  GoesOn(c)
    BY <1>5 DEF Loopback, GoesOn, KeepsTokens, fileVars, workVars
  <1>6. ASSUME NEW r \in Over, End(c, r), UNCHANGED <<session, minted>>, tmp' \in {tmp, None},
               job[c].op = "complete" /\ pc[c] \in Saving => r = "crashed", pc[c] # "new"
        PROVE  GoesOn(c)
    BY <1>6 DEF End, Go, GoesOn, KeepsTokens, Over, Spending, Saving
  <1>7. ASSUME SignedIn(c)
        PROVE  Arrives(c) \/ GoesOn(c)
    BY <1>6, <1>7 DEF SignedIn, Arrives, Fail, Go, fileVars, Over, Saving, WorkTypeOK
  <1>8. ASSUME ListWorkspaces(c)
        PROVE  GoesOn(c)
    <2>1. CASE Fail(c)
      BY <1>6, <1>8, <2>1 DEF ListWorkspaces, Fail, fileVars, Over, Saving
    <2>2. CASE ~Fail(c)
      BY <1>8, <2>2 DEF ListWorkspaces, Go, GoesOn, KeepsTokens, fileVars, workVars, Over, Spending, Saving
    <2> QED
      BY <2>1, <2>2
  <1>9. ASSUME Mint(c)
        PROVE  Mints(c) \/ GoesOn(c)
    <2>1. CASE Fail(c) /\ minted' = minted
      BY <1>6, <1>9, <2>1 DEF Mint, Fail, fileVars, Over, Saving
    <2>2. CASE ~(Fail(c) /\ minted' = minted)
      BY <1>9, <2>2 DEF Mint, Mints, End, Go, fileVars, workVars
    <2> QED
      BY <2>1, <2>2
  <1>10. ASSUME UnlinkTmp(c) \/ FillTmp(c)
         PROVE  GoesOn(c)
    <2>1. CASE Fail(c)
      BY <1>6, <1>10, <2>1 DEF UnlinkTmp, FillTmp, Go, Fail, workVars, Over, Saving
    <2>2. CASE ~Fail(c)
      BY <1>10, <2>2 DEF UnlinkTmp, FillTmp, Go, GoesOn, KeepsTokens, workVars, Spending, Saving
    <2> QED
      BY <2>1, <2>2
  <1>11. ASSUME OpenTmp(c)
         PROVE  Opens(c) \/ GoesOn(c)
    <2>1. CASE tmp = None
      BY <1>11, <2>1 DEF OpenTmp, Opens, KeepsTokens, Go, workVars
    <2>2. CASE tmp # None
      BY <1>6, <1>11, <2>2 DEF OpenTmp, Fail, Over, Saving
    <2> QED
      BY <2>1, <2>2
  <1>12. ASSUME RenameTmp(c)
         PROVE  Renames(c) \/ GoesOn(c)
    <2>1. CASE tmp # None
      BY <1>12, <2>1 DEF RenameTmp, Renames, End, Go
    <2>2. CASE tmp = None
      BY <1>6, <1>12, <2>2 DEF RenameTmp, Fail, Over, Saving
    <2> QED
      BY <2>1, <2>2
  <1>13. ASSUME LoadCredentials(c)
         PROVE  GoesOn(c)
    <2>1. CASE Edited(c, file) = None
      <3>1. job[c].op # "complete"
        <4>1. ASSUME job[c].op = "complete"
              PROVE  Edited(c, file) \in Contents
          <5>1. job[c] \in Jobs
            BY <4>1, <1>1 DEF NoJob, Job
          <5>2. Target(job[c]) \in Profiles /\ LoadOrEmpty(file) \in Contents
            BY <5>1, TargetIsProfile, LoadFacts DEF FileTypeOK
          <5>3. EntryOf(job[c].ws, c, host[c], "signin") \in Entries
            BY <1>13, <4>1, <5>1, JobFacts, EntryOfType DEF LoadCredentials, WorkTypeOK, Staged, SignInOps
          <5> QED
            BY <4>1, <5>2, <5>3 DEF Edited, SavedProfile, Contents
        <4> QED
          BY <2>1, <4>1, FileAssumption
      <3> QED
        BY <1>6, <1>13, <2>1, <3>1 DEF LoadCredentials, fileVars, Over
    <2>2. CASE Edited(c, file) # None
      BY <1>13, <2>2 DEF LoadCredentials, Go, GoesOn, KeepsTokens, fileVars, Over, Spending, Saving
    <2> QED
      BY <2>1, <2>2
  <1>14. ASSUME RefreshRegion(c)
         PROVE  GoesOn(c)
    <2>1. CASE \E r \in Over : End(c, r)
      BY <1>6, <1>14, <2>1 DEF RefreshRegion, fileVars, Over, Saving
    <2>2. CASE ~\E r \in Over : End(c, r)
      BY <1>14, <2>2 DEF RefreshRegion, Fail, Go, GoesOn, KeepsTokens, fileVars, Over, Spending, Saving
    <2> QED
      BY <2>1, <2>2
  <1>15. ASSUME TruncateCredentials(c) \/ WriteCredentials(c)
         PROVE  GoesOn(c)
    <2>1. ASSUME NEW saved \in BOOLEAN, SaveEnds(c, saved)
          PROVE  GoesOn(c)
      <3>1. CASE job[c].op = "complete"
        BY <1>15, <2>1, <3>1 DEF SaveEnds, TruncateCredentials, WriteCredentials, Go, GoesOn, KeepsTokens, workVars,
           Over, Spending, Saving
      <3>2. CASE job[c].op # "complete"
        BY <1>6, <1>15, <2>1, <3>2 DEF SaveEnds, TruncateCredentials, WriteCredentials, Over
      <3> QED
        BY <3>1, <3>2
    <2>2. CASE ~\E saved \in BOOLEAN : SaveEnds(c, saved)
      BY <1>15, <2>2 DEF TruncateCredentials, WriteCredentials, Go, GoesOn, KeepsTokens, workVars, Over,
         Spending, Saving
    <2> QED
      BY <2>1, <2>2
  <1>16. ASSUME ForgetSession(c)
         PROVE  Forgets(c)
    BY <1>16 DEF ForgetSession, Forgets, End, Go, Over, Saving
  <1>17. ASSUME Crash(c)
         PROVE  GoesOn(c)
    BY <1>6, <1>17 DEF Crash, Live, Over, fileVars
  <1> QED
    BY <1>3, <1>4, <1>5, <1>7, <1>8, <1>9, <1>10, <1>11, <1>12, <1>13, <1>14, <1>15, <1>16, <1>17 DEF Step

-----------------------------------------------------------------------------
(* Whose token a command may have. *)

\* The session of t is, or was, in place.
Held(t) == session = t \/ \E c \in Commands \ {t} : token[c] = t

TokenInv ==
  /\ \A c \in Commands : pc[c] \in {"new", "oauth"} => token[c] = None
  /\ \A c \in Commands : pc[c] \in Printing => token[c] = c
  /\ \A c \in Commands : job[c].op \in {"login", "print"} /\ token[c] # None => token[c] = c
  /\ \A t \in Commands :
       /\ minted[t] > 0 \/ tmp = t \/ Held(t) => token[t] = t
       /\ tmp = t \/ Held(t) => job[t].op = "print" /\ pc[t] \in {"fill", "rename"} \cup Over
       /\ Held(t) => tmp # t

\* Two commands took the session of t at the same time, the one that took it was
\* killed, or it does not know that it has a key.
Excused(t) == \E c \in Commands : token[c] = t /\ (c \in overlapped \cup unsure \/ pc[c] = "crashed")

\* A sign-in that a key was minted with is out of reach, or its session is about
\* to be deleted.
SpentOnce(t) ==
  /\ minted[t] <= 1
  /\ minted[t] = 1 =>
       /\ \A c \in Commands : token[c] = t => pc[c] \notin Spending
       /\ session = t => \E c \in Commands : token[c] = t /\ job[c].op = "complete" /\ pc[c] \in Saving
       /\ t \in Commands => tmp # t /\ pc[t] \notin {"unlink", "open"}

KeyInv == \A t \in Commands \cup {Old} : Excused(t) \/ SpentOnce(t)

\* Every step keeps whose token a command may have.
LEMMA TokenStep ==
  ASSUME IInv, OverlapInv, TokenInv, NEW c \in Commands, Step(c)
  PROVE  TokenInv'
  <1>1. /\ TypeOK /\ token \in [Commands -> Commands \cup {Old, None}] /\ None \notin Commands /\ Old \notin Commands
        /\ session \in Commands \cup {None, Old} /\ tmp \in Commands \cup {None}
        /\ minted \in [Commands \cup {Old} -> Nat] /\ None # Old
    BY CredentialsAssumption DEF IInv, TypeOK, WorkTypeOK, FileTypeOK
  <1>2. \A d \in Commands \ {c} : pc'[d] = pc[d] /\ job'[d] = job[d] /\ token'[d] = token[d]
    BY HistoryGrows
  <1>3. /\ pc[c] # "new" => pc'[c] # "new" /\ job'[c] = job[c]
        /\ \A d \in Commands : pc[d] \in Over => pc'[d] = pc[d]
    BY HistoryGrows
  <1>4. pc[c] = "new" => job[c].op = "none"
    BY DEF IInv, OwnerInv, NoJob, Job
  <1>5. pc[c] \in Printing => job[c].op = "print"
    BY DEF IInv, StageInv, Staged, Printing
  <1> USE <1>1, <1>2, <1>3, <1>4, <1>5 DEF TokenInv, Held, Printing, Over
  <1>6. CASE Starts(c)
    BY <1>6 DEF Starts, KeepsTokens
  <1>7. CASE Takes(c)
    BY <1>7 DEF Takes
  <1>8. CASE Arrives(c)
    BY <1>8 DEF Arrives
  <1>9. CASE GoesOn(c)
    <2>1. UNCHANGED <<session, minted, token>> /\ tmp' \in {tmp, None}
      BY <1>9 DEF GoesOn, KeepsTokens
    <2>2. pc'[c] \in {"new", "oauth"} => token'[c] = None
      BY <1>9, <2>1 DEF GoesOn
    <2>3. pc'[c] \in Printing => token'[c] = c
      <3>1. pc'[c] \in Printing => pc[c] \in Printing \/ (pc[c] = "list" /\ job[c].op = "print")
        BY <1>9 DEF GoesOn
      <3>2. pc[c] = "list" /\ job[c].op = "print" => token[c] = c
        BY DEF IInv, StageInv, Staged
      <3> QED
        BY <2>1, <3>1, <3>2
    <2>4. pc[c] # "new" \/ pc'[c] = "new"
      BY <1>9 DEF GoesOn
    <2>5. \A d \in Commands : job'[d].op \in {"login", "print"} /\ token'[d] # None => token'[d] = d
      BY <2>1
    <2>6. \A t \in Commands : /\ Held(t)' <=> Held(t)
                            /\ tmp' = t => tmp = t
      BY <2>1
    <2>7. pc[c] \in {"fill", "rename"} => pc'[c] \in {"fill", "rename"} \cup Over
      BY <1>9 DEF GoesOn
    <2>8. \A t \in Commands : tmp' = t \/ Held(t)' => job'[t].op = "print" /\ pc'[t] \in {"fill", "rename"} \cup Over
      BY <2>1, <2>6, <2>7
    <2> QED
      BY <2>1, <2>2, <2>3, <2>5, <2>6, <2>8
  <1>10. CASE Opens(c)
    BY <1>10 DEF Opens, KeepsTokens
  <1>11. CASE Renames(c)
    BY <1>11 DEF Renames
  <1>12. CASE Mints(c)
    BY <1>12 DEF Mints
  <1>13. CASE Forgets(c)
    BY <1>13 DEF Forgets, Saving
  <1> QED
    BY <1>6, <1>7, <1>8, <1>9, <1>10, <1>11, <1>12, <1>13, KeyMoves

\* Every step keeps the sign-ins from being used twice, but for the excuses.
LEMMA KeyStep ==
  ASSUME IInv, OverlapInv, TokenInv, KeyInv, NEW c \in Commands, Step(c)
  PROVE  KeyInv'
  <1>1. /\ TypeOK /\ token \in [Commands -> Commands \cup {Old, None}] /\ None \notin Commands /\ Old \notin Commands
        /\ session \in Commands \cup {None, Old} /\ tmp \in Commands \cup {None}
        /\ minted \in [Commands \cup {Old} -> Nat] /\ None # Old
    BY CredentialsAssumption DEF IInv, TypeOK, WorkTypeOK, FileTypeOK
  <1>2. \A d \in Commands \ {c} : pc'[d] = pc[d] /\ job'[d] = job[d] /\ token'[d] = token[d]
    BY HistoryGrows
  <1>3. /\ pc[c] # "new" => pc'[c] # "new" /\ job'[c] = job[c]
        /\ \A d \in Commands : pc[d] \in Over => pc'[d] = pc[d]
        /\ overlapped \subseteq overlapped'
    BY HistoryGrows
  <1>4. unsure \subseteq unsure'
    BY DEF Step, BeginSignIn, BeginComplete, BeginKeyLogin, BeginUse, BeginEdit, Enter, Loopback, SignedIn,
       ListWorkspaces, Mint, UnlinkTmp, OpenTmp, FillTmp, RenameTmp, LoadCredentials, RefreshRegion,
       TruncateCredentials, WriteCredentials, SaveEnds, ForgetSession, Crash, Fail, histVars
  <1>5. \A d \in Commands : token[d] # None => token'[d] = token[d]
    BY <1>2, KeyMoves DEF TokenInv, Starts, Takes, Arrives, GoesOn, Opens, Renames, Mints, Forgets, KeepsTokens
  <1>6. \A t \in Commands \cup {Old} : Excused(t) => Excused(t)'
    BY <1>1, <1>3, <1>4, <1>5 DEF Excused, Over
  <1>7. SUFFICES ASSUME NEW t \in Commands \cup {Old}, ~Excused(t)'
                 PROVE  SpentOnce(t)'
    BY DEF KeyInv
  <1>8. SpentOnce(t) /\ ~Excused(t)
    BY <1>6, <1>7 DEF KeyInv
  <1>9. \A d \in Commands : token'[d] = t => d \notin overlapped' \cup unsure' /\ pc'[d] # "crashed"
    BY <1>7 DEF Excused
  <1>10. t # None
    BY <1>1
  <1>11. CASE minted' = minted /\ minted[t] # 1
    BY <1>8, <1>11 DEF SpentOnce
  <1>12. ASSUME minted' = minted, minted[t] = 1
         PROVE  SpentOnce(t)'
    <2>1. /\ \A d \in Commands : token[d] = t => pc[d] \notin Spending
          /\ session = t => \E d \in Commands : token[d] = t /\ job[d].op = "complete" /\ pc[d] \in Saving
          /\ t \in Commands => token[t] = t /\ tmp # t /\ pc[t] \notin {"unlink", "open", "new", "oauth"}
      BY <1>1, <1>12, <1>8 DEF SpentOnce, TokenInv
    <2>2. \A d \in Commands : token'[d] = t => pc'[d] \notin Spending
      <3>1. ASSUME Takes(c), token'[c] = t
            PROVE  FALSE
        <4>1. session = t
          BY <3>1 DEF Takes
        <4>2. PICK d \in Commands : token[d] = t /\ job[d].op = "complete" /\ pc[d] \in Saving
          BY <2>1, <4>1
        <4>3. d \in overlapped'
          BY <3>1, <4>2 DEF Takes, Live, Saving, Over
        <4> QED
          BY <1>5, <1>9, <1>10, <4>2, <4>3
      <3>2. CASE Starts(c) \/ Arrives(c) \/ GoesOn(c)
        BY <1>2, <1>10, <2>1, <3>2 DEF Starts, Arrives, GoesOn, KeepsTokens, TokenInv, Spending
      <3>3. CASE Opens(c) \/ Renames(c) \/ Mints(c) \/ Forgets(c)
        BY <1>2, <2>1, <3>3 DEF Opens, Renames, Mints, Forgets, KeepsTokens, Spending, Over
      <3> QED
        BY <1>2, <1>5, <2>1, <3>1, <3>2, <3>3, KeyMoves
    <2>3. session' = t => \E d \in Commands : token'[d] = t /\ job'[d].op = "complete" /\ pc'[d] \in Saving
      <3>1. SUFFICES ASSUME session' = t
                     PROVE  \E d \in Commands : token'[d] = t /\ job'[d].op = "complete" /\ pc'[d] \in Saving
        OBVIOUS
      <3>2. session = t
        BY <1>1, <1>10, <2>1, <3>1, KeyMoves
        DEF Starts, Takes, Arrives, GoesOn, Opens, Renames, Mints, Forgets, KeepsTokens
      <3>3. PICK d \in Commands : token[d] = t /\ job[d].op = "complete" /\ pc[d] \in Saving
        BY <2>1, <3>2
      <3>4. token'[d] = t /\ job'[d].op = "complete" /\ pc'[d] # "crashed"
        BY <1>2, <1>3, <1>5, <1>9, <1>10, <3>3 DEF Saving
      <3>5. d = c => GoesOn(c)
        BY <1>10, <3>1, <3>3, KeyMoves DEF Starts, Takes, Arrives, Opens, Renames, Mints, Forgets, Saving
      <3>6. pc'[d] \in Saving
        BY <1>2, <3>3, <3>4, <3>5 DEF GoesOn
      <3> QED
        BY <3>4, <3>6
    <2>4. t \in Commands => tmp' # t /\ pc'[t] \notin {"unlink", "open"}
      <3>1. SUFFICES ASSUME t \in Commands
                     PROVE  tmp' # t /\ pc'[t] \notin {"unlink", "open"}
        OBVIOUS
      <3>2. token[t] = t /\ tmp # t /\ pc[t] \notin {"unlink", "open", "new", "oauth"} \cup Spending
        BY <2>1, <3>1
      <3>3. tmp' # t
        BY <1>1, <3>2, KeyMoves DEF Starts, Takes, Arrives, GoesOn, Opens, Renames, Mints, Forgets, KeepsTokens
      <3>4. pc'[t] \notin {"unlink", "open"}
        <4>1. CASE t # c
          BY <1>2, <3>1, <3>2, <4>1
        <4>2. CASE t = c
          <5>1. ~(Starts(c) \/ Takes(c) \/ Arrives(c) \/ Opens(c) \/ Mints(c))
            BY <3>2, <4>2 DEF Starts, Takes, Arrives, Opens, Mints, Spending
          <5>2. GoesOn(c) \/ Renames(c) \/ Forgets(c)
            BY <5>1, KeyMoves
          <5> QED
            BY <3>2, <4>2, <5>2 DEF GoesOn, Renames, Forgets, Spending, Over
        <4> QED
          BY <4>1, <4>2
      <3> QED
        BY <3>3, <3>4
    <2> QED
      BY <1>12, <2>2, <2>3, <2>4 DEF SpentOnce
  <1>13. ASSUME Mints(c)
         PROVE  SpentOnce(t)'
    <2>1. /\ UNCHANGED <<session, tmp, token>> /\ pc[c] = "mint" /\ job'[c] = job[c]
          /\ minted' = [minted EXCEPT ![token[c]] = @ + 1]
          /\ pc'[c] = "load" \/ (pc'[c] = "failed" /\ c \in unsure')
      BY <1>3, <1>13 DEF Mints
    <2>2. token[c] # None /\ job[c].op \in {"login", "complete"}
      BY <2>1 DEF IInv, StageInv, Staged
    <2>3. CASE t # token[c]
      <3>1. minted'[t] = minted[t]
        BY <1>1, <2>1, <2>3
      <3>2. session' = session /\ tmp' = tmp /\ token' = token
        BY <2>1
      <3>3. \A d \in Commands : pc[d] \in Saving => pc'[d] = pc[d] /\ job'[d] = job[d]
        BY <1>2, <2>1 DEF Saving
      <3>4. \A d \in Commands : pc'[d] = pc[d] \/ pc'[d] \notin Spending \cup {"unlink", "open"}
        BY <1>2, <2>1 DEF Spending
      <3> QED
        <4>1. minted'[t] <= 1
          BY <1>8, <3>1 DEF SpentOnce
        <4>2. CASE minted[t] # 1
          BY <3>1, <4>1, <4>2 DEF SpentOnce
        <4>3. CASE minted[t] = 1
          <5>1. /\ \A d \in Commands : token[d] = t => pc[d] \notin Spending
                /\ session = t => \E d \in Commands : token[d] = t /\ job[d].op = "complete" /\ pc[d] \in Saving
                /\ t \in Commands => tmp # t /\ pc[t] \notin {"unlink", "open"}
            BY <1>8, <4>3 DEF SpentOnce
          <5>2. \A d \in Commands : token'[d] = t => pc'[d] \notin Spending
            BY <3>2, <3>3, <3>4, <5>1
          <5>3. session' = t => \E d \in Commands : token'[d] = t /\ job'[d].op = "complete" /\ pc'[d] \in Saving
            BY <3>2, <3>3, <3>4, <5>1
          <5>4. t \in Commands => tmp' # t /\ pc'[t] \notin {"unlink", "open"}
            BY <3>2, <3>3, <3>4, <5>1
          <5> QED
            BY <4>1, <5>2, <5>3, <5>4 DEF SpentOnce
        <4> QED
          BY <4>2, <4>3
    <2>4. CASE t = token[c]
      <3>1. minted[t] = 0 /\ minted'[t] = 1
        BY <1>1, <1>8, <2>1, <2>4 DEF SpentOnce, Spending
      <3>2. pc'[c] = "load"
        BY <1>9, <2>1, <2>4
      <3>3. ASSUME NEW d \in Commands, token'[d] = t
            PROVE  pc'[d] \notin Spending
        <4>1. d = c \/ ~Live(d)
          BY <1>3, <1>9, <2>1, <2>4, <3>3 DEF OverlapInv, Live, Over
        <4> QED
          BY <1>2, <3>2, <4>1 DEF Live, Over, Spending
      <3>4. t \in Commands /\ t # c => tmp # t /\ pc[t] \in {"fill", "rename"} \cup Over
        BY <2>4 DEF TokenInv, Held
      <3>5. t = c => tmp # t /\ session # t
        BY <2>2 DEF TokenInv, Held
      <3>6. session = t => job[c].op = "complete"
        BY <1>1, <2>2, <2>4, <3>5 DEF TokenInv
      <3>7. t \in Commands => tmp' # t /\ pc'[t] \notin {"unlink", "open"}
        BY <1>2, <2>1, <3>2, <3>4, <3>5 DEF Over
      <3> QED
        BY <2>1, <2>4, <3>1, <3>2, <3>3, <3>6, <3>7 DEF SpentOnce, Saving
    <2> QED
      BY <2>3, <2>4
  <1>14. minted' = minted \/ Mints(c)
    BY KeyMoves DEF Starts, Takes, Arrives, GoesOn, Opens, Renames, Forgets, KeepsTokens
  <1> QED
    BY <1>1, <1>11, <1>12, <1>13, <1>14

\* Nothing changes for the sign-ins when a session expires or nothing happens.
LEMMA KeyInvariance ==
  ASSUME IInv, OverlapInv, TokenInv, KeyInv, [Next]_vars
  PROVE  TokenInv' /\ KeyInv'
  <1>1. ASSUME NEW c \in Commands, Step(c)
        PROVE  TokenInv' /\ KeyInv'
    BY <1>1, TokenStep, KeyStep
  <1>2. CASE UNCHANGED <<session, tmp, pc, job, token, minted, overlapped, unsure>>
    BY <1>2 DEF TokenInv, KeyInv, Held, Excused, SpentOnce
  <1> QED
    BY <1>1, <1>2 DEF Next, SessionExpires, AllOver, vars, fileVars, workVars, histVars

\* A sign-in is good for one key, unless two commands take its session at the
\* same time, the one that takes it is killed, or the answer to its mint is lost.
THEOREM OneKey == Spec => []OneKeyPerSignIn
  <1>1. Init => TokenInv /\ KeyInv
    BY CredentialsAssumption DEF Init, TokenInv, KeyInv, Held, SpentOnce, NoJob, Job, Printing
  <1>2. IInv /\ KeyInv => OneKeyPerSignIn
    BY DEF KeyInv, Excused, SpentOnce, OneKeyPerSignIn, IInv, TypeOK
  <1>3. Init => OverlapInv /\ WholeInv
    BY CredentialsAssumption DEF Init, OverlapInv, WholeInv, Live, TwoPrints
  <1> QED
    BY InitIInv, NextIInv, WholeInvariance, KeyInvariance, <1>1, <1>2, <1>3, PTL DEF Spec

-----------------------------------------------------------------------------
(* The two resolutions of a profile. *)

\* Whatever is in the credentials file, a daemon and a command that are started
\* beside each other resolve the same account, but for a project's key.
THEOREM BootstrapMirrors == Spec => []BootstrapMirrorsResolve
  <1>1. BootstrapMirrorsResolve
    <2>1. SUFFICES ASSUME NEW e \in BootEnvs, e.project = None \/ (e.profile = None /\ e.project.endpoint # None)
                   PROVE  resolveBootstrapProfile(e, file) = resolveAuth(e, file)
      BY DEF BootstrapMirrorsResolve
    <2>2. e.key = None
      BY DEF BootEnvs
    <2>3. CASE e.project = None
      BY <2>2, <2>3 DEF resolveBootstrapProfile, resolveAuth
    <2>4. CASE e.project # None
      BY <2>1, <2>2, <2>4 DEF resolveBootstrapProfile, resolveAuth
    <2> QED
      BY <2>3, <2>4
  <1> QED
    BY <1>1, PTL

=============================================================================
