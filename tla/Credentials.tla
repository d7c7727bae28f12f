---------------------------- MODULE Credentials ----------------------------
(***************************************************************************)
(* Signing in and the files that remember it: credentials.json             *)
(* (src/core/config.ts) and the session that `auth login                   *)
(* --print-workspaces` leaves for `auth complete`                          *)
(* (src/core/oauth-session.ts), under commands that run at the same time   *)
(* and may be killed.  A command's work between two of its waits or file   *)
(* calls is one step.  The servers (WorkOS, /route, /cp/workspaces,        *)
(* /api/cli-keys) answer or fail as the code allows for.                   *)
(***************************************************************************)
EXTENDS OAuthLoopback

CONSTANTS
  Profiles,      \* names of profiles, "default" and "local" among them
  Workspaces,
  HomeOf,        \* the regional host a workspace lives on
  FirstFiles,    \* what credentials.json may be before the first command
  MaxCrashes,    \* bounds the commands that are killed
  None,          \* no such thing
  NoFile,        \* credentials.json does not exist,
  Emptied,       \*   was opened for writing and has nothing in it yet,
  Garbled,       \*   or holds the remains of two writes
  Old            \* a session, or a key, from before the model begins

RegionHosts == {"us", "eu"}
Hosts == RegionHosts \cup {"apex", "staging"}

ASSUME CredentialsAssumption ==
  /\ {"default", "local"} \subseteq Profiles
  /\ None \notin Profiles \cup Workspaces \cup Commands \cup Hosts
  /\ Old \notin Commands \cup {None}
  /\ HomeOf \in [Workspaces -> Hosts \ {"apex"}]
  /\ MaxCrashes \in Nat

VARIABLES
  file,       \* credentials.json
  session,    \* whose file is at .session
  tmp,        \* whose file is at .session.tmp
  inode,      \* what is in the session file that a command created
  pc,         \* where each command is
  job,        \* what each command was asked to do
  auth,       \* the credentials a command resolved
  host,       \* the host a command mints its key at
  content,    \* what a command will write to credentials.json
  token,      \* the sign-in whose access token a command has
  minted,     \* keys minted with each access token
  crashes,
  overlapped, \* commands that ran while another did
  unsure,     \* commands whose mint was carried out without their knowing
  before      \* credentials.json when a command that runs alone began

fileVars == <<file, session, tmp, inode>>
workVars == <<auth, host, content, token>>
histVars == <<crashes, overlapped, unsure, before>>
vars == <<loopVars, fileVars, pc, job, workVars, minted, histVars>>

----------------------------------------------------------------------------
(* Profiles, keys and hosts *)

Keys == [ws : Workspaces, by : Commands \cup {Old}]

\* `endpoint` is "apex" where the file has none; `set` says which kind of
\* command chose the endpoint and is in no file
Entries == [key : Keys, endpoint : Hosts, ws : Workspaces, set : {"signin", "refresh"}]

Contents == [Profiles -> Entries \cup {None}]
NoProfiles == [p \in Profiles |-> None]
Unreadable == {NoFile, Emptied, Garbled}

ASSUME FileAssumption ==
  \A v \in Unreadable \cup {None} : v \notin Contents /\ v \notin Entries
ASSUME NoneIsNotAFile == None \notin Unreadable

\* loadJson: null for a file that is missing or does not parse
Load(f) == IF f \in Unreadable THEN None ELSE f
LoadOrEmpty(f) == IF f \in Unreadable THEN NoProfiles ELSE f

EnvOf(h) == IF h = "staging" THEN "staging" ELSE "prod"
SameEnv(h, w) == EnvOf(h) = EnvOf(HomeOf[w])

\* A key, or a mint, for w is good where w lives; the apex may route there
Serves(h, w) == h = HomeOf[w] \/ (h = "apex" /\ SameEnv(h, w))

\* What /route says of w: its region when it knows it, the caller's otherwise
Route(w) == IF HomeOf[w] \in RegionHosts THEN {HomeOf[w]} ELSE RegionHosts

----------------------------------------------------------------------------
(* Which credentials a command uses.  An environment e has the key of       *)
(* --key or ANO_API_KEY, the project's config, --profile or ANO_PROFILE,    *)
(* and whether the working directory is under a running dev:local.          *)

Choice(key, endpoint, from) == [key |-> key, endpoint |-> endpoint, from |-> from]

Profile(f, p) == Choice(f[p].key, f[p].endpoint, p)

\* creds.profiles.default ?? Object.values(creds.profiles)[0]
FirstProfile(f) ==
  IF f["default"] # None THEN "default" ELSE CHOOSE p \in Profiles : f[p] # None

FromProfiles(f, auto) ==
  IF auto /\ f["local"] # None THEN Profile(f, "local")
  ELSE IF f = NoProfiles THEN None ELSE Profile(f, FirstProfile(f))

Named(f, p) == IF f # None /\ f[p] # None THEN Profile(f, p) ELSE None

resolveAuth(e, f) ==
  IF e.key # None THEN Choice(e.key, "apex", "env")
  ELSE IF e.project # None
    THEN Choice(e.project.key,
                IF e.project.endpoint = None THEN "apex" ELSE e.project.endpoint, "project")
  ELSE IF e.profile # None THEN Named(Load(f), e.profile)
  ELSE IF Load(f) = None THEN None ELSE FromProfiles(f, e.auto)

\* Mutant of resolveBootstrapProfile: auto-local is the commands' only.
BootstrapDefault(e, f) ==
  IF e.profile # None THEN Named(Load(f), e.profile)
  ELSE IF e.project # None /\ e.project.endpoint # None
    THEN Choice(e.project.key, e.project.endpoint, "project")
  ELSE IF Load(f) = None THEN None ELSE FromProfiles(f, FALSE)

resolveBootstrapProfile(e, f) ==
  IF e.profile # None THEN Named(Load(f), e.profile)
  ELSE IF e.project # None /\ e.project.endpoint # None
    THEN Choice(e.project.key, e.project.endpoint, "project")
  ELSE IF Load(f) = None THEN None ELSE FromProfiles(f, e.auto)

----------------------------------------------------------------------------
(* What commands are asked to do *)

Job(op, profile, endpoint, ws, auto) ==
  [op |-> op, profile |-> profile, endpoint |-> endpoint, ws |-> ws, auto |-> auto]

Flags == {None, "local"}
SignInHosts == {"apex", "staging"}

LoginJobs == {Job(op, p, h, w, FALSE) : op \in {"login", "key"}, p \in Flags, h \in SignInHosts, w \in Workspaces}
PrintJobs == {Job("print", None, h, None, FALSE) : h \in SignInHosts}
CompleteJobs == {Job("complete", p, None, w, FALSE) : p \in Flags, w \in Workspaces}
EditJobs == {Job(op, p, None, None, FALSE) : op \in {"logout", "refresh"}, p \in Flags}
UseJobs == {Job("use", p, None, w, a) : p \in Flags, w \in Workspaces, a \in BOOLEAN}

Jobs == LoginJobs \cup PrintJobs \cup CompleteJobs \cup EditJobs \cup UseJobs
NoJob == Job("none", None, None, None, FALSE)

\* Sign-ins read the profile that the root command parsed; the other commands
\* read their own option of the same name, which then has its default.
Target(j) == IF j.op \in {"login", "key"} /\ j.profile # None THEN j.profile ELSE "default"

Over == {"ok", "failed", "crashed"}
Live(c) == pc[c] \notin Over \cup {"new"}

Stages ==
  {"new", "oauth", "list", "unlink", "open", "fill", "rename", "mint",
   "load", "route", "truncate", "write", "forget", "forgetFailed"} \cup Over

FileTypeOK ==
  /\ file \in Contents \cup Unreadable
  /\ session \in Commands \cup {None, Old}
  /\ tmp \in Commands \cup {None}
  /\ inode \in [Commands \cup {Old} -> {"none", "empty", "full", "expired"}]

WorkTypeOK ==
  /\ auth \in [Commands -> [key : Keys, endpoint : Hosts, from : Profiles] \cup {None}]
  /\ host \in [Commands -> Hosts \cup {None}]
  /\ content \in [Commands -> Contents \cup {None}]
  /\ token \in [Commands -> Commands \cup {Old, None}]

HistTypeOK ==
  /\ crashes \in 0..MaxCrashes
  /\ overlapped \in SUBSET Commands /\ unsure \in SUBSET Commands
  /\ before \in [Commands -> Contents \cup Unreadable \cup {None}]

TypeOK ==
  /\ LoopTypeOK /\ FileTypeOK /\ WorkTypeOK /\ HistTypeOK
  /\ pc \in [Commands -> Stages]
  /\ job \in [Commands -> Jobs \cup {NoJob}]
  /\ minted \in [Commands \cup {Old} -> Nat]

EntryOf(w, by, h, how) ==
  [key |-> [ws |-> w, by |-> by], endpoint |-> h, ws |-> w, set |-> how]

\* What earlier commands may have left: a key from the time before regions, and
\* one of staging; a session that waits for `auth complete`
OldContents ==
  {f \in [Profiles -> {EntryOf(w, Old, h, "signin") : w \in Workspaces, h \in {"apex", "staging"}} \cup {None}] :
     \A p \in Profiles : f[p] # None => SameEnv(f[p].endpoint, f[p].ws)}

ASSUME FirstFilesAssumption == FirstFiles \subseteq OldContents \cup {NoFile}

Init ==
  /\ LoopInit
  /\ file \in FirstFiles
  /\ session \in {None, Old}
  /\ tmp = None
  /\ inode = [c \in Commands \cup {Old} |-> IF c = Old THEN "full" ELSE "none"]
  /\ pc = [c \in Commands |-> "new"]
  /\ job = [c \in Commands |-> NoJob]
  /\ auth = [c \in Commands |-> None]
  /\ host = [c \in Commands |-> None]
  /\ content = [c \in Commands |-> None]
  /\ token = [c \in Commands |-> None]
  /\ minted = [c \in Commands \cup {Old} |-> 0]
  /\ crashes = 0
  /\ overlapped = {}
  /\ unsure = {}
  /\ before = [c \in Commands |-> None]

----------------------------------------------------------------------------
(* Steps *)

Go(c, next) == pc' = [pc EXCEPT ![c] = next]

\* The command ends and forgets what it held
End(c, result) ==
  /\ Go(c, result)
  /\ auth' = [auth EXCEPT ![c] = None]
  /\ host' = [host EXCEPT ![c] = None]
  /\ content' = [content EXCEPT ![c] = None]
  /\ token' = token
  /\ before' = [before EXCEPT ![c] = None]

Fail(c) == End(c, "failed") /\ UNCHANGED <<crashes, overlapped, unsure>>

\* The command is started with job j; the history of who overlapped whom
Enter(c, j) ==
  LET others == {d \in Commands : Live(d)}
  IN /\ pc[c] = "new"
     /\ job' = [job EXCEPT ![c] = j]
     /\ overlapped' = IF others = {} THEN overlapped ELSE overlapped \cup others \cup {c}
     /\ before' = IF others = {} THEN [before EXCEPT ![c] = file]
                  ELSE [d \in Commands |-> IF d \in others THEN None ELSE before[d]]
     /\ UNCHANGED <<crashes, unsure>>

\* login, and login --print-workspaces: runOAuthLogin
BeginSignIn(c) ==
  \E j \in {k \in LoginJobs : k.op = "login"} \cup PrintJobs :
    /\ Enter(c, j)
    /\ Go(c, "oauth")
    /\ StartLoopback(c)
    /\ UNCHANGED <<fileVars, workVars, minted>>

\* complete: loadSession takes a whole session that is not past its time
BeginComplete(c) ==
  \E j \in CompleteJobs :
    /\ Enter(c, j)
    /\ IF session # None /\ inode[session] = "full"
         THEN Go(c, "list") /\ token' = [token EXCEPT ![c] = session]
         ELSE Go(c, "failed") /\ UNCHANGED token
    /\ UNCHANGED <<loopVars, fileVars, auth, host, content, minted>>

\* login --key: the key's own workspace, and its region when asked at the apex
BeginKeyLogin(c) ==
  \E j \in {k \in LoginJobs : k.op = "key"} :
    /\ Enter(c, j)
    /\ \/ /\ Serves(j.endpoint, j.ws)
          /\ \E h \in {j.endpoint} \cup (IF j.endpoint = "apex" THEN Route(j.ws) ELSE {}) :
               host' = [host EXCEPT ![c] = h]
          /\ Go(c, "load")
       \/ Go(c, "failed") /\ UNCHANGED host
    /\ UNCHANGED <<loopVars, fileVars, auth, content, token, minted>>

\* workspaces use: resolveAuth, before it asks the server (it is given no key here,
\* and no project)
BeginUse(c) ==
  \E j \in UseJobs :
    LET chosen == resolveAuth([key |-> None, project |-> None, profile |-> j.profile, auto |-> j.auto], file)
    IN /\ Enter(c, j)
       /\ IF chosen = None
            THEN Go(c, "failed") /\ UNCHANGED auth
            ELSE Go(c, "list") /\ auth' = [auth EXCEPT ![c] = chosen]
       /\ UNCHANGED <<loopVars, fileVars, host, content, token, minted>>

\* logout and refresh-region read the file first
BeginEdit(c) ==
  \E j \in EditJobs :
    /\ Enter(c, j)
    /\ Go(c, "load")
    /\ UNCHANGED <<loopVars, fileVars, workVars, minted>>

\* The callback is there: exchangeCodeForToken and the workspaces come next
SignedIn(c) ==
  /\ pc[c] = "oauth"
  /\ \/ /\ flow[c] = "resolved"
        /\ Go(c, "list")
        /\ token' = [token EXCEPT ![c] = c]
        /\ UNCHANGED <<auth, host, content, histVars>>
     \/ flow[c] = "rejected" /\ Fail(c)
  /\ UNCHANGED <<loopVars, fileVars, job, minted>>

SignInHost(t) == IF t = Old THEN "apex" ELSE job[t].endpoint

\* Mutant of MintHosts: a region is followed from any endpoint.
MintHostsAnywhere(h, w) == {h} \cup Route(w)

\* Where a key for w is minted: only a sign-in through the apex is sent to the
\* region, and only when the workspace list or /route named it
MintHosts(h, w) == {h} \cup (IF h = "apex" THEN Route(w) ELSE {})

\* The workspaces of the account are listed, and one is taken
ListWorkspaces(c) ==
  LET j == job[c]
      signInHost == SignInHost(token[c])
  IN /\ pc[c] = "list"
     /\ \/ /\ j.op = "print"
           /\ Go(c, "unlink")
           /\ UNCHANGED <<workVars, histVars>>
        \/ /\ j.op \in {"login", "complete"}
           /\ SameEnv(signInHost, j.ws)
           /\ \E h \in MintHosts(signInHost, j.ws) : host' = [host EXCEPT ![c] = h]
           /\ Go(c, "mint")
           /\ UNCHANGED <<auth, content, token, histVars>>
        \/ /\ j.op = "use"
           /\ Serves(auth[c].endpoint, auth[c].key.ws)
           /\ SameEnv(auth[c].endpoint, j.ws)
           /\ Go(c, "load")
           /\ UNCHANGED <<workVars, histVars>>
        \/ Fail(c)
     /\ UNCHANGED <<loopVars, fileVars, job, minted>>

\* saveSession: the four file calls of atomicWriteSecret
UnlinkTmp(c) ==
  /\ pc[c] = "unlink"
  /\ tmp' = None
  /\ Go(c, "open")
  /\ UNCHANGED <<loopVars, file, session, inode, job, workVars, minted, histVars>>

\* Mutant of OpenTmp: the session is written in place.
OpenSession(c) ==
  /\ pc[c] = "open"
  /\ session' = c
  /\ inode' = [inode EXCEPT ![c] = "empty"]
  /\ Go(c, "fill")
  /\ UNCHANGED <<loopVars, file, tmp, job, workVars, minted, histVars>>

\* O_EXCL
OpenTmp(c) ==
  /\ pc[c] = "open"
  /\ IF tmp = None
       THEN /\ tmp' = c
            /\ inode' = [inode EXCEPT ![c] = "empty"]
            /\ Go(c, "fill")
            /\ UNCHANGED <<workVars, histVars>>
       ELSE Fail(c) /\ UNCHANGED <<tmp, inode>>
  /\ UNCHANGED <<loopVars, file, session, job, minted>>

\* writeSync and fsyncSync, to the file that was opened wherever it is by now.
\* Either may throw: the half-written file stays, and the command fails.
FillTmp(c) ==
  /\ pc[c] = "fill"
  /\ \/ /\ inode' = [inode EXCEPT ![c] = "full"]
        /\ Go(c, "rename")
        /\ UNCHANGED <<workVars, histVars>>
     \/ Fail(c) /\ UNCHANGED inode
  /\ UNCHANGED <<loopVars, file, session, tmp, job, minted>>

RenameTmp(c) ==
  /\ pc[c] = "rename"
  /\ IF tmp # None
       THEN session' = tmp /\ tmp' = None /\ End(c, "ok") /\ UNCHANGED <<crashes, overlapped, unsure>>
       ELSE Fail(c) /\ UNCHANGED <<session, tmp>>
  /\ UNCHANGED <<loopVars, file, inode, job, minted>>

\* mintCliKey: carried out where the workspace lives; the answer may be lost
Mint(c) ==
  LET t == token[c]
  IN /\ pc[c] = "mint"
     /\ \/ /\ Serves(host[c], job[c].ws)
           /\ minted' = [minted EXCEPT ![t] = @ + 1]
           /\ \/ Go(c, "load") /\ UNCHANGED <<workVars, histVars>>
              \/ /\ End(c, "failed")
                 /\ unsure' = unsure \cup {c}
                 /\ UNCHANGED <<crashes, overlapped>>
        \/ Fail(c) /\ UNCHANGED minted
     /\ UNCHANGED <<loopVars, fileVars, job>>

\* Mutant of SavedProfile: the profile is saved alone.
SavedProfileAlone(c, f) ==
  [NoProfiles EXCEPT ![Target(job[c])] = EntryOf(job[c].ws, c, host[c], "signin")]

\* saveProfile: into what the file holds
SavedProfile(c, f) ==
  [LoadOrEmpty(f) EXCEPT ![Target(job[c])] = EntryOf(job[c].ws, c, host[c], "signin")]

\* What a command that has loaded f makes of it; None when it has nothing to save
Edited(c, f) ==
  LET p == Target(job[c])
      present == Load(f) # None /\ f[p] # None
  IN CASE job[c].op \in {"login", "complete", "key"} -> SavedProfile(c, f)
       [] job[c].op = "logout" -> IF present THEN [f EXCEPT ![p] = None] ELSE None
       [] job[c].op = "use" -> IF present THEN [f EXCEPT ![p].ws = job[c].ws] ELSE None
       [] job[c].op = "refresh" -> IF present THEN f ELSE None

\* loadGlobalCredentials, and the change made to it in memory
LoadCredentials(c) ==
  LET new == Edited(c, file)
  IN /\ pc[c] = "load"
     /\ IF new = None
          THEN /\ End(c, IF job[c].op = "logout" THEN "ok" ELSE "failed")
               /\ UNCHANGED <<crashes, overlapped, unsure>>
          ELSE /\ content' = [content EXCEPT ![c] = new]
               /\ Go(c, IF job[c].op = "refresh" THEN "route" ELSE "truncate")
               /\ UNCHANGED <<auth, host, token, histVars>>
     /\ UNCHANGED <<loopVars, fileVars, job, minted>>

\* The profile with the region that /route named
Moved(e, h) == [e EXCEPT !.endpoint = h, !.set = "refresh"]

\* refresh-region asks /route between its load and its save
RefreshRegion(c) ==
  LET p == Target(job[c])
      e == content[c][p]
  IN /\ pc[c] = "route"
     /\ \/ \E h \in Route(e.ws) :
             IF h = e.endpoint
               THEN End(c, "ok") /\ UNCHANGED <<crashes, overlapped, unsure>>
               ELSE /\ content' = [content EXCEPT ![c][p] = Moved(e, h)]
                    /\ Go(c, "truncate")
                    /\ UNCHANGED <<auth, host, token, histVars>>
        \/ Fail(c)
     /\ UNCHANGED <<loopVars, fileVars, job, minted>>

\* Mutant of SaveEnds: the session is deleted only after a profile was saved.
SaveEndsWithoutFinally(c, saved) ==
  IF job[c].op = "complete" /\ saved
    THEN Go(c, "forget") /\ UNCHANGED <<workVars, histVars>>
    ELSE End(c, IF saved THEN "ok" ELSE "failed") /\ UNCHANGED <<crashes, overlapped, unsure>>

\* `complete` deletes its session whether the profile was saved or not
SaveEnds(c, saved) ==
  IF job[c].op = "complete"
    THEN Go(c, IF saved THEN "forget" ELSE "forgetFailed") /\ UNCHANGED <<workVars, histVars>>
    ELSE End(c, IF saved THEN "ok" ELSE "failed") /\ UNCHANGED <<crashes, overlapped, unsure>>

\* saveGlobalCredentials: writeFileSync empties the file as it opens it ...
TruncateCredentials(c) ==
  /\ pc[c] = "truncate"
  /\ \/ file' = Emptied /\ Go(c, "write") /\ UNCHANGED <<workVars, histVars>>
     \/ UNCHANGED file /\ SaveEnds(c, FALSE)
  /\ UNCHANGED <<loopVars, session, tmp, inode, job, minted>>

\* ... and writes from its start: over what another command has written by then,
\* of which a longer text leaves its end; a full disk leaves a part
WriteCredentials(c) ==
  /\ pc[c] = "write"
  /\ \/ /\ file' \in {content[c]} \cup (IF file = Emptied THEN {} ELSE {Garbled})
        /\ SaveEnds(c, TRUE)
     \/ file' = Garbled /\ SaveEnds(c, FALSE)
  /\ UNCHANGED <<loopVars, session, tmp, inode, job, minted>>

\* deleteSession removes whatever is at the path by now
ForgetSession(c) ==
  /\ pc[c] \in {"forget", "forgetFailed"}
  /\ session' = None
  /\ End(c, IF pc[c] = "forget" THEN "ok" ELSE "failed")
  /\ UNCHANGED <<loopVars, file, tmp, inode, job, minted, crashes, overlapped, unsure>>

\* Five minutes go by
SessionExpires ==
  /\ session # None /\ inode[session] = "full"
  /\ inode' = [inode EXCEPT ![session] = "expired"]
  /\ UNCHANGED <<loopVars, file, session, tmp, pc, job, workVars, minted, histVars>>

\* A command is killed: its files stay, its servers close
Crash(c) ==
  /\ crashes < MaxCrashes /\ Live(c)
  /\ crashes' = crashes + 1
  /\ End(c, "crashed")
  /\ stack' = [stack EXCEPT ![c] = AllClosed]
  /\ flow' = [flow EXCEPT ![c] = IF @ = "waiting" THEN "rejected" ELSE @]
  /\ UNCHANGED <<opened, codeOf, fileVars, job, minted, overlapped, unsure>>

Loopback(c) ==
  /\ LoopNext(c)
  /\ UNCHANGED <<fileVars, pc, job, workVars, minted, histVars>>

AllOver ==
  /\ \A c \in Commands : pc[c] \in Over
  /\ UNCHANGED vars

Step(c) ==
  \/ BeginSignIn(c) \/ BeginComplete(c) \/ BeginKeyLogin(c) \/ BeginUse(c) \/ BeginEdit(c)
  \/ Loopback(c) \/ SignedIn(c) \/ ListWorkspaces(c) \/ Mint(c)
  \/ UnlinkTmp(c) \/ OpenTmp(c) \/ FillTmp(c) \/ RenameTmp(c)
  \/ LoadCredentials(c) \/ RefreshRegion(c)
  \/ TruncateCredentials(c) \/ WriteCredentials(c) \/ ForgetSession(c)
  \/ Crash(c)

Next == (\E c \in Commands : Step(c)) \/ SessionExpires \/ AllOver

Spec == Init /\ [][Next]_vars

----------------------------------------------------------------------------
(* Properties *)

Ends(c) == Live(c) /\ pc'[c] = "ok"

\* Does the step that ends c leave what the file held for p as c found it?
Kept(c, p) == LoadOrEmpty(file')[p] = LoadOrEmpty(before[c])[p]

\* A command that runs alone and succeeds changes its own profile and no other,
\* through its load, its waits and the two halves of its save
\* (auth-helpers.ts:155, config.ts:62).
OthersKept ==
  [][\A c \in Commands : Ends(c) /\ c \notin overlapped =>
       \A p \in Profiles \ {Target(job[c])} : Kept(c, p)]_vars

\* complete.ts:112-117: a session is good for one key.  It is, unless two
\* commands take it at the same time, the one that takes it is killed, or the
\* answer to its mint is lost.
OneKeyPerSignIn ==
  \A t \in Commands \cup {Old} : minted[t] > 1 =>
    \E c \in Commands : token[c] = t /\ (c \in overlapped \cup unsure \/ pc[c] = "crashed")

\* auth-complete.test.ts:357, login.ts:270-279: a sign-in to staging stays there.
\* No token goes to a host of the other environment, and a profile that a sign-in
\* saved points where its key is good, whoever else writes the file.
EnvironmentsStayApart ==
  /\ \A c \in Commands : pc[c] = "mint" => EnvOf(host[c]) = EnvOf(SignInHost(token[c]))
  /\ \A p \in Profiles :
       LET e == LoadOrEmpty(file)[p]
       IN e # None /\ e.set = "signin" => Serves(e.endpoint, e.key.ws)

\* oauth-session.ts:147: whoever is killed wherever, the session path never holds
\* a part of a session.  (Two sign-ins at once may still rename each other's file.)
SessionFileIsWhole ==
  session # None /\ inode[session] = "empty" =>
    \E c, d \in overlapped : c # d /\ job[c].op = "print" /\ job[d].op = "print"

\* All the environments a daemon can be started from, with no key given
BootEnvs ==
  [key : {None}, profile : Profiles \cup {None}, auto : BOOLEAN,
   project : [key : {[ws |-> w, by |-> Old] : w \in Workspaces}, endpoint : {None, "staging"}] \cup {None}]

\* auth.ts:133: the daemon picks the account that a command started beside it
\* picks, from any credentials file that ever is there.  (A project's key comes
\* first for the one and ANO_PROFILE for the other, and only the daemon wants an
\* endpoint with it.)
BootstrapMirrorsResolve ==
  \A e \in BootEnvs :
    e.project = None \/ (e.profile = None /\ e.project.endpoint # None) =>
      resolveBootstrapProfile(e, file) = resolveAuth(e, file)

=============================================================================
