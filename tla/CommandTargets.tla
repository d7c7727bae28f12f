--------------------------- MODULE CommandTargets ---------------------------
(***************************************************************************)
(* What a command acts on: how the commands of src/cli/commands find the   *)
(* channel, the automation or the people that their arguments name, what   *)
(* they check before they change anything, and what they leave behind when *)
(* a step fails.                                                           *)
(*                                                                         *)
(* A warm process runs one command at a time; the ids it has found by name *)
(* outlive the command.  Other members rename, archive and create channels *)
(* and join workspaces between any two of its steps, and other processes   *)
(* rewrite the files it attaches.                                          *)
(***************************************************************************)
EXTENDS Naturals, Sequences, FiniteSets

CONSTANTS
  Accounts,      \* the accounts that commands are run for
  ZeroAccount,   \* the account of the process's Zero session
  Workspaces,
  Channels,
  Automations,
  People,
  Labels,        \* the names of channels and the slugs of automations
  WsOf,          \* the workspace of a channel or an automation
  SlugOf,        \* slugFromId: two ids may have one slug
  Birth,         \* the order in which the channels were created
  Files,
  MaxPerFile,    \* MAX_PER_FILE_BYTES
  MaxTotal,      \* MAX_TOTAL_UPLOAD_BYTES
  Requests,      \* the command lines
  StartWorlds,   \* the servers' states to start from
  MaxCommands,   \* bound: how many commands run
  MaxChanges,    \* bound: how often others change something
  None

Targets == Channels \cup Automations
Scopes == Workspaces \cup {None}

ChannelOps == {"send", "read", "archive", "remove", "add", "create"}
AutomationOps == {"pause", "activate", "run", "runs", "update", "delete"}
Ops == ChannelOps \cup AutomationOps \cup {"dm"}

\* To whom a direct message goes: by display name, by id, or by one email.
Recipients == [names : SUBSET People, ids : SUBSET People,
               email : People \cup {None}]

\* ref: an id or a label; scope: --workspace, else the workspace the credential
\* is pinned to; basic: neither --thread nor --mention.
Commands == [op : Ops, account : Accounts, ref : Targets \cup Labels \cup {None},
             scope : Scopes, files : Seq(Files), empty : BOOLEAN,
             basic : BOOLEAN, to : Recipients]

\* What the servers hold: the labels, what exists (and is not archived), and
\* the workspaces each account is a member of.
Worlds == [label : [Targets -> Labels], there : SUBSET Targets,
           sees : [Accounts -> SUBSET Workspaces]]

Sizes == Nat \cup {None}

ASSUME TargetAssumption ==
  /\ ZeroAccount \in Accounts
  /\ Channels \cap Automations = {}
  /\ Targets \cap Labels = {}
  /\ None \notin Targets \cup Labels \cup Workspaces \cup People \cup Nat
  /\ WsOf \in [Targets -> Workspaces]
  /\ SlugOf \in [Automations -> Labels]
  /\ Birth \in [Channels -> Nat]
  /\ \A c, d \in Channels : Birth[c] = Birth[d] => c = d
  /\ MaxPerFile \in Nat /\ MaxTotal \in Nat
  /\ Requests \subseteq Commands /\ Requests # {}
  /\ \A r \in Requests : /\ r.op # "dm" => r.ref # None
                         /\ r.op = "create" => r.ref \in Labels
                         /\ IsFiniteSet(r.to.names) /\ IsFiniteSet(r.to.ids)
  /\ StartWorlds \subseteq Worlds
  /\ \A w \in StartWorlds, a \in Automations : w.label[a] = SlugOf[a]
  /\ MaxCommands \in Nat /\ MaxChanges \in Nat

VARIABLES
  world,      \* what the servers hold
  recent,     \* what they have held in the last five seconds
  disk,       \* the size of each file; None: there is none that can be attached
  changes,    \* how often others have changed something
  found,      \* channelIdByScopeAndName
  n,          \* the number of the command
  req,        \* its command line
  pc,         \* its place
  scope,      \* effectiveWorkspaceId
  target,     \* what its argument has turned out to mean
  bodies,     \* the files it has read
  attached,   \* the files it has uploaded
  viaZero,    \* whether Zero has confirmed its change
  unsure,     \* history: a change of this command has an unclear fate
  result,     \* how it ended
  acts,       \* history: what the commands have read or changed, in order
  ever        \* history: all that the servers have ever held

serverVars == <<world, recent, ever>>
outerVars == <<serverVars, disk, changes>>
cmdVars == <<n, req>>
vars == <<outerVars, found, cmdVars, pc, scope, target, bodies, attached,
          viaZero, unsure, result, acts>>

Body == [file : Files, size : Nat]

\* What was done: by which command, for which account, to whom, with what.
Acts == [n : Nat, req : Requests, to : SUBSET (Targets \cup People),
         files : Seq(Body)]

Pc == {"idle", "check", "zero", "auth", "workspaces", "stat", "readFile",
       "upload", "find", "plan", "write", "show"}

TypeOK ==
  /\ world \in Worlds
  /\ recent \subseteq Worlds
  /\ disk \in [Files -> Sizes]
  /\ changes \in Nat
  /\ found \in [Scopes -> [Labels -> Channels \cup {None}]]
  /\ n \in Nat
  /\ req \in Requests
  /\ pc \in Pc
  /\ scope \in Scopes
  /\ target \in Targets \cup {None}
  /\ bodies \in Seq(Body)
  /\ attached \in Seq(Body)
  /\ viaZero \in BOOLEAN
  /\ unsure \in BOOLEAN
  /\ result \in {"none", "ok", "error"}
  /\ acts \in Seq(Acts)
  /\ ever \subseteq Worlds

\* No command has run yet.
AnyRequest == CHOOSE r \in Requests : TRUE

NothingFound == [s \in Scopes |-> [l \in Labels |-> None]]

Init ==
  /\ world \in StartWorlds
  /\ recent = {world}
  /\ ever = {world}
  /\ disk \in [Files -> 1..MaxPerFile]
  /\ changes = 0
  /\ found = NothingFound
  /\ n = 0
  /\ req = AnyRequest
  /\ pc = "idle"
  /\ scope = None
  /\ target = None
  /\ bodies = <<>>
  /\ attached = <<>>
  /\ viaZero = FALSE
  /\ unsure = FALSE
  /\ result = "none"
  /\ acts = <<>>

-----------------------------------------------------------------------------
(* What others do                                                          *)

HoldsNow(w) ==
  /\ world' = w
  /\ recent' = recent \cup {w}
  /\ ever' = ever \cup {w}

OthersChange(w) ==
  /\ changes < MaxChanges
  /\ changes' = changes + 1
  /\ HoldsNow(w)
  /\ UNCHANGED <<disk, found, cmdVars, pc, scope, target, bodies, attached,
                 viaZero, unsure, result, acts>>

Rename == \E c \in Channels, l \in Labels : 
  OthersChange([world EXCEPT !.label[c] = l])

\* A channel is archived or an automation deleted.
Vanish == \E t \in world.there :
  OthersChange([world EXCEPT !.there = @ \ {t}])

JoinOrLeave == \E a \in Accounts, s \in SUBSET Workspaces :
  OthersChange([world EXCEPT !.sees[a] = s])

AlterFile == \E f \in Files, size \in 0..(MaxPerFile + 1) \cup {None} :
  /\ changes < MaxChanges
  /\ changes' = changes + 1
  /\ disk' = [disk EXCEPT ![f] = size]
  /\ UNCHANGED <<serverVars, found, cmdVars, pc, scope, target, bodies,
                 attached, viaZero, unsure, result, acts>>

\* Five seconds pass: no cached list is older than what is held now.
CachesExpire ==
  /\ recent # {world}
  /\ recent' = {world}
  /\ UNCHANGED <<world, ever, disk, changes, found, cmdVars, pc, scope, target,
                 bodies, attached, viaZero, unsure, result, acts>>

\* The warm process is replaced between two commands.
Restart ==
  /\ pc = "idle"
  /\ found' = NothingFound
  /\ UNCHANGED <<outerVars, cmdVars, pc, scope, target, bodies, attached,
                 viaZero, unsure, result, acts>>

-----------------------------------------------------------------------------
(* Helpers                                                                 *)

ByLabel == req.ref \in Labels

\* What an account sees of a kind of things in a workspace, or in all of its own.
Visible(w, a, kind, s) ==
  {t \in kind \cap w.there : /\ WsOf[t] \in w.sees[a]
                             /\ s = None \/ WsOf[t] = s}

Matches(w, a, kind, s, l) == {t \in Visible(w, a, kind, s) : w.label[t] = l}

TotalBytes[b \in Seq(Body)] ==
  IF b = <<>> THEN 0 ELSE Head(b).size + TotalBytes[Tail(b)]

\* The command goes on.
Goto(p) == pc' = p /\ UNCHANGED result

\* The command throws: withErrorHandler reports the error.
Fail == pc' = "idle" /\ result' = "error"

Finish == pc' = "idle" /\ result' = "ok"

Did(whom) == acts' = Append(acts, [n |-> n, req |-> req, to |-> whom,
                                   files |-> attached])

-----------------------------------------------------------------------------
(* Arguments                                                               *)

\* parseDmRecipients: at least one recipient, and an email only alone.
Total(to) ==
  Cardinality(to.names) + Cardinality(to.ids) + IF to.email = None THEN 0 ELSE 1

IsGroup(to) == Total(to) > 1

DmAccepted(to) == /\ Total(to) > 0
                  /\ ~(IsGroup(to) /\ to.email # None)

\* names[0], ids[0]
FirstOf(s) == IF s = {} THEN None ELSE CHOOSE p \in s : TRUE

\* toDmRequest
DmRequest(to) ==
  IF IsGroup(to)
    THEN [recipients |-> to.names \cup to.ids, one |-> {}]
    ELSE [recipients |-> {},
          one |-> {FirstOf(to.names), to.email, FirstOf(to.ids)} \ {None}]

\* An empty message needs a file.
HasContent == ~req.empty \/ req.files # <<>>

Accepted == HasContent /\ (req.op = "dm" => DmAccepted(req.to))

ZeroEligible == req.ref \in Channels /\ req.basic /\ req.files = <<>>

FirstStep(r) == CASE r.op = "send" -> "check"
                  [] r.op \in {"archive", "remove"} -> "zero"
                  [] OTHER -> "auth"

Begin(r) ==
  /\ pc = "idle"
  /\ n < MaxCommands
  /\ n' = n + 1
  /\ req' = r
  /\ pc' = FirstStep(r)
  /\ scope' = r.scope
  /\ target' = None
  /\ bodies' = <<>>
  /\ attached' = <<>>
  /\ viaZero' = FALSE
  /\ unsure' = FALSE
  /\ result' = "none"
  /\ UNCHANGED <<outerVars, found, acts>>

CheckArguments ==
  /\ pc = "check"
  /\ IF ~Accepted THEN Fail
     ELSE Goto(IF req.op = "dm" THEN "stat"
               ELSE IF ZeroEligible THEN "zero" ELSE "auth")
  /\ UNCHANGED <<outerVars, found, cmdVars, scope, target, bodies, attached,
                 viaZero, unsure, acts>>

\* Mutant of ResolvedAuth: archive and member-remove always go on to REST.
ResolvedAuthAgain ==
  CASE req.op = "send" -> Goto(IF ByLabel /\ scope = None THEN "workspaces" ELSE "stat")
    [] req.op = "dm" -> Goto("check")
    [] req.op \in {"read"} \cup AutomationOps -> Goto("find")
    [] OTHER -> Goto("write")

\* What follows resolveAuth.  What Zero has confirmed needs no REST call.
ResolvedAuth ==
  CASE req.op = "send" -> Goto(IF ByLabel /\ scope = None THEN "workspaces" ELSE "stat")
    [] req.op = "dm" -> Goto("check")
    [] req.op \in {"read"} \cup AutomationOps -> Goto("find")
    [] req.op \in {"archive", "remove"} -> IF viaZero THEN Finish ELSE Goto("write")
    [] req.op \in {"add", "create"} -> Goto("write")

\* resolveAuth throws if it finds no credentials.
ResolveAuth ==
  /\ pc = "auth"
  /\ ResolvedAuth \/ Fail
  /\ UNCHANGED <<outerVars, found, cmdVars, scope, target, bodies, attached,
                 viaZero, unsure, acts>>

-----------------------------------------------------------------------------
(* Which workspace, channel or automation                                  *)

\* Mutant of CountWorkspaces: the first of the workspaces will do.
AnyWorkspace ==
  /\ pc = "workspaces"
  /\ \E w \in recent, ws \in Workspaces :
       /\ ws \in w.sees[req.account]
       /\ Goto("stat") /\ scope' = ws
  /\ UNCHANGED <<outerVars, found, cmdVars, target, bodies, attached, viaZero,
                 unsure, acts>>

\* A send by name without a workspace asks for the workspaces of the key and
\* goes on only if there are not two of them.
CountWorkspaces ==
  /\ pc = "workspaces"
  /\ \/ \E w \in recent : LET seen == w.sees[req.account] IN
          \/ Cardinality(seen) > 1 /\ Fail /\ UNCHANGED scope
          \/ seen = {} /\ Goto("stat") /\ UNCHANGED scope
          \/ \E ws \in Workspaces : seen = {ws} /\ Goto("stat") /\ scope' = ws
     \/ Fail /\ UNCHANGED scope
  /\ UNCHANGED <<outerVars, found, cmdVars, target, bodies, attached, viaZero,
                 unsure, acts>>

\* resolveChannelId: an id is itself, and a name found before stays found.
FindKnown ==
  /\ pc = "find" /\ req.op = "read"
  /\ IF ByLabel THEN /\ found[scope][req.ref] # None
                     /\ target' = found[scope][req.ref]
                ELSE target' = req.ref
  /\ Goto("show")
  /\ UNCHANGED <<outerVars, found, cmdVars, scope, bodies, attached, viaZero,
                 unsure, acts>>

\* The list that resolveChannelId searches: Zero's, which shows what the
\* account of the daemon sees now and counts only if there is something in the
\* scope, or that of list_channels, which may be five seconds old.
ListedChannels ==
  {Matches(w, req.account, Channels, scope, req.ref) : w \in recent} \cup
  (IF Visible(world, ZeroAccount, Channels, scope) = {} THEN {}
   ELSE {Matches(world, ZeroAccount, Channels, scope, req.ref)})

\* Mutant of FindListed: a name is remembered whatever the scope.
FindListedUnscoped ==
  /\ pc = "find" /\ req.op = "read" /\ ByLabel
  /\ found[scope][req.ref] = None
  /\ \E m \in ListedChannels, c \in Channels :
       /\ m = {c}
       /\ target' = c
       /\ found' = [s \in Scopes |-> [found[s] EXCEPT ![req.ref] = c]]
       /\ Goto("show")
  /\ UNCHANGED <<outerVars, cmdVars, scope, bodies, attached, viaZero, unsure, acts>>

FindListed ==
  /\ pc = "find" /\ req.op = "read" /\ ByLabel
  /\ found[scope][req.ref] = None
  /\ \/ \E m \in ListedChannels, c \in Channels :
          /\ m = {c}
          /\ target' = c
          /\ found' = [found EXCEPT ![scope] = [@ EXCEPT ![req.ref] = c]]
          /\ Goto("show")
     \/ /\ \E m \in ListedChannels : Cardinality(m) # 1
        /\ Fail /\ UNCHANGED <<target, found>>
     \/ Fail /\ UNCHANGED <<target, found>>    \* list_channels fails
  /\ UNCHANGED <<outerVars, cmdVars, scope, bodies, attached, viaZero, unsure, acts>>

\* resolveSlugOrId over automation_list, which is never cached.
AutomationMatches ==
  LET listed == Visible(world, req.account, Automations, scope)
  IN  IF req.ref \in listed THEN {req.ref}
      ELSE {a \in listed : SlugOf[a] = req.ref}

FindAutomation ==
  /\ pc = "find" /\ req.op \in AutomationOps
  /\ \/ \E a \in Automations :
          /\ AutomationMatches = {a}
          /\ target' = a
          /\ Goto(IF req.op = "update" THEN "plan" ELSE "write")
     \/ Cardinality(AutomationMatches) # 1 /\ Fail /\ UNCHANGED target
     \/ Fail /\ UNCHANGED target
  /\ UNCHANGED <<outerVars, found, cmdVars, scope, bodies, attached, viaZero,
                 unsure, acts>>

\* `automation update` reads --from-file and puts the flags over it; either may
\* not parse.
ReadPlan ==
  /\ pc = "plan"
  /\ Goto("write") \/ Fail
  /\ UNCHANGED <<outerVars, found, cmdVars, scope, target, bodies, attached,
                 viaZero, unsure, acts>>

-----------------------------------------------------------------------------
(* Attachments                                                             *)

NextFile == req.files[Len(bodies) + 1]

\* readFileForUpload, its stat and its readFile: the file may change between.
StatFile ==
  /\ pc = "stat"
  /\ Len(bodies) < Len(req.files)
  /\ IF disk[NextFile] \in 1..MaxPerFile THEN Goto("readFile") ELSE Fail
  /\ UNCHANGED <<outerVars, found, cmdVars, scope, target, bodies, attached,
                 viaZero, unsure, acts>>

\* Mutant of ReadFile: a file is uploaded as soon as it is read.
UploadsAsItReads ==
  /\ pc = "readFile"
  /\ IF disk[NextFile] = None THEN Fail /\ UNCHANGED <<bodies, attached>>
     ELSE LET b == [file |-> NextFile, size |-> disk[NextFile]]
          IN  bodies' = Append(bodies, b) /\ attached' = Append(attached, b) /\ Goto("stat")
  /\ UNCHANGED <<outerVars, found, cmdVars, scope, target, viaZero, unsure, acts>>

ReadFile ==
  /\ pc = "readFile"
  /\ IF disk[NextFile] = None THEN Fail /\ UNCHANGED bodies
     ELSE /\ bodies' = Append(bodies, [file |-> NextFile, size |-> disk[NextFile]])
          /\ Goto("stat")
  /\ UNCHANGED <<outerVars, found, cmdVars, scope, target, attached, viaZero,
                 unsure, acts>>

\* All files are in memory: their total decides whether any is uploaded.  No
\* files: nothing to do.
CapTotal ==
  /\ pc = "stat"
  /\ Len(bodies) = Len(req.files)
  /\ IF bodies = <<>> THEN Goto("write")
     ELSE IF TotalBytes[bodies] <= MaxTotal THEN Goto("upload") ELSE Fail
  /\ UNCHANGED <<outerVars, found, cmdVars, scope, target, bodies, attached,
                 viaZero, unsure, acts>>

\* One shot per file; the first failure ends the command.
Upload ==
  /\ pc = "upload"
  /\ \/ /\ attached' = Append(attached, bodies[Len(attached) + 1])
        /\ Goto(IF Len(attached) + 1 = Len(bodies) THEN "write" ELSE "upload")
     \/ Fail /\ UNCHANGED attached
  /\ UNCHANGED <<outerVars, found, cmdVars, scope, target, bodies, viaZero,
                 unsure, acts>>

-----------------------------------------------------------------------------
(* The change                                                              *)

\* Where a message by name goes: to the channel created first of those that
\* have the name.
EarliestOf(m) == {c \in m : \A d \in m : Birth[c] <= Birth[d]}

\* To whom or what the server does it; {}: it refuses.
ServerTargets ==
  CASE req.op = "send" /\ ByLabel ->
         EarliestOf(Matches(world, req.account, Channels, scope, req.ref))
    [] req.op = "dm" -> DmRequest(req.to).recipients \cup DmRequest(req.to).one
    [] req.op = "create" ->
         {c \in Channels \ world.there : scope \in {None, WsOf[c]}}
    [] req.op \in AutomationOps -> {target} \cap world.there
    [] OTHER -> {req.ref} \cap world.there

\* The server's state after the change.
Changed(whom) ==
  CASE req.op \in {"archive", "delete"} -> [world EXCEPT !.there = @ \ whom]
    [] req.op = "create" ->
         [world EXCEPT !.there = @ \cup whom,
                       !.label = [t \in Targets |-> IF t \in whom THEN req.ref ELSE @[t]]]
    [] OTHER -> world

\* The server does it, to one of the channels that could be created.
Applied ==
  \E whom \in IF req.op = "create" THEN {{c} : c \in ServerTargets} ELSE {ServerTargets} :
    /\ whom # {}
    /\ Did(whom)
    /\ HoldsNow(Changed(whom))

NotApplied == UNCHANGED <<acts, serverVars>>

\* sendTextMessageViaZero, archiveChannelViaZero, removeChannelMemberViaZero:
\* confirmed; rejected; not there; or without a clear answer, none in time (the
\* command goes on) or a promise that fails with the connection (it does not).
ZeroWrite ==
  /\ pc = "zero"
  /\ \/ /\ Applied
        /\ viaZero' = TRUE
        /\ IF req.op = "send" THEN Finish ELSE Goto("auth")
        /\ UNCHANGED unsure
     \/ Fail /\ NotApplied /\ UNCHANGED <<viaZero, unsure>>
     \/ Goto("auth") /\ NotApplied /\ UNCHANGED <<viaZero, unsure>>
     \/ /\ Goto("auth") \/ Fail
        /\ Applied \/ NotApplied
        /\ unsure' = TRUE
        /\ UNCHANGED viaZero
  /\ UNCHANGED <<disk, changes, found, cmdVars, scope, target, bodies, attached>>

\* The REST call: done, refused, or failed with its fate unclear.
RestWrite ==
  /\ pc = "write"
  /\ \/ Applied /\ Finish /\ UNCHANGED unsure
     \/ NotApplied /\ Fail /\ UNCHANGED unsure
     \/ (Applied \/ NotApplied) /\ Fail /\ unsure' = TRUE
  /\ UNCHANGED <<disk, changes, found, cmdVars, scope, target, bodies, attached,
                 viaZero>>

\* `messages read` reads the channel over Zero or REST and prints it.
ShowMessages ==
  /\ pc = "show"
  /\ \/ Did({target}) /\ Finish
     \/ Fail /\ UNCHANGED acts
  /\ UNCHANGED <<outerVars, found, cmdVars, scope, target, bodies, attached,
                 viaZero, unsure>>

-----------------------------------------------------------------------------
Others == \/ Rename \/ Vanish \/ JoinOrLeave \/ AlterFile
          \/ CachesExpire \/ Restart

Next ==
  \/ Others
  \/ \E r \in Requests : Begin(r)
  \/ CheckArguments \/ ResolveAuth
  \/ CountWorkspaces \/ FindKnown \/ FindListed \/ FindAutomation \/ ReadPlan
  \/ StatFile \/ ReadFile \/ CapTotal \/ Upload
  \/ ZeroWrite \/ RestWrite \/ ShowMessages

Spec == Init /\ [][Next]_vars

-----------------------------------------------------------------------------
(* Properties                                                              *)

\* What was read or changed under a name was, at some time since the process
\* or its predecessor started, the only thing of that name in the scope the
\* command asked for: a slug as its caller sees it; a channel as the caller,
\* the account of the daemon's Zero session or an earlier caller sees it, for
\* the remembered ids (channel-target.ts:12) are not kept apart by account.
NamesMeanOneTarget == \A i \in DOMAIN acts :
  LET r == acts[i].req
  IN  r.ref \in Labels =>
        /\ r.op = "read" => \E w \in ever, a \in Accounts :
             acts[i].to = Matches(w, a, Channels, r.scope, r.ref)
        /\ r.op \in AutomationOps => \E w \in ever : 
             acts[i].to = Matches(w, r.account, Automations, r.scope, r.ref)

\* A message sent by channel name is in the workspace that --workspace or the
\* credential names, or else in one that was the only one its key could see;
\* only if the key could see none is that left to the server.  A direct message
\* reaches everybody it was addressed to and nobody else (send.ts:92-119,
\* recipients.ts:73-91).
SendsLandWhereAsked == \A i \in DOMAIN acts :
  LET r == acts[i].req
  IN  /\ r.op = "send" /\ r.ref \in Labels => \A c \in acts[i].to :
           \/ r.scope = WsOf[c]
           \/ /\ r.scope = None
              /\ \E w \in ever : w.sees[r.account] \in {{WsOf[c]}, {}}
      /\ r.op = "dm" =>
           acts[i].to = r.to.names \cup r.to.ids \cup ({r.to.email} \ {None})

\* A message carries the files that were asked for, all of them, in their order
\* and within the total that is allowed, also when the files change while they
\* are read; and no file is uploaded unless all of them could be read
\* (file-attachments.ts:180-226).
MessagesCarryTheirFiles ==
  /\ \A i \in DOMAIN acts : acts[i].req.op \in {"send", "dm"} =>
       /\ Len(acts[i].files) = Len(acts[i].req.files)
       /\ \A j \in DOMAIN acts[i].files :
            acts[i].files[j].file = acts[i].req.files[j]
       /\ acts[i].files # <<>> => TotalBytes[acts[i].files] <= MaxTotal
  /\ attached # <<>> => /\ Len(bodies) = Len(req.files)
                        /\ TotalBytes[bodies] <= MaxTotal

\* A command does what it is for once if it succeeds, and not at all if it
\* reports an error, unless a call got no answer or Zero had already confirmed
\* an archive or a removal when no credentials were found (archive.ts:48,
\* member-remove.ts:36).
OneChangeOrAnError ==
  LET mine == {i \in DOMAIN acts : acts[i].n = n}
  IN  /\ result = "ok" => mine # {}
      /\ ~unsure => \A i, j \in mine : i = j
      /\ result = "error" /\ ~unsure /\ mine # {} =>
           viaZero /\ req.op \in {"archive", "remove"}

=============================================================================
