-------------------------- MODULE WarmProcessProofs --------------------------
(***************************************************************************)
(* Proofs about what runs in a warm process: what its commands act on      *)
(* (CommandTargets), for any accounts, workspaces, channels, people, files *)
(* and requests, and how it dispatches them (CommandDispatch), for any set *)
(* of requests.                                                            *)
(***************************************************************************)
EXTENDS CommandTargets, DispatchPromises, FiniteSetTheorems, SequenceTheorems, TLAPS

-----------------------------------------------------------------------------
(* The inductive invariant of CommandTargets                               *)

\* Where each command can be, and what it was before.
PathInv ==
  /\ pc # "idle" => result = "none"
  /\ pc = "check" => req.op \in {"send", "dm"}
  /\ pc = "zero" => \/ req.op \in {"archive", "remove"}
                    \/ req.op = "send" /\ ZeroEligible
  /\ pc = "workspaces" => req.op = "send" /\ ByLabel /\ scope = None
  /\ pc \in {"stat", "readFile", "upload"} => req.op \in {"send", "dm"}
  /\ pc = "find" => req.op \in {"read"} \cup AutomationOps
  /\ pc = "plan" => req.op = "update"
  /\ pc = "write" => req.op # "read"
  /\ pc = "show" => req.op = "read"
  /\ pc \in {"stat", "readFile", "upload", "write"} /\ req.op = "dm" => DmAccepted(req.to)

\* What the servers hold now is among what the lists may show, and that among
\* what they ever held; nobody changes a slug.
WorldInv ==
  /\ world \in recent
  /\ recent \subseteq ever
  /\ \A w \in ever, a \in Automations : w.label[a] = SlugOf[a]

\* The workspace that was asked for, or else the only one there was.
AskedScope ==
  \/ scope = req.scope /\ scope # None
  \/ /\ req.scope = None
     /\ \E w \in ever : w.sees[req.account] = {scope} \ {None}

ScopeInv ==
  /\ pc \in {"check", "zero", "auth", "workspaces"} => scope = req.scope
  /\ pc # "idle" /\ req.op # "send" => scope = req.scope
  /\ pc \in {"stat", "readFile", "upload", "write"} /\ req.op = "send" /\ ByLabel => AskedScope

\* A channel that was found by its name was the only one.
OnceAlone(s, l, c) == \E w \in ever, a \in Accounts : Matches(w, a, Channels, s, l) = {c}

TargetInv ==
  /\ \A s \in Scopes, l \in Labels :
       found[s][l] # None => OnceAlone(s, l, found[s][l])
  /\ pc = "show" => target # None
  /\ pc = "show" /\ ByLabel => OnceAlone(req.scope, req.ref, target)
  /\ pc \in {"plan", "write"} /\ req.op \in AutomationOps /\ ByLabel =>
       \E w \in ever : Matches(w, req.account, Automations, req.scope, req.ref) = {target}

\* b holds the files of r in their order, and within the total.
CarriesFiles(b, r) ==
  /\ Len(b) = Len(r.files)
  /\ \A j \in DOMAIN b : b[j].file = r.files[j]
  /\ b # <<>> => TotalBytes[b] <= MaxTotal

\* How far the command has come with its files.
FilesInv ==
  /\ Len(bodies) <= Len(req.files)
  /\ \A j \in DOMAIN bodies : bodies[j].file = req.files[j]
  /\ Len(attached) <= Len(bodies)
  /\ \A j \in DOMAIN attached : attached[j] = bodies[j]
  /\ pc \in {"check", "zero", "auth", "workspaces"} => bodies = <<>>
  /\ pc = "readFile" => Len(bodies) < Len(req.files)
  /\ pc \in {"stat", "readFile"} => attached = <<>>
  /\ pc = "upload" => Len(attached) < Len(bodies)
  /\ attached # <<>> \/ pc = "upload" => CarriesFiles(bodies, req)
  /\ pc = "write" /\ req.op \in {"send", "dm"} =>
       attached = bodies /\ CarriesFiles(bodies, req)

\* What this command has done so far.
Mine == {i \in DOMAIN acts : acts[i].n = n}

ChangeInv ==
  /\ \A i \in DOMAIN acts : acts[i].n <= n
  /\ result = "ok" => Mine # {}
  /\ pc # "idle" /\ viaZero => pc = "auth" /\ req.op \in {"archive", "remove"}
  /\ viaZero => Mine # {}
  /\ Mine # {} /\ ~unsure /\ result # "ok" => viaZero /\ req.op \in {"archive", "remove"}
  /\ ~unsure => \A i, j \in Mine : i = j

IInv == /\ TypeOK /\ PathInv /\ WorldInv /\ ScopeInv /\ TargetInv /\ FilesInv /\ ChangeInv
        /\ NamesMeanOneTarget /\ SendsLandWhereAsked /\ MessagesCarryTheirFiles

-----------------------------------------------------------------------------
(* What the definitions say                                                *)

\* What a command line is made of.
LEMMA RequestFacts ==
  ASSUME NEW r \in Requests
  PROVE  /\ r.op \in Ops /\ r.account \in Accounts /\ r.scope \in Scopes
         /\ r.ref \in Targets \cup Labels \cup {None}
         /\ r.files \in Seq(Files) /\ Len(r.files) \in Nat
         /\ r.to.names \in SUBSET People /\ r.to.ids \in SUBSET People
         /\ r.to.email \in People \cup {None}
         /\ r.op # "dm" => r.ref # None
         /\ r.op = "create" => r.ref \in Labels
         /\ IsFiniteSet(r.to.names) /\ IsFiniteSet(r.to.ids)
  BY TargetAssumption DEF Commands, Recipients

\* What Append does to a sequence.
LEMMA AppendFacts ==
  ASSUME NEW S, NEW q \in Seq(S), NEW x \in S
  PROVE  /\ Append(q, x) \in Seq(S)
         /\ Len(q) \in Nat /\ Len(Append(q, x)) = Len(q) + 1
         /\ DOMAIN q = 1..Len(q)
         /\ DOMAIN Append(q, x) = (DOMAIN q) \cup {Len(q) + 1}
         /\ \A i \in DOMAIN q : Append(q, x)[i] = q[i]
         /\ Append(q, x)[Len(q) + 1] = x
  OBVIOUS

\* The empty sequence, and the only sequence without elements.
LEMMA EmptyFacts ==
  ASSUME NEW S
  PROVE  /\ <<>> \in Seq(S) /\ Len(<<>>) = 0 /\ DOMAIN <<>> = {}
         /\ \A q \in Seq(S) : Len(q) = 0 => q = <<>>
  OBVIOUS

\* What a command has done is added at the end of what was done before.
LEMMA DidFacts ==
  ASSUME TypeOK, NEW whom \in SUBSET (Targets \cup People), Did(whom)
  PROVE  \E last \in Nat :
           /\ last = Len(acts) + 1 /\ acts' \in Seq(Acts)
           /\ DOMAIN acts = 1..Len(acts)
           /\ DOMAIN acts' = (DOMAIN acts) \cup {last}
           /\ \A i \in DOMAIN acts : acts'[i] = acts[i]
           /\ acts'[last].n = n /\ acts'[last].req = req
           /\ acts'[last].to = whom /\ acts'[last].files = attached
<1>1. [n |-> n, req |-> req, to |-> whom, files |-> attached] \in Acts
  BY DEF TypeOK, Acts
<1>2. acts \in Seq(Acts)
  BY DEF TypeOK
<1>. QED BY <1>1, <1>2, AppendFacts DEF Did

\* Doing something is no stutter.
LEMMA DidChanges ==
  ASSUME TypeOK, NEW whom, Did(whom)
  PROVE  acts' # acts
<1>1. acts \in Seq(Acts)
  BY DEF TypeOK
<1> DEFINE entry == [n |-> n, req |-> req, to |-> whom, files |-> attached]
<1>2. acts' = Append(acts, entry) /\ acts \in Seq(Acts \cup {entry})
  BY <1>1 DEF Did
<1>3. Len(acts') = Len(acts) + 1 /\ Len(acts) \in Nat
  <2> HIDE DEF entry
  <2>. QED BY <1>2, AppendFacts
<1>. QED BY <1>3

-----------------------------------------------------------------------------
(* The servers                                                             *)

\* A world with one field changed.
LEMMA WorldFacts ==
  ASSUME NEW w \in Worlds
  PROVE  /\ \A c \in Targets, l \in Labels :
              /\ [w EXCEPT !.label[c] = l] \in Worlds
              /\ [w EXCEPT !.label[c] = l].label = [w.label EXCEPT ![c] = l]
         /\ \A T \in SUBSET Targets :
              /\ [w EXCEPT !.there = T] \in Worlds
              /\ [w EXCEPT !.there = T].label = w.label
         /\ \A a \in Accounts, s \in SUBSET Workspaces :
              /\ [w EXCEPT !.sees[a] = s] \in Worlds
              /\ [w EXCEPT !.sees[a] = s].label = w.label
         /\ \A T \in SUBSET Targets, f \in [Targets -> Labels] :
              /\ [w EXCEPT !.there = T, !.label = f] \in Worlds
              /\ [w EXCEPT !.there = T, !.label = f].label = f
         /\ w.label \in [Targets -> Labels] /\ w.there \in SUBSET Targets
         /\ w.sees \in [Accounts -> SUBSET Workspaces]
  BY DEF Worlds

\* Whom a direct message is addressed to is whom the request names.
LEMMA DmFacts ==
  ASSUME NEW r \in Requests, DmAccepted(r.to)
  PROVE  DmRequest(r.to).recipients \cup DmRequest(r.to).one
           = r.to.names \cup r.to.ids \cup ({r.to.email} \ {None})
<1> DEFINE N == r.to.names
           I == r.to.ids
<1>1. /\ N \in SUBSET People /\ I \in SUBSET People /\ None \notin People
      /\ IsFiniteSet(N) /\ IsFiniteSet(I) /\ r.to.email \in People \cup {None}
  BY RequestFacts, TargetAssumption
<1>2. /\ Cardinality(N) \in Nat /\ Cardinality(I) \in Nat
      /\ Cardinality(N) = 0 <=> N = {}
      /\ Cardinality(I) = 0 <=> I = {}
  BY <1>1, FS_CardinalityType, FS_EmptySet
<1>3. /\ Cardinality(N) = 1 => \E p \in People : N = {p}
      /\ Cardinality(I) = 1 => \E p \in People : I = {p}
  BY <1>1, FS_Singleton
<1>4. /\ FirstOf({}) = None
      /\ \A p \in People : FirstOf({p}) = p
  BY DEF FirstOf
<1>5. CASE IsGroup(r.to)
  <2>1. r.to.email = None
    BY <1>5 DEF DmAccepted
  <2>. QED BY <1>5, <2>1 DEF DmRequest
<1>6. CASE ~IsGroup(r.to)
  <2>1. Cardinality(N) + Cardinality(I) + (IF r.to.email = None THEN 0 ELSE 1) = 1
    BY <1>2, <1>6 DEF DmAccepted, IsGroup, Total
  <2>2. CASE r.to.email # None
    <3>1. N = {} /\ I = {}
      BY <1>2, <2>1, <2>2
    <3>. QED BY <1>4, <1>6, <2>2, <3>1 DEF DmRequest
  <2>3. CASE r.to.email = None /\ Cardinality(N) = 1
    <3>1. I = {}
      BY <1>2, <2>1, <2>3
    <3>2. PICK p \in People : N = {p}
      BY <1>3, <2>3
    <3>. QED BY <1>1, <1>4, <1>6, <2>3, <3>1, <3>2 DEF DmRequest
  <2>4. CASE r.to.email = None /\ Cardinality(N) # 1
    <3>1. N = {} /\ Cardinality(I) = 1
      BY <1>2, <2>1, <2>4
    <3>2. PICK p \in People : I = {p}
      BY <1>3, <3>1
    <3>. QED BY <1>1, <1>4, <1>6, <2>4, <3>1, <3>2 DEF DmRequest
  <2>. QED BY <2>2, <2>3, <2>4
<1>. QED BY <1>5, <1>6

\* Whom the server can do something to.
LEMMA ServerFacts ==
  ASSUME TypeOK, PathInv, pc \in {"zero", "write"}
  PROVE  /\ req.op = "create" =>
              ServerTargets \in SUBSET Channels /\ ServerTargets \cap world.there = {}
         /\ ServerTargets \in SUBSET (Targets \cup People)
         /\ req.op # "dm" => ServerTargets \in SUBSET Targets
<1> USE RequestFacts, WorldFacts
<1>1. req \in Requests /\ world \in Worlds /\ target \in Targets \cup {None}
  BY DEF TypeOK
<1>2. CASE req.op = "dm"
  <2>1. pc = "write"
    BY <1>2 DEF PathInv
  <2>2. DmRequest(req.to).recipients \cup DmRequest(req.to).one
           = req.to.names \cup req.to.ids \cup ({req.to.email} \ {None})
    BY <1>1, <1>2, <2>1, DmFacts DEF PathInv
  <2>. QED BY <1>1, <1>2, <2>2 DEF ServerTargets, Targets
<1>3. CASE req.op = "send" /\ ByLabel
  BY <1>1, <1>3 DEF ServerTargets, EarliestOf, Matches, Visible, Targets
<1>4. CASE req.op # "dm" /\ ~(req.op = "send" /\ ByLabel)
  BY <1>1, <1>4 DEF ServerTargets, Targets, AutomationOps
<1>. QED BY <1>2, <1>3, <1>4

\* What the server does it does to whom it is for, and to nobody's slug.
LEMMA AppliedFacts ==
  ASSUME TypeOK, PathInv, pc \in {"zero", "write"}, Applied
  PROVE  \E whom \in SUBSET (Targets \cup People), w \in Worlds :
           /\ Did(whom) /\ whom # {}
           /\ req.op # "create" => whom = ServerTargets
           /\ HoldsNow(w)
           /\ \A a \in Automations : w.label[a] = world.label[a]
<1>1. PICK whom \in IF req.op = "create" THEN {{c} : c \in ServerTargets} ELSE {ServerTargets} :
        whom # {} /\ Did(whom) /\ HoldsNow(Changed(whom))
  BY DEF Applied
<1>2. whom \in SUBSET (Targets \cup People)
  BY <1>1, ServerFacts DEF Targets
<1>3. req.op # "create" => whom = ServerTargets
  BY <1>1
<1>4. world \in Worlds /\ req \in Requests
  BY DEF TypeOK
<1>5. /\ Changed(whom) \in Worlds
      /\ \A a \in Automations : Changed(whom).label[a] = world.label[a]
  <2>1. CASE req.op \in {"archive", "delete"}
    BY <1>4, <2>1, WorldFacts DEF Changed
  <2>2. CASE req.op = "create"
    <3> DEFINE f == [t \in Targets |-> IF t \in whom THEN req.ref ELSE world.label[t]]
               T == world.there \cup whom
    <3>1. whom \in SUBSET Channels /\ req.ref \in Labels
      BY <1>1, <1>4, <2>2, ServerFacts, RequestFacts
    <3>2. T \in SUBSET Targets /\ f \in [Targets -> Labels]
      BY <1>4, <3>1, WorldFacts DEF Targets
    <3>3. Changed(whom) = [world EXCEPT !.there = T, !.label = f]
      BY <2>2 DEF Changed
    <3>4. \A a \in Automations : f[a] = world.label[a]
      BY <3>1, TargetAssumption DEF Targets
    <3>5. [world EXCEPT !.there = T, !.label = f] \in Worlds
          /\ [world EXCEPT !.there = T, !.label = f].label = f
      <4> HIDE DEF f, T
      <4>1. world \in Worlds
        BY <1>4
      <4>2. \A U \in SUBSET Targets, g \in [Targets -> Labels] :
              /\ [world EXCEPT !.there = U, !.label = g] \in Worlds
              /\ [world EXCEPT !.there = U, !.label = g].label = g
        BY <4>1, WorldFacts
      <4>. QED BY <3>2, <4>2
    <3> HIDE DEF f, T
    <3>. QED BY <3>3, <3>4, <3>5
  <2>3. CASE req.op \notin {"archive", "delete", "create"}
    BY <1>4, <2>3 DEF Changed
  <2>. QED BY <2>1, <2>2, <2>3
<1>. QED BY <1>1, <1>2, <1>3, <1>5

-----------------------------------------------------------------------------
(* One lemma for each part of the invariant                                *)

\* What others do leaves the command as it is, and the slugs.
LEMMA OthersFacts ==
  ASSUME TypeOK, WorldInv, Others
  PROVE  /\ UNCHANGED <<cmdVars, pc, scope, target, bodies, attached, viaZero,
                        unsure, result, acts>>
         /\ disk' \in [Files -> Sizes] /\ changes' \in Nat
         /\ found' \in {found, NothingFound}
         /\ world' \in Worlds /\ recent' \subseteq Worlds /\ ever' \subseteq Worlds
         /\ world' \in recent' /\ recent' \subseteq ever' /\ ever \subseteq ever'
         /\ \A w \in ever', a \in Automations : w.label[a] = SlugOf[a]
<1>1. world \in Worlds /\ disk \in [Files -> Sizes] /\ changes \in Nat
      /\ recent \subseteq Worlds /\ ever \subseteq Worlds
  BY DEF TypeOK
<1>2. ASSUME NEW w \in Worlds, OthersChange(w), \A a \in Automations : w.label[a] = world.label[a]
      PROVE  /\ UNCHANGED <<cmdVars, pc, scope, target, bodies, attached, viaZero,
                            unsure, result, acts, disk, found>>
             /\ changes' \in Nat
             /\ world' \in Worlds /\ recent' \subseteq Worlds /\ ever' \subseteq Worlds
             /\ world' \in recent' /\ recent' \subseteq ever' /\ ever \subseteq ever'
             /\ \A v \in ever', a \in Automations : v.label[a] = SlugOf[a]
  BY <1>1, <1>2 DEF OthersChange, HoldsNow, cmdVars, WorldInv
<1>3. CASE Rename
  <2>1. PICK c \in Channels, l \in Labels : OthersChange([world EXCEPT !.label[c] = l])
    BY <1>3 DEF Rename
  <2> DEFINE w == [world EXCEPT !.label[c] = l]
  <2>2. c \in Targets /\ c \notin Automations
    BY TargetAssumption DEF Targets
  <2>3. w \in Worlds /\ w.label = [world.label EXCEPT ![c] = l]
    <3>1. world \in Worlds
      BY <1>1
    <3>2. \A d \in Targets, k \in Labels :
            /\ [world EXCEPT !.label[d] = k] \in Worlds
            /\ [world EXCEPT !.label[d] = k].label = [world.label EXCEPT ![d] = k]
      BY <3>1, WorldFacts
    <3>. QED BY <2>2, <3>2
  <2>4. \A a \in Automations : w.label[a] = world.label[a]
    <3> HIDE DEF w
    <3>. QED BY <1>1, <2>2, <2>3, WorldFacts DEF Targets
  <2> HIDE DEF w
  <2>. QED BY <1>1, <1>2, <2>1, <2>3, <2>4 DEF w
<1>4. CASE Vanish
  <2>1. PICK t \in world.there : OthersChange([world EXCEPT !.there = @ \ {t}])
    BY <1>4 DEF Vanish
  <2> DEFINE w == [world EXCEPT !.there = world.there \ {t}]
  <2>2. w \in Worlds /\ w.label = world.label
    <3>1. world.there \ {t} \in SUBSET Targets
      BY <1>1, WorldFacts
    <3>. QED BY <1>1, <3>1, WorldFacts
  <2>3. OthersChange(w)
    BY <2>1
  <2> HIDE DEF w
  <2>. QED BY <1>1, <1>2, <2>2, <2>3
<1>5. CASE JoinOrLeave
  <2>1. PICK a \in Accounts, s \in SUBSET Workspaces : OthersChange([world EXCEPT !.sees[a] = s])
    BY <1>5 DEF JoinOrLeave
  <2> DEFINE w == [world EXCEPT !.sees[a] = s]
  <2>2. w \in Worlds /\ w.label = world.label
    <3>1. world \in Worlds
      BY <1>1
    <3>2. \A b \in Accounts, S \in SUBSET Workspaces :
            /\ [world EXCEPT !.sees[b] = S] \in Worlds
            /\ [world EXCEPT !.sees[b] = S].label = world.label
      BY <3>1, WorldFacts
    <3>. QED BY <3>2
  <2> HIDE DEF w
  <2>. QED BY <1>1, <1>2, <2>1, <2>2 DEF w
<1>6. CASE AlterFile
  <2>1. \A size \in 0..(MaxPerFile + 1) \cup {None} : size \in Sizes
    BY TargetAssumption DEF Sizes
  <2>. QED BY <1>1, <1>6, <2>1 DEF AlterFile, serverVars, cmdVars, WorldInv
<1>7. CASE CachesExpire
  BY <1>1, <1>7 DEF CachesExpire, cmdVars, WorldInv
<1>8. CASE Restart
  BY <1>1, <1>8 DEF Restart, outerVars, serverVars, cmdVars, WorldInv
<1>. QED BY <1>3, <1>4, <1>5, <1>6, <1>7, <1>8 DEF Others

\* What a command does to the servers: nothing, or what it has then done.
LEMMA CommandFacts ==
  ASSUME TypeOK, PathInv, WorldInv, Next, ~Others
  PROVE  /\ UNCHANGED <<disk, changes>>
         /\ \/ UNCHANGED <<world, recent, ever>>
            \/ /\ pc \in {"zero", "write"} /\ Applied
               /\ world' \in Worlds /\ recent' \subseteq Worlds /\ ever' \subseteq Worlds
         /\ world' \in recent' /\ recent' \subseteq ever' /\ ever \subseteq ever'
         /\ \A w \in ever', a \in Automations : w.label[a] = SlugOf[a]
<1>1. ASSUME pc \in {"zero", "write"}, Applied
      PROVE  /\ world' \in Worlds /\ recent' \subseteq Worlds /\ ever' \subseteq Worlds
             /\ world' \in recent' /\ recent' \subseteq ever' /\ ever \subseteq ever'
             /\ \A w \in ever', a \in Automations : w.label[a] = SlugOf[a]
  BY <1>1, AppliedFacts DEF HoldsNow, TypeOK, WorldInv
<1>2. CASE ZeroWrite
  BY <1>1, <1>2 DEF ZeroWrite, NotApplied, serverVars, WorldInv
<1>3. CASE RestWrite
  BY <1>1, <1>3 DEF RestWrite, NotApplied, serverVars, WorldInv
<1>4. CASE UNCHANGED outerVars
  BY <1>4 DEF outerVars, serverVars, WorldInv
<1>. QED
  BY <1>2, <1>3, <1>4
     DEF Next, Begin, CheckArguments, ResolveAuth, CountWorkspaces, FindKnown, FindListed,
         FindAutomation, ReadPlan, StatFile, ReadFile, CapTotal, Upload, ShowMessages

\* The servers' history only grows, and keeps the slugs.
LEMMA WorldStep ==
  ASSUME TypeOK, PathInv, WorldInv, Next
  PROVE  /\ WorldInv' /\ ever \subseteq ever'
         /\ world' \in Worlds /\ recent' \subseteq Worlds /\ ever' \subseteq Worlds
         /\ disk' \in [Files -> Sizes] /\ changes' \in Nat
<1>1. CASE Others
  BY <1>1, OthersFacts DEF WorldInv
<1>2. CASE ~Others
  BY <1>2, CommandFacts DEF WorldInv, TypeOK
<1>. QED BY <1>1, <1>2

\* Every command takes the path that its operation has.
LEMMA PathStep ==
  ASSUME TypeOK, PathInv, WorldInv, Next
  PROVE  PathInv'
<1> USE DEF PathInv, Goto, Fail, Finish, cmdVars, ByLabel, ZeroEligible, AutomationOps
<1>1. CASE Others
  BY <1>1, OthersFacts
<1>2. ASSUME NEW r \in Requests, Begin(r) PROVE PathInv'
  BY <1>2, RequestFacts DEF Begin, FirstStep
<1>3. CASE CheckArguments
  <2>1. req.op \in {"send", "dm"} /\ UNCHANGED req
    BY <1>3 DEF CheckArguments
  <2>2. CASE ~Accepted
    BY <1>3, <2>1, <2>2 DEF CheckArguments
  <2>3. CASE Accepted /\ req.op = "dm"
    <3>1. DmAccepted(req.to)
      BY <2>3 DEF Accepted
    <3>2. pc' = "stat" /\ result' = result /\ pc = "check"
      BY <1>3, <2>3 DEF CheckArguments
    <3>. QED BY <2>1, <2>3, <3>1, <3>2
  <2>4. CASE Accepted /\ req.op = "send"
    BY <1>3, <2>1, <2>4 DEF CheckArguments
  <2>. QED BY <2>1, <2>2, <2>3, <2>4
<1>4. CASE ResolveAuth
  <2>1. req \in Requests
    BY DEF TypeOK
  <2>2. req.op \in Ops
    BY <2>1, RequestFacts
  <2>. QED BY <1>4, <2>2 DEF ResolveAuth, ResolvedAuth, Ops, ChannelOps
<1>5. CASE CountWorkspaces
  BY <1>5 DEF CountWorkspaces
<1>6. CASE FindKnown \/ FindListed \/ FindAutomation \/ ReadPlan
  BY <1>6 DEF FindKnown, FindListed, FindAutomation, ReadPlan
<1>7. CASE StatFile \/ ReadFile \/ CapTotal \/ Upload
  BY <1>7 DEF StatFile, ReadFile, CapTotal, Upload
<1>8. CASE ZeroWrite
  BY <1>8 DEF ZeroWrite
<1>9. CASE RestWrite
  BY <1>9 DEF RestWrite
<1>10. CASE ShowMessages
  BY <1>10 DEF ShowMessages
<1>. QED
  BY <1>1, <1>2, <1>3, <1>4, <1>5, <1>6, <1>7, <1>8, <1>9, <1>10 DEF Next

\* What a command does adds at most one entry to the history of what was done.
LEMMA ActsStep ==
  ASSUME TypeOK, PathInv, WorldInv, TargetInv, Next
  PROVE  \/ UNCHANGED acts
         \/ \E whom \in SUBSET (Targets \cup People) :
              /\ Did(whom) /\ UNCHANGED <<n, req, bodies, attached>>
              /\ \/ ShowMessages /\ whom = {target}
                 \/ /\ ZeroWrite \/ RestWrite
                    /\ whom # {} /\ (req.op # "create" => whom = ServerTargets)
                    /\ world' \in ever'
<1>1. CASE Others
  BY <1>1, OthersFacts
<1>2. CASE ZeroWrite \/ RestWrite
  <2>1. CASE NotApplied
    BY <2>1 DEF NotApplied
  <2>2. CASE Applied
    <3>1. pc \in {"zero", "write"} /\ UNCHANGED <<n, req, bodies, attached>>
      BY <1>2 DEF ZeroWrite, RestWrite, cmdVars
    <3>2. world' \in ever'
      BY WorldStep DEF WorldInv
    <3>. QED BY <1>2, <2>2, <3>1, <3>2, AppliedFacts
  <2>. QED BY <1>2, <2>1, <2>2 DEF ZeroWrite, RestWrite
<1>3. CASE ShowMessages
  <2>1. CASE UNCHANGED acts
    BY <2>1
  <2>2. CASE Did({target})
    <3>1. target \in Targets
      BY <1>3 DEF TypeOK, TargetInv, ShowMessages
    <3>. QED BY <1>3, <2>2, <3>1 DEF ShowMessages, outerVars, serverVars, cmdVars
  <2>. QED BY <1>3, <2>1, <2>2 DEF ShowMessages
<1>. QED
  BY <1>1, <1>2, <1>3
     DEF Next, Begin, CheckArguments, ResolveAuth, CountWorkspaces, FindKnown, FindListed,
         FindAutomation, ReadPlan, StatFile, ReadFile, CapTotal, Upload

\* The variables keep their types.
LEMMA TypeStep ==
  ASSUME TypeOK, PathInv, WorldInv, TargetInv, FilesInv, Next
  PROVE  TypeOK'
<1> DEFINE Rest == /\ n' \in Nat /\ req' \in Requests /\ pc' \in Pc /\ scope' \in Scopes
                   /\ target' \in Targets \cup {None}
                   /\ bodies' \in Seq(Body) /\ attached' \in Seq(Body)
                   /\ viaZero' \in BOOLEAN /\ unsure' \in BOOLEAN
                   /\ result' \in {"none", "ok", "error"}
                   /\ found' \in [Scopes -> [Labels -> Channels \cup {None}]]
<1>1. /\ world' \in Worlds /\ recent' \subseteq Worlds /\ ever' \subseteq Worlds
      /\ disk' \in [Files -> Sizes] /\ changes' \in Nat
  BY WorldStep
<1>2. acts' \in Seq(Acts)
  BY ActsStep, DidFacts DEF TypeOK
<1>3. Rest
  <2>1. /\ n \in Nat /\ req \in Requests /\ pc \in Pc /\ scope \in Scopes
        /\ target \in Targets \cup {None}
        /\ bodies \in Seq(Body) /\ attached \in Seq(Body)
        /\ viaZero \in BOOLEAN /\ unsure \in BOOLEAN
        /\ result \in {"none", "ok", "error"}
        /\ found \in [Scopes -> [Labels -> Channels \cup {None}]]
        /\ disk \in [Files -> Sizes]
    BY DEF TypeOK
  <2> USE DEF Pc, Goto, Fail, Finish, cmdVars
  <2>2. CASE Others
    BY <2>1, <2>2, OthersFacts DEF NothingFound
  <2>3. ASSUME NEW r \in Requests, Begin(r) PROVE Rest
    <3>1. <<>> \in Seq(Body)
      OBVIOUS
    <3>2. r.scope \in Scopes
      BY RequestFacts
    <3>3. FirstStep(r) \in Pc
      BY DEF FirstStep
    <3>4. /\ n' = n + 1 /\ req' = r /\ pc' = FirstStep(r) /\ scope' = r.scope
          /\ target' = None /\ bodies' = <<>> /\ attached' = <<>>
          /\ viaZero' = FALSE /\ unsure' = FALSE /\ result' = "none"
      BY <2>3 DEF Begin
    <3>5. found' = found
      BY <2>3 DEF Begin
    <3>6. n' \in Nat /\ req' \in Requests /\ pc' \in Pc /\ scope' \in Scopes
      BY <2>1, <3>2, <3>3, <3>4
    <3>7. bodies' \in Seq(Body) /\ attached' \in Seq(Body)
      BY <3>1, <3>4
    <3>. QED BY <2>1, <3>4, <3>5, <3>6, <3>7
  <2>4. CASE CheckArguments \/ ReadPlan \/ StatFile \/ CapTotal \/ ShowMessages
    BY <2>1, <2>4 DEF CheckArguments, ReadPlan, StatFile, CapTotal, ShowMessages
  <2>5. CASE ResolveAuth
    <3>1. UNCHANGED <<n, req, scope, target, bodies, attached, viaZero, unsure, found>>
      BY <2>5 DEF ResolveAuth
    <3>2. req.op \in Ops
      BY <2>1, RequestFacts
    <3>3. pc' \in Pc /\ result' \in {"none", "ok", "error"}
      BY <2>1, <2>5, <3>2 DEF ResolveAuth, ResolvedAuth, Ops, ChannelOps
    <3>. QED BY <2>1, <3>1, <3>3
  <2>6. CASE CountWorkspaces
    BY <2>1, <2>6 DEF CountWorkspaces, Scopes
  <2>7. CASE FindKnown
    <3>1. req.ref \in Targets \cup Labels \cup {None}
      BY <2>1, RequestFacts
    <3>2. target' \in Targets \cup {None}
      BY <2>1, <2>7, <3>1 DEF FindKnown, ByLabel, Targets
    <3>. QED BY <2>1, <2>7, <3>2 DEF FindKnown
  <2>8. CASE FindListed
    <3>1. UNCHANGED <<n, req, scope, bodies, attached, viaZero, unsure>>
          /\ pc' \in Pc /\ result' \in {"none", "ok", "error"}
      BY <2>1, <2>8 DEF FindListed
    <3>2. CASE UNCHANGED <<target, found>>
      BY <2>1, <3>1, <3>2
    <3>3. CASE ~UNCHANGED <<target, found>>
      <4>1. PICK c \in Channels :
              /\ target' = c
              /\ found' = [found EXCEPT ![scope] = [found[scope] EXCEPT ![req.ref] = c]]
        BY <2>8, <3>3 DEF FindListed
      <4>2. found' \in [Scopes -> [Labels -> Channels \cup {None}]]
        BY <2>1, <4>1
      <4>. QED BY <2>1, <3>1, <4>1, <4>2 DEF Targets
    <3>. QED BY <3>2, <3>3
  <2>9. CASE FindAutomation
    BY <2>1, <2>9 DEF FindAutomation, Targets
  <2>10. CASE ReadFile
    <3> DEFINE b == [file |-> NextFile, size |-> disk[NextFile]]
    <3>1. bodies' = bodies \/ (disk[NextFile] # None /\ bodies' = Append(bodies, b))
      BY <2>10 DEF ReadFile
    <3>2. /\ req.files \in Seq(Files) /\ Len(bodies) \in Nat
          /\ Len(bodies) < Len(req.files)
      BY <2>1, <2>10, RequestFacts DEF FilesInv, ReadFile
    <3>3. NextFile \in Files
      BY <3>2 DEF NextFile
    <3>4. disk[NextFile] # None => b \in Body
      BY <2>1, <3>3 DEF Body, Sizes
    <3>5. bodies' \in Seq(Body)
      <4> HIDE DEF b
      <4>. QED BY <2>1, <3>1, <3>4, AppendFacts
    <3>. QED BY <2>1, <2>10, <3>5 DEF ReadFile
  <2>11. CASE Upload
    <3>1. Len(attached) \in Nat /\ Len(attached) < Len(bodies)
      BY <2>1, <2>11 DEF FilesInv, Upload
    <3>2. bodies[Len(attached) + 1] \in Body
      BY <2>1, <3>1
    <3>3. attached' = attached \/ attached' = Append(attached, bodies[Len(attached) + 1])
      BY <2>11 DEF Upload
    <3>4. attached' \in Seq(Body)
      BY <2>1, <3>2, <3>3, AppendFacts
    <3>. QED BY <2>1, <2>11, <3>4 DEF Upload
  <2>12. CASE ZeroWrite
    BY <2>1, <2>12 DEF ZeroWrite
  <2>13. CASE RestWrite
    BY <2>1, <2>13 DEF RestWrite
  <2>. QED BY <2>2, <2>3, <2>4, <2>5, <2>6, <2>7, <2>8, <2>9, <2>10, <2>11, <2>12, <2>13
           DEF Next
<1>. QED BY <1>1, <1>2, <1>3 DEF TypeOK

\* What was alone in its scope has been so ever since.
LEMMA AskedScopeKept ==
  ASSUME AskedScope, UNCHANGED <<req, scope>>, ever \subseteq ever'
  PROVE  AskedScope'
  BY DEF AskedScope

\* A command keeps to the workspace that was asked for.
LEMMA ScopeStep ==
  ASSUME TypeOK, PathInv, WorldInv, ScopeInv, Next
  PROVE  ScopeInv'
<1> USE DEF Goto, Fail, Finish, cmdVars
<1>1. ever \subseteq ever'
  BY WorldStep
<1>2. ASSUME NEW r \in Requests, Begin(r) PROVE ScopeInv'
  <2>1. pc' = FirstStep(r) /\ req' = r /\ scope' = r.scope
    BY <1>2 DEF Begin
  <2>2. FirstStep(r) \in {"check", "zero", "auth"}
    BY DEF FirstStep
  <2>. QED BY <2>1, <2>2 DEF ScopeInv
<1>3. CASE CheckArguments
  BY <1>3 DEF CheckArguments, ScopeInv, PathInv
<1>4. CASE ResolveAuth
  <2>1. /\ scope = req.scope /\ UNCHANGED <<req, scope>>
        /\ pc' \in {"idle", "workspaces", "stat", "check", "find", "write"}
        /\ pc' \in {"stat", "write"} /\ req.op = "send" => ~(ByLabel /\ scope = None)
    <3>1. pc = "auth" /\ req \in Requests /\ UNCHANGED <<req, scope>>
      BY <1>4 DEF ResolveAuth, TypeOK
    <3>2. req.op \in Ops
      BY <3>1, RequestFacts
    <3>3. pc' = "idle" \/ ResolvedAuth
      BY <1>4 DEF ResolveAuth
    <3>. QED BY <3>1, <3>2, <3>3 DEF ScopeInv, ResolvedAuth, Ops, ChannelOps, AutomationOps
  <2>. QED BY <2>1 DEF ScopeInv, AskedScope, ByLabel
<1>5. CASE CountWorkspaces
  <2>1. pc = "workspaces" /\ req.op = "send" /\ scope = None /\ req.scope = None /\ UNCHANGED req
    BY <1>5 DEF CountWorkspaces, PathInv, ScopeInv
  <2>2. CASE pc' = "idle"
    BY <2>2 DEF ScopeInv
  <2>3. CASE pc' # "idle"
    <3>1. PICK w \in recent :
            \/ w.sees[req.account] = {} /\ pc' = "stat" /\ scope' = scope
            \/ \E ws \in Workspaces :
                 w.sees[req.account] = {ws} /\ pc' = "stat" /\ scope' = ws
      BY <1>5, <2>3 DEF CountWorkspaces
    <3>2. pc' = "stat" /\ w.sees[req.account] = {scope'} \ {None}
      BY <2>1, <3>1, TargetAssumption
    <3>3. w \in ever'
      BY <1>1 DEF WorldInv
    <3>4. AskedScope'
      BY <2>1, <3>2, <3>3 DEF AskedScope
    <3>. QED BY <2>1, <3>2, <3>4 DEF ScopeInv
  <2>. QED BY <2>2, <2>3
<1>6. CASE \/ FindKnown \/ FindListed \/ FindAutomation \/ ReadPlan
           \/ StatFile \/ ReadFile \/ CapTotal \/ Upload
  <2>1. /\ UNCHANGED <<req, scope>>
        /\ pc \in {"find", "plan"} => req.op # "send"
        /\ pc \in {"find", "plan", "stat", "readFile", "upload"}
        /\ pc' \in {"idle", "plan", "show", "stat", "readFile", "upload", "write"}
    BY <1>6
       DEF FindKnown, FindListed, FindAutomation, ReadPlan, StatFile, ReadFile, CapTotal, Upload,
           PathInv, AutomationOps
  <2>. QED BY <1>1, <2>1, AskedScopeKept DEF ScopeInv, ByLabel
<1>7. CASE ZeroWrite
  BY <1>7 DEF ZeroWrite, ScopeInv
<1>8. CASE RestWrite \/ ShowMessages
  BY <1>8 DEF RestWrite, ShowMessages, ScopeInv
<1>9. CASE Others
  <2>1. UNCHANGED <<req, pc, scope>>
    BY <1>9, OthersFacts
  <2>. QED BY <1>1, <2>1, AskedScopeKept DEF ScopeInv, ByLabel
<1>. QED
  BY <1>2, <1>3, <1>4, <1>5, <1>6, <1>7, <1>8, <1>9 DEF Next

\* So has a channel.
LEMMA OnceAloneKept ==
  ASSUME NEW s, NEW l, NEW c, OnceAlone(s, l, c), ever \subseteq ever'
  PROVE  OnceAlone(s, l, c)'
  BY DEF OnceAlone

\* A name means what it meant when it was looked up.
LEMMA TargetStep ==
  ASSUME TypeOK, PathInv, WorldInv, ScopeInv, TargetInv, Next
  PROVE  TargetInv'
<1> USE DEF Goto, Fail, Finish, cmdVars
<1> DEFINE
  Known(f) == \A s \in Scopes, l \in Labels : f[s][l] # None => OnceAlone(s, l, f[s][l])
  Shown == /\ pc = "show" => target # None
           /\ pc = "show" /\ ByLabel => OnceAlone(req.scope, req.ref, target)
  Changing == pc \in {"plan", "write"} /\ req.op \in AutomationOps /\ ByLabel =>
    \E w \in ever : Matches(w, req.account, Automations, req.scope, req.ref) = {target}
<1>1. /\ ever \subseteq ever' /\ world \in ever
      /\ recent \subseteq ever
  BY WorldStep DEF WorldInv
<1>2. Known(found) /\ Shown /\ Changing
  BY DEF TargetInv
<1>3. /\ None \notin Targets /\ Targets \cap Labels = {} /\ Channels \subseteq Targets
      /\ Automations \subseteq Targets
      /\ req \in Requests /\ scope \in Scopes
      /\ found \in [Scopes -> [Labels -> Channels \cup {None}]]
  BY TargetAssumption DEF Targets, TypeOK
<1>4. ASSUME UNCHANGED found PROVE Known(found)'
  BY <1>1, <1>2, <1>4, OnceAloneKept
<1>5. ASSUME UNCHANGED <<req, pc, target>> PROVE Shown' /\ Changing'
  <2>1. Shown'
    BY <1>1, <1>2, <1>5, OnceAloneKept DEF ByLabel
  <2>2. Changing'
    BY <1>1, <1>2, <1>5 DEF ByLabel
  <2>. QED BY <2>1, <2>2
<1>6. CASE Others
  <2>1. UNCHANGED <<req, pc, target>> /\ found' \in {found, NothingFound}
    BY <1>6, OthersFacts
  <2>2. CASE found' = NothingFound
    BY <1>5, <2>1, <2>2 DEF NothingFound, TargetInv
  <2>. QED BY <1>4, <1>5, <2>1, <2>2 DEF TargetInv
<1>7. CASE FindKnown
  <2>1. /\ pc = "find" /\ req.op = "read" /\ pc' = "show" /\ UNCHANGED <<found, req, scope>>
        /\ scope = req.scope
    BY <1>7 DEF FindKnown, ScopeInv
  <2>2. CASE ByLabel
    <3>1. found[scope][req.ref] # None /\ target' = found[scope][req.ref]
      BY <1>7, <2>2 DEF FindKnown
    <3>2. OnceAlone(req.scope, req.ref, target')
      BY <1>2, <1>3, <2>1, <2>2, <3>1 DEF ByLabel
    <3>3. OnceAlone(req.scope, req.ref, target)'
      BY <1>1, <2>1, <3>2 DEF OnceAlone
    <3>. QED BY <1>4, <2>1, <3>1, <3>3 DEF TargetInv
  <2>3. CASE ~ByLabel
    <3>1. target' = req.ref /\ req.ref # None
      BY <1>3, <1>7, <2>1, <2>3, RequestFacts DEF FindKnown
    <3>. QED BY <1>4, <2>1, <2>3, <3>1 DEF TargetInv, ByLabel
  <2>. QED BY <2>2, <2>3
<1>8. CASE FindListed
  <2>1. CASE UNCHANGED found /\ pc' = "idle"
    BY <1>4, <2>1 DEF TargetInv
  <2>2. CASE ~(UNCHANGED found /\ pc' = "idle")
    <3>1. PICK m \in ListedChannels, c \in Channels :
            /\ m = {c} /\ target' = c /\ pc' = "show"
            /\ found' = [found EXCEPT ![scope] = [found[scope] EXCEPT ![req.ref] = c]]
      BY <1>8, <2>2 DEF FindListed
    <3>2. /\ req.op = "read" /\ pc = "find" /\ ByLabel /\ UNCHANGED <<req, scope>>
          /\ scope = req.scope
      BY <1>8 DEF FindListed, ScopeInv
    <3>3. req.account \in Accounts /\ ZeroAccount \in Accounts
      BY <1>3, RequestFacts, TargetAssumption
    <3>4. OnceAlone(scope, req.ref, c)
      <4>1. CASE \E w \in recent : m = Matches(w, req.account, Channels, scope, req.ref)
        BY <1>1, <3>1, <3>3, <4>1 DEF OnceAlone
      <4>2. CASE m = Matches(world, ZeroAccount, Channels, scope, req.ref)
        BY <1>1, <3>1, <3>3, <4>2 DEF OnceAlone
      <4>. QED BY <3>1, <4>1, <4>2 DEF ListedChannels
    <3>5. OnceAlone(scope, req.ref, c)'
      BY <1>1, <3>2, <3>4 DEF OnceAlone
    <3>6. \A s \in Scopes, l \in Labels :
            found'[s][l] = IF s = scope /\ l = req.ref THEN c ELSE found[s][l]
      BY <1>3, <3>1, <3>2 DEF ByLabel
    <3>7. Known(found)'
      <4> SUFFICES ASSUME NEW s \in Scopes, NEW l \in Labels, found'[s][l] # None
                   PROVE  OnceAlone(s, l, found[s][l])'
        OBVIOUS
      <4>1. CASE s = scope /\ l = req.ref
        BY <3>2, <3>5, <3>6, <4>1 DEF OnceAlone
      <4>2. CASE ~(s = scope /\ l = req.ref)
        <5>1. OnceAlone(s, l, found[s][l])
          BY <1>2, <3>6, <4>2
        <5>. QED BY <1>1, <3>6, <4>2, <5>1 DEF OnceAlone
      <4>. QED BY <4>1, <4>2
    <3>8. Shown'
      BY <1>3, <3>1, <3>2, <3>5 DEF OnceAlone
    <3>9. Changing'
      BY <3>1
    <3>. QED BY <3>7, <3>8, <3>9 DEF TargetInv
  <2>. QED BY <2>1, <2>2
<1>9. CASE FindAutomation
  <2>1. UNCHANGED <<found, req, scope>> /\ scope = req.scope
        /\ pc' \in {"idle", "plan", "write"}
    BY <1>9 DEF FindAutomation, ScopeInv, AutomationOps
  <2>2. ASSUME pc' # "idle", ByLabel
        PROVE  Matches(world, req.account, Automations, req.scope, req.ref) = {target'}
    <3>1. AutomationMatches = {target'}
      BY <1>9, <2>2 DEF FindAutomation
    <3>2. /\ \A a \in Automations : world.label[a] = SlugOf[a]
          /\ Visible(world, req.account, Automations, scope) \subseteq Automations
      BY <1>1 DEF WorldInv, Visible
    <3>3. req.ref \notin Visible(world, req.account, Automations, scope)
      BY <1>3, <2>2, <3>2 DEF ByLabel
    <3>. QED BY <2>1, <3>1, <3>2, <3>3 DEF AutomationMatches, Matches
  <2>3. Changing'
    BY <1>1, <2>1, <2>2 DEF ByLabel
  <2>. QED BY <1>4, <2>1, <2>3 DEF TargetInv
<1>10. CASE ReadPlan
  <2>1. /\ pc = "plan" /\ pc' \in {"idle", "write"}
        /\ UNCHANGED <<found, req, target>>
    BY <1>10 DEF ReadPlan
  <2>2. Changing'
    BY <1>1, <1>2, <2>1 DEF ByLabel
  <2>. QED BY <1>4, <2>1, <2>2 DEF TargetInv
<1>11. CASE \/ \E r \in Requests : Begin(r)
            \/ CheckArguments \/ ResolveAuth \/ CountWorkspaces
            \/ StatFile \/ ReadFile \/ CapTotal \/ Upload
            \/ ZeroWrite \/ RestWrite \/ ShowMessages
  <2>1. UNCHANGED found
    BY <1>11
       DEF Begin, CheckArguments, ResolveAuth, CountWorkspaces, StatFile, ReadFile, CapTotal,
           Upload, ZeroWrite, RestWrite, ShowMessages
  <2>2. pc' \notin {"show", "plan"} /\ ~(pc' = "write" /\ req'.op \in AutomationOps)
    <3>1. CASE \E r \in Requests : Begin(r)
      BY <3>1 DEF Begin, FirstStep
    <3>2. CASE ResolveAuth
      <4>1. req.op \in Ops /\ req' = req
        BY <1>3, <3>2, RequestFacts DEF ResolveAuth
      <4>. QED BY <3>2, <4>1 DEF ResolveAuth, ResolvedAuth, Ops, ChannelOps, AutomationOps
    <3>3. CASE CheckArguments \/ CountWorkspaces \/ StatFile \/ ReadFile \/ CapTotal \/ Upload
      BY <3>3 DEF CheckArguments, CountWorkspaces, StatFile, ReadFile, CapTotal, Upload,
                  PathInv, AutomationOps
    <3>4. CASE ZeroWrite \/ RestWrite \/ ShowMessages
      BY <3>4 DEF ZeroWrite, RestWrite, ShowMessages
    <3>. QED BY <1>11, <3>1, <3>2, <3>3, <3>4
  <2>. QED BY <1>4, <2>1, <2>2 DEF TargetInv
<1>. QED
  BY <1>6, <1>7, <1>8, <1>9, <1>10, <1>11 DEF Next

\* The files are read in their order, and none is uploaded before all are read.
LEMMA FilesStep ==
  ASSUME TypeOK, PathInv, WorldInv, FilesInv, Next
  PROVE  FilesInv'
<1> USE DEF Goto, Fail, Finish, cmdVars
<1>1. /\ bodies \in Seq(Body) /\ attached \in Seq(Body) /\ req \in Requests
      /\ req.files \in Seq(Files)
      /\ Len(bodies) \in Nat /\ Len(attached) \in Nat /\ Len(req.files) \in Nat
      /\ DOMAIN bodies = 1..Len(bodies) /\ DOMAIN attached = 1..Len(attached)
  BY RequestFacts DEF TypeOK
<1>2. /\ Len(<<>>) = 0 /\ DOMAIN <<>> = {}
      /\ Len(bodies) = 0 => bodies = <<>>
      /\ Len(attached) = 0 => attached = <<>>
  BY <1>1
<1>3. CASE Others
  <2>1. UNCHANGED <<req, pc, bodies, attached>>
    BY <1>3, OthersFacts
  <2>. QED BY <2>1 DEF FilesInv, CarriesFiles
<1>4. ASSUME NEW r \in Requests, Begin(r) PROVE FilesInv'
  <2>1. req' = r /\ bodies' = <<>> /\ attached' = <<>> /\ pc' = FirstStep(r)
    BY <1>4 DEF Begin
  <2>2. FirstStep(r) \in {"check", "zero", "auth"} /\ Len(r.files) \in Nat
    BY RequestFacts DEF FirstStep
  <2>. QED BY <1>2, <2>1, <2>2 DEF FilesInv
<1>5. CASE \/ CheckArguments \/ ResolveAuth \/ CountWorkspaces
           \/ FindKnown \/ FindListed \/ FindAutomation \/ ReadPlan
  <2>1. /\ UNCHANGED <<req, bodies, attached>>
        /\ pc \in {"check", "auth", "workspaces", "find", "plan"}
    BY <1>5
       DEF CheckArguments, ResolveAuth, CountWorkspaces, FindKnown, FindListed, FindAutomation,
           ReadPlan
  <2>2. /\ pc' \in {"idle", "zero", "auth", "workspaces", "stat", "check", "find", "show",
                    "plan", "write"}
        /\ pc' = "write" => req.op \notin {"send", "dm"}
        /\ pc' \in {"zero", "auth", "workspaces", "stat", "check"} =>
             pc \in {"check", "auth", "workspaces"}
    <3>1. CASE ResolveAuth
      <4>1. req.op \in Ops /\ pc = "auth"
        BY <1>1, <3>1, RequestFacts DEF ResolveAuth
      <4>. QED BY <3>1, <4>1 DEF ResolveAuth, ResolvedAuth, Ops, ChannelOps, AutomationOps
    <3>2. CASE \/ CheckArguments \/ CountWorkspaces \/ FindKnown \/ FindListed
               \/ FindAutomation \/ ReadPlan
      BY <3>2
         DEF CheckArguments, CountWorkspaces, FindKnown, FindListed, FindAutomation, ReadPlan,
             PathInv, AutomationOps
    <3>. QED BY <1>5, <3>1, <3>2
  <2>3. pc \in {"check", "auth", "workspaces"} => bodies = <<>> /\ attached = <<>>
    BY <1>1, <1>2 DEF FilesInv
  <2>. QED BY <1>1, <1>2, <2>1, <2>2, <2>3 DEF FilesInv, CarriesFiles
<1>6. CASE StatFile
  <2>1. /\ UNCHANGED <<req, bodies, attached>> /\ pc = "stat"
        /\ Len(bodies) < Len(req.files) /\ pc' \in {"readFile", "idle"}
    BY <1>6 DEF StatFile
  <2>. QED BY <1>1, <1>2, <2>1 DEF FilesInv, CarriesFiles
<1>7. CASE ReadFile
  <2>1. pc = "readFile" /\ UNCHANGED <<req, attached>> /\ attached = <<>>
        /\ Len(bodies) < Len(req.files)
    BY <1>7 DEF ReadFile, FilesInv
  <2>2. CASE pc' = "idle" /\ UNCHANGED bodies
    BY <1>1, <1>2, <2>1, <2>2 DEF FilesInv, CarriesFiles
  <2>3. CASE ~(pc' = "idle" /\ UNCHANGED bodies)
    <3> DEFINE b == [file |-> NextFile, size |-> disk[NextFile]]
    <3>1. pc' = "stat" /\ bodies' = Append(bodies, b)
      BY <1>7, <2>3 DEF ReadFile
    <3>2. b.file = req.files[Len(bodies) + 1]
      BY DEF NextFile
    <3>3. bodies \in Seq(Body \cup {b})
      BY <1>1
    <3>4. /\ Len(bodies') = Len(bodies) + 1
          /\ DOMAIN bodies' = (DOMAIN bodies) \cup {Len(bodies) + 1}
          /\ \A i \in DOMAIN bodies : bodies'[i] = bodies[i]
          /\ bodies'[Len(bodies) + 1] = b
      <4> HIDE DEF b
      <4>. QED BY <3>1, <3>3, AppendFacts
    <3>5. \A j \in DOMAIN bodies' : bodies'[j].file = req.files[j]
      BY <3>2, <3>4 DEF FilesInv
    <3> HIDE DEF b
    <3>. QED BY <1>1, <1>2, <2>1, <3>1, <3>4, <3>5 DEF FilesInv
  <2>. QED BY <2>2, <2>3
<1>8. CASE CapTotal
  <2>1. /\ UNCHANGED <<req, bodies, attached>> /\ pc = "stat" /\ attached = <<>>
        /\ Len(bodies) = Len(req.files)
        /\ \/ pc' = "idle"
           \/ pc' = "write" /\ bodies = <<>>
           \/ pc' = "upload" /\ bodies # <<>> /\ TotalBytes[bodies] <= MaxTotal
    BY <1>8 DEF CapTotal, FilesInv
  <2>. QED BY <1>1, <1>2, <2>1 DEF FilesInv, CarriesFiles
<1>9. CASE Upload
  <2>1. /\ UNCHANGED <<req, bodies>> /\ pc = "upload" /\ CarriesFiles(bodies, req)
        /\ Len(attached) < Len(bodies)
    BY <1>9 DEF Upload, FilesInv
  <2>2. CASE pc' = "idle" /\ UNCHANGED attached
    BY <1>1, <1>2, <2>1, <2>2 DEF FilesInv, CarriesFiles
  <2>3. CASE ~(pc' = "idle" /\ UNCHANGED attached)
    <3> DEFINE b == bodies[Len(attached) + 1]
    <3>1. /\ attached' = Append(attached, b)
          /\ pc' = IF Len(attached) + 1 = Len(bodies) THEN "write" ELSE "upload"
      BY <1>9, <2>3 DEF Upload
    <3>2. b \in Body
      BY <1>1, <2>1
    <3>3. /\ attached' \in Seq(Body) /\ Len(attached') = Len(attached) + 1
          /\ DOMAIN attached' = (DOMAIN attached) \cup {Len(attached) + 1}
          /\ \A i \in DOMAIN attached : attached'[i] = attached[i]
          /\ attached'[Len(attached) + 1] = b
      <4>1. attached \in Seq(Body) /\ attached' = Append(attached, b)
        BY <1>1, <3>1
      <4> HIDE DEF b
      <4>. QED BY <3>2, <4>1, AppendFacts
    <3>4. \A j \in DOMAIN attached' : attached'[j] = bodies[j]
      BY <3>3 DEF FilesInv
    <3>5. Len(attached') = Len(bodies) => attached' = bodies
      BY <1>1, <3>3, <3>4, SeqEqual
    <3>. QED BY <1>1, <2>1, <3>1, <3>3, <3>4, <3>5 DEF FilesInv, CarriesFiles
  <2>. QED BY <2>2, <2>3
<1>10. CASE ZeroWrite
  <2>1. UNCHANGED <<req, bodies, attached>> /\ pc = "zero" /\ pc' \in {"idle", "auth"}
    BY <1>10 DEF ZeroWrite
  <2>. QED BY <1>1, <1>2, <2>1 DEF FilesInv, CarriesFiles
<1>11. CASE RestWrite \/ ShowMessages
  <2>1. UNCHANGED <<req, bodies, attached>> /\ pc' = "idle"
    BY <1>11 DEF RestWrite, ShowMessages
  <2>. QED BY <1>1, <1>2, <2>1 DEF FilesInv, CarriesFiles
<1>. QED
  BY <1>3, <1>4, <1>5, <1>6, <1>7, <1>8, <1>9, <1>10, <1>11 DEF Next

\* A command changes nothing twice and tells the truth about it.
LEMMA ChangeStep ==
  ASSUME TypeOK, PathInv, WorldInv, TargetInv, ChangeInv, Next
  PROVE  ChangeInv'
<1> USE DEF Goto, Fail, Finish, cmdVars
<1>1. /\ n \in Nat /\ acts \in Seq(Acts) /\ DOMAIN acts = 1..Len(acts)
      /\ \A i \in DOMAIN acts : acts[i].n \in Nat
  <2>1. n \in Nat /\ acts \in Seq(Acts)
    BY DEF TypeOK
  <2>2. \A x \in Acts : x.n \in Nat
    BY DEF Acts
  <2>. QED BY <2>1, <2>2
<1>2. ASSUME UNCHANGED acts, UNCHANGED n PROVE Mine' = Mine
  BY <1>2 DEF Mine
<1>3. ASSUME NEW whom \in SUBSET (Targets \cup People), Did(whom), UNCHANGED n
      PROVE  /\ Mine' = Mine \cup {Len(acts) + 1}
             /\ \A i \in DOMAIN acts' : acts'[i].n <= n
             /\ Len(acts) + 1 \notin Mine
  <2>1. PICK last \in Nat :
          /\ last = Len(acts) + 1
          /\ DOMAIN acts' = (DOMAIN acts) \cup {last}
          /\ \A i \in DOMAIN acts : acts'[i] = acts[i]
          /\ acts'[last].n = n
    BY <1>3, DidFacts
  <2>. QED BY <1>1, <1>3, <2>1 DEF Mine, ChangeInv
<1>4. CASE Others
  <2>1. UNCHANGED <<n, req, pc, viaZero, unsure, result, acts>>
    BY <1>4, OthersFacts
  <2>. QED BY <1>2, <2>1 DEF ChangeInv
<1>5. ASSUME NEW r \in Requests, Begin(r) PROVE ChangeInv'
  <2>1. /\ n' = n + 1 /\ acts' = acts /\ result' = "none" /\ viaZero' = FALSE
        /\ unsure' = FALSE
    BY <1>5 DEF Begin
  <2>2. Mine' = {}
    BY <1>1, <2>1 DEF Mine, ChangeInv
  <2>3. \A i \in DOMAIN acts' : acts'[i].n <= n'
    BY <1>1, <2>1 DEF ChangeInv
  <2>. QED BY <2>1, <2>2, <2>3 DEF ChangeInv
<1>6. CASE ResolveAuth
  <2>1. /\ UNCHANGED <<n, req, viaZero, unsure, acts>> /\ pc = "auth" /\ result = "none"
    BY <1>6 DEF ResolveAuth, PathInv
  <2>2. /\ viaZero => pc' = "idle" /\ req.op \in {"archive", "remove"}
        /\ result' = "ok" => viaZero
    <3>1. CASE pc' = "idle" /\ result' = "error"
      BY <2>1, <3>1 DEF ChangeInv
    <3>2. CASE ResolvedAuth
      <4>1. req.op \in Ops
        BY RequestFacts DEF TypeOK
      <4>2. CASE req.op \in {"archive", "remove"}
        BY <2>1, <3>2, <4>2 DEF ResolvedAuth, ChangeInv, AutomationOps
      <4>3. CASE req.op \notin {"archive", "remove"}
        BY <2>1, <3>2, <4>1, <4>3 DEF ResolvedAuth, ChangeInv, Ops, ChannelOps
      <4>. QED BY <4>2, <4>3
    <3>. QED BY <1>6, <3>1, <3>2 DEF ResolveAuth
  <2>3. Mine' = Mine
    BY <1>2, <2>1
  <2>. QED BY <2>1, <2>2, <2>3 DEF ChangeInv
<1>7. CASE \/ CheckArguments \/ CountWorkspaces \/ FindKnown \/ FindListed \/ FindAutomation
           \/ ReadPlan \/ StatFile \/ ReadFile \/ CapTotal \/ Upload
  <2>1. /\ UNCHANGED <<n, req, viaZero, unsure, acts>>
        /\ pc \notin {"idle", "auth"} /\ result = "none" /\ result' \in {"none", "error"}
    BY <1>7
       DEF CheckArguments, CountWorkspaces, FindKnown, FindListed, FindAutomation, ReadPlan,
           StatFile, ReadFile, CapTotal, Upload, PathInv
  <2>2. Mine' = Mine /\ ~viaZero
    BY <1>2, <2>1 DEF ChangeInv
  <2>. QED BY <2>1, <2>2 DEF ChangeInv
<1>8. CASE ZeroWrite
  <2>1. /\ pc = "zero" /\ result = "none" /\ ~viaZero /\ UNCHANGED <<n, req>>
        /\ req.op \in {"archive", "remove", "send"}
    BY <1>8 DEF ZeroWrite, PathInv, ChangeInv
  <2>2. Mine # {} => unsure
    BY <2>1 DEF ChangeInv
  <2>3. CASE UNCHANGED acts
    <3>1. UNCHANGED viaZero /\ pc' \in {"idle", "auth"} /\ result' \in {"none", "error"}
          /\ (unsure => unsure')
      BY <1>8, <2>1, <2>3, DidChanges DEF ZeroWrite, Applied
    <3>. QED BY <1>2, <2>1, <2>2, <2>3, <3>1 DEF ChangeInv
  <2>4. CASE ~UNCHANGED acts
    <3>1. PICK whom \in SUBSET (Targets \cup People) : Did(whom)
      BY <2>4, ActsStep
    <3>2. /\ \/ viaZero' = TRUE /\ unsure' = unsure
                /\ IF req.op = "send" THEN pc' = "idle" /\ result' = "ok"
                   ELSE pc' = "auth" /\ result' = result
             \/ /\ unsure' = TRUE /\ viaZero' = viaZero
                /\ \/ pc' = "auth" /\ result' = result
                   \/ pc' = "idle" /\ result' = "error"
      BY <1>8, <2>4 DEF ZeroWrite, NotApplied, Fail, Finish, Goto
    <3>. QED BY <1>1, <1>3, <2>1, <2>2, <3>1, <3>2 DEF ChangeInv
  <2>. QED BY <2>3, <2>4
<1>9. CASE RestWrite \/ ShowMessages
  <2>1. /\ pc \in {"write", "show"} /\ result = "none" /\ ~viaZero
        /\ UNCHANGED <<n, req, viaZero>> /\ pc' = "idle"
    BY <1>9 DEF RestWrite, ShowMessages, PathInv, ChangeInv
  <2>2. Mine # {} => unsure
    BY <2>1 DEF ChangeInv
  <2>3. CASE UNCHANGED acts
    <3>1. result' = "error" /\ (unsure => unsure')
      BY <1>9, <2>1, <2>3, DidChanges DEF RestWrite, ShowMessages, Applied
    <3>. QED BY <1>2, <2>1, <2>2, <2>3, <3>1 DEF ChangeInv
  <2>4. CASE ~UNCHANGED acts
    <3>1. PICK whom \in SUBSET (Targets \cup People) : Did(whom)
      BY <2>4, ActsStep
    <3>2. \/ unsure' = unsure /\ result' = "ok"
          \/ unsure' = TRUE /\ result' = "error"
      BY <1>9, <2>4 DEF RestWrite, ShowMessages, NotApplied
    <3>. QED BY <1>1, <1>3, <2>1, <2>2, <3>1, <3>2 DEF ChangeInv
  <2>. QED BY <2>3, <2>4
<1>. QED
  BY <1>4, <1>5, <1>6, <1>7, <1>8, <1>9 DEF Next

-----------------------------------------------------------------------------
(* What was done stays well done                                           *)

\* A name was looked up in the scope the command asked for.
LEMMA NamesStep ==
  ASSUME IInv, Next
  PROVE  NamesMeanOneTarget'
<1> USE DEF IInv, Goto, Fail, Finish, cmdVars
<1> DEFINE
  Meant(i) == LET r == acts[i].req
              IN  r.ref \in Labels =>
                    /\ r.op = "read" => \E w \in ever, a \in Accounts :
                         acts[i].to = Matches(w, a, Channels, r.scope, r.ref)
                    /\ r.op \in AutomationOps => \E w \in ever :
                         acts[i].to = Matches(w, r.account, Automations, r.scope, r.ref)
<1>1. ever \subseteq ever' /\ \A i \in DOMAIN acts : Meant(i)
  BY WorldStep DEF NamesMeanOneTarget
<1>2. ASSUME NEW i \in DOMAIN acts, acts'[i] = acts[i] PROVE Meant(i)'
  BY <1>1, <1>2
<1>3. CASE UNCHANGED acts
  BY <1>2, <1>3 DEF NamesMeanOneTarget
<1>4. ASSUME NEW whom \in SUBSET (Targets \cup People), Did(whom),
             UNCHANGED <<n, req, bodies, attached>>,
             \/ ShowMessages /\ whom = {target}
             \/ /\ ZeroWrite \/ RestWrite
                /\ whom # {} /\ (req.op # "create" => whom = ServerTargets)
      PROVE  NamesMeanOneTarget'
  <2>1. PICK last \in Nat :
          /\ DOMAIN acts' = (DOMAIN acts) \cup {last}
          /\ \A i \in DOMAIN acts : acts'[i] = acts[i]
          /\ acts'[last].req = req /\ acts'[last].to = whom
    BY <1>4, DidFacts
  <2>2. ASSUME req.ref \in Labels, req.op = "read"
        PROVE  \E w \in ever, a \in Accounts :
                 whom = Matches(w, a, Channels, req.scope, req.ref)
    <3>1. pc = "show" /\ whom = {target}
      BY <1>4, <2>2 DEF ShowMessages, ZeroWrite, RestWrite, PathInv
    <3>. QED BY <2>2, <3>1 DEF TargetInv, OnceAlone, ByLabel
  <2>3. ASSUME req.ref \in Labels, req.op \in AutomationOps
        PROVE  \E w \in ever :
                 whom = Matches(w, req.account, Automations, req.scope, req.ref)
    <3>1. pc = "write" /\ whom = ServerTargets /\ whom # {}
      BY <1>4, <2>3 DEF ShowMessages, ZeroWrite, RestWrite, PathInv, AutomationOps
    <3>2. whom = {target}
      BY <2>3, <3>1 DEF ServerTargets, AutomationOps
    <3>. QED BY <2>3, <3>1, <3>2 DEF TargetInv, ByLabel
  <2>4. Meant(last)'
    BY <1>1, <2>1, <2>2, <2>3
  <2>5. \A i \in DOMAIN acts' : Meant(i)'
    BY <1>2, <2>1, <2>4
  <2>. QED BY <2>5 DEF NamesMeanOneTarget
<1>. QED BY <1>3, <1>4, ActsStep

\* A message went to the scope and the people it was addressed to.
LEMMA SendsStep ==
  ASSUME IInv, Next
  PROVE  SendsLandWhereAsked'
<1> USE DEF IInv, Goto, Fail, Finish, cmdVars
<1> DEFINE
  Landed(i) == LET r == acts[i].req
               IN  /\ r.op = "send" /\ r.ref \in Labels => \A c \in acts[i].to :
                        \/ r.scope = WsOf[c]
                        \/ /\ r.scope = None
                           /\ \E w \in ever : w.sees[r.account] \in {{WsOf[c]}, {}}
                   /\ r.op = "dm" =>
                        acts[i].to = r.to.names \cup r.to.ids \cup ({r.to.email} \ {None})
<1>1. ever \subseteq ever' /\ \A i \in DOMAIN acts : Landed(i)
  BY WorldStep DEF SendsLandWhereAsked
<1>2. ASSUME NEW i \in DOMAIN acts, acts'[i] = acts[i] PROVE Landed(i)'
  BY <1>1, <1>2
<1>3. CASE UNCHANGED acts
  BY <1>2, <1>3 DEF SendsLandWhereAsked
<1>4. ASSUME NEW whom \in SUBSET (Targets \cup People), Did(whom),
             UNCHANGED <<n, req, bodies, attached>>,
             \/ ShowMessages /\ whom = {target}
             \/ /\ ZeroWrite \/ RestWrite
                /\ whom # {} /\ (req.op # "create" => whom = ServerTargets)
      PROVE  SendsLandWhereAsked'
  <2>1. PICK last \in Nat :
          /\ DOMAIN acts' = (DOMAIN acts) \cup {last}
          /\ \A i \in DOMAIN acts : acts'[i] = acts[i]
          /\ acts'[last].req = req /\ acts'[last].to = whom
    BY <1>4, DidFacts
  <2>2. req \in Requests /\ scope \in Scopes
    BY DEF TypeOK
  <2>3. ASSUME req.op \in {"send", "dm"}
        PROVE  /\ whom = ServerTargets /\ pc \in {"zero", "write"}
               /\ pc = "zero" => req.ref \in Channels /\ req.op = "send"
    BY <1>4, <2>3 DEF ShowMessages, ZeroWrite, RestWrite, PathInv, ZeroEligible
  <2>4. ASSUME req.op = "send", req.ref \in Labels, NEW c \in whom
        PROVE  \/ req.scope = WsOf[c]
               \/ /\ req.scope = None
                  /\ \E w \in ever : w.sees[req.account] \in {{WsOf[c]}, {}}
    <3>1. pc = "write" /\ c \in Matches(world, req.account, Channels, scope, req.ref)
      BY <2>3, <2>4, TargetAssumption
         DEF ServerTargets, EarliestOf, ByLabel, Targets, AutomationOps
    <3>2. scope = None \/ WsOf[c] = scope
      BY <3>1 DEF Matches, Visible
    <3>3. AskedScope
      BY <2>4, <3>1 DEF ScopeInv, ByLabel
    <3>. QED BY <3>2, <3>3 DEF AskedScope
  <2>5. ASSUME req.op = "dm"
        PROVE  whom = req.to.names \cup req.to.ids \cup ({req.to.email} \ {None})
    <3>1. pc = "write" /\ whom = DmRequest(req.to).recipients \cup DmRequest(req.to).one
      BY <2>3, <2>5 DEF ServerTargets, AutomationOps
    <3>. QED BY <2>2, <2>5, <3>1, DmFacts DEF PathInv
  <2>6. Landed(last)'
    <3>1. \A c \in whom : req.op = "send" /\ req.ref \in Labels =>
            \/ req.scope = WsOf[c]
            \/ /\ req.scope = None
               /\ \E w \in ever' : w.sees[req.account] \in {{WsOf[c]}, {}}
      BY <1>1, <2>4
    <3>. QED BY <2>1, <2>5, <3>1
  <2>7. \A i \in DOMAIN acts' : Landed(i)'
    BY <1>2, <2>1, <2>6
  <2>. QED BY <2>7 DEF SendsLandWhereAsked
<1>. QED BY <1>3, <1>4, ActsStep

\* A message carried its files.
LEMMA MessagesStep ==
  ASSUME IInv, Next
  PROVE  MessagesCarryTheirFiles'
<1> USE DEF IInv, Goto, Fail, Finish, cmdVars
<1> DEFINE
  Carried(i) == acts[i].req.op \in {"send", "dm"} =>
                  CarriesFiles(acts[i].files, acts[i].req)
<1>1. \A i \in DOMAIN acts : Carried(i)
  BY DEF MessagesCarryTheirFiles, CarriesFiles
<1>2. \A i \in DOMAIN acts' : Carried(i)'
  <2>1. CASE UNCHANGED acts
    BY <1>1, <2>1 DEF CarriesFiles
  <2>2. ASSUME NEW whom \in SUBSET (Targets \cup People), Did(whom),
               UNCHANGED <<n, req, bodies, attached>>,
               ShowMessages \/ ZeroWrite \/ RestWrite
        PROVE  \A i \in DOMAIN acts' : Carried(i)'
    <3>1. PICK last \in Nat :
            /\ DOMAIN acts' = (DOMAIN acts) \cup {last}
            /\ \A i \in DOMAIN acts : acts'[i] = acts[i]
            /\ acts'[last].req = req /\ acts'[last].files = attached
      BY <2>2, DidFacts
    <3>2. ASSUME req.op \in {"send", "dm"} PROVE CarriesFiles(attached, req)
      <4>1. CASE pc = "zero"
        <5>1. req.files = <<>> /\ bodies = <<>> /\ attached \in Seq(Body)
          BY <3>2, <4>1 DEF PathInv, FilesInv, ZeroEligible, TypeOK
        <5>2. attached = <<>>
          BY <5>1 DEF FilesInv
        <5>. QED BY <5>1, <5>2 DEF CarriesFiles
      <4>2. CASE pc = "write"
        BY <3>2, <4>2 DEF FilesInv
      <4>. QED BY <2>2, <3>2, <4>1, <4>2 DEF ShowMessages, ZeroWrite, RestWrite, PathInv
    <3>3. Carried(last)'
      BY <3>1, <3>2 DEF CarriesFiles
    <3>. QED BY <1>1, <3>1, <3>3 DEF CarriesFiles
  <2>. QED BY <2>1, <2>2, ActsStep
<1>3. FilesInv'
  BY FilesStep
<1>4. bodies' \in Seq(Body) /\ attached' \in Seq(Body)
  BY TypeStep DEF TypeOK
<1>5. attached' # <<>> => bodies' # <<>>
  BY <1>3, <1>4 DEF FilesInv
<1>. QED BY <1>2, <1>3, <1>5 DEF MessagesCarryTheirFiles, FilesInv, CarriesFiles

-----------------------------------------------------------------------------
(* The invariant holds in every reachable state                            *)

LEMMA InitInv == Init => IInv
<1> SUFFICES ASSUME Init PROVE IInv
  OBVIOUS
<1>1. req \in Requests
  BY TargetAssumption DEF Init, AnyRequest
<1>2. /\ <<>> \in Seq(Body) /\ <<>> \in Seq(Acts) /\ Len(<<>>) = 0 /\ DOMAIN <<>> = {}
  BY EmptyFacts
<1>3. Len(req.files) \in Nat
  BY <1>1, RequestFacts
<1>4. TypeOK
  <2>1. NothingFound \in [Scopes -> [Labels -> Channels \cup {None}]]
    BY DEF NothingFound
  <2>2. [Files -> 1..MaxPerFile] \subseteq [Files -> Sizes]
    BY TargetAssumption DEF Sizes
  <2>3. world \in Worlds /\ recent \subseteq Worlds /\ ever \subseteq Worlds
    BY TargetAssumption DEF Init
  <2>. QED BY <1>1, <1>2, <2>1, <2>2, <2>3 DEF TypeOK, Init, Pc, Scopes
<1>5. PathInv /\ WorldInv /\ ScopeInv /\ TargetInv
  BY TargetAssumption DEF Init, PathInv, WorldInv, ScopeInv, TargetInv, NothingFound
<1>6. FilesInv /\ ChangeInv
  BY <1>2, <1>3 DEF Init, FilesInv, ChangeInv, Mine
<1>7. NamesMeanOneTarget /\ SendsLandWhereAsked /\ MessagesCarryTheirFiles
  BY <1>2 DEF Init, NamesMeanOneTarget, SendsLandWhereAsked, MessagesCarryTheirFiles
<1>. QED BY <1>4, <1>5, <1>6, <1>7 DEF IInv

LEMMA NextInv == IInv /\ [Next]_vars => IInv'
<1> SUFFICES ASSUME IInv, [Next]_vars PROVE IInv'
  OBVIOUS
<1>1. CASE UNCHANGED vars
  <2> USE <1>1 DEF IInv, vars, outerVars, serverVars, cmdVars
  <2>1. TypeOK' /\ PathInv' /\ WorldInv'
    BY DEF TypeOK, PathInv, WorldInv, ByLabel, ZeroEligible
  <2>2. ScopeInv' /\ TargetInv'
    BY DEF ScopeInv, AskedScope, TargetInv, OnceAlone, ByLabel
  <2>3. FilesInv' /\ ChangeInv'
    BY DEF FilesInv, CarriesFiles, ChangeInv, Mine
  <2>4. NamesMeanOneTarget' /\ SendsLandWhereAsked' /\ MessagesCarryTheirFiles'
    BY DEF NamesMeanOneTarget, SendsLandWhereAsked, MessagesCarryTheirFiles
  <2>. QED BY <2>1, <2>2, <2>3, <2>4
<1>2. CASE Next
  BY <1>2, TypeStep, PathStep, WorldStep, ScopeStep, TargetStep, FilesStep, ChangeStep,
     NamesStep, SendsStep, MessagesStep
     DEF IInv
<1>. QED BY <1>1, <1>2

LEMMA Invariance == Spec => []IInv
  BY InitInv, NextInv, PTL DEF Spec

\* Every variable of a command, of the servers and of the history keeps its
\* type.
THEOREM TypeSafety == Spec => []TypeOK
<1>1. IInv => TypeOK
  BY DEF IInv
<1>. QED BY <1>1, Invariance, PTL

\* Whatever others rename, archive or join, what a command read or changed
\* under a name was once the only thing of that name in the scope it asked for.
THEOREM NamesMeanOneTargetAlways == Spec => []NamesMeanOneTarget
<1>1. IInv => NamesMeanOneTarget
  BY DEF IInv
<1>. QED BY <1>1, Invariance, PTL

\* A message by channel name stays in the workspace that was asked for, and a
\* direct message reaches those it was addressed to.
THEOREM SendsLandAlways == Spec => []SendsLandWhereAsked
<1>1. IInv => SendsLandWhereAsked
  BY DEF IInv
<1>. QED BY <1>1, Invariance, PTL

\* A message carries all of its files, whatever becomes of them while they are
\* read.
THEOREM FilesAlways == Spec => []MessagesCarryTheirFiles
<1>1. IInv => MessagesCarryTheirFiles
  BY DEF IInv
<1>. QED BY <1>1, Invariance, PTL

\* A command changes something once if it succeeds and nothing if it reports an
\* error, but for calls without an answer and for what Zero had confirmed.
THEOREM OneChangeAlways == Spec => []OneChangeOrAnError
<1>1. IInv => OneChangeOrAnError
  BY DEF IInv, ChangeInv, OneChangeOrAnError, Mine
<1>. QED BY <1>1, Invariance, PTL

-----------------------------------------------------------------------------
(* The dispatch of commands, whatever they act on.  CleanUntilTimeout      *)
(* needs to know what each dispatch will put back (HooksInv), and that     *)
(* without a timeout there is nothing but the running dispatch;            *)
(* StdioAnswersEveryLine needs to know where every accepted request is     *)
(* (ChainInv, AnswerInv).                                                  *)

CONSTANTS
  Lines,    \* the requests that a warm process reads
  Unfit     \* those that the stdio host answers itself

\* The variables of CommandDispatch that DispatchPromises has not.
VARIABLES eof, chain, saved

Dispatch == INSTANCE CommandDispatch WITH Requests <- Lines

\* HostAssumption of CommandDispatch.
HostIsNoLine == Host \notin Lines

\* The chain holds each queued request once.
ChainInv ==
  /\ \A i \in 1..Len(chain) : phase[chain[i]] = "queued"
  /\ \A i, j \in 1..Len(chain) : chain[i] = chain[j] => i = j
  /\ \A r \in Lines :
       phase[r] = "queued" => \E i \in 1..Len(chain) : chain[i] = r

\* One dispatch runs at a time, and only an abandoned or a finished one has
\* been answered.
AnswerInv ==
  /\ \A r, s \in Dispatch!Running : r = s
  /\ \A r \in Lines :
       /\ phase[r] \in {"new", "queued", "running"} => reply[r] = "none"
       /\ phase[r] = "orphaned" => reply[r] = "internal"
       /\ phase[r] = "over" => reply[r] # "none"
  /\ host = "stdio" => TimedOut = {}

\* Before any timeout the one dispatch there is found the host's own process.
HooksInv ==
  TimedOut = {} =>
    /\ \A r \in Lines : flaws[r] = {}
    /\ Dispatch!Running = {} => installed = Host
    /\ \A r \in Dispatch!Running : installed = r /\ saved[r] = Host

\* The stdio host exits by itself only when nothing is left to answer.
ExitInv ==
  host = "stdio" /\ ~alive /\ ~stopping => chain = <<>> /\ Dispatch!Running = {}

DispatchInv == Dispatch!TypeOK /\ ChainInv /\ AnswerInv /\ HooksInv /\ ExitInv

\* Before the first request everything is the host's own.
LEMMA DispatchInit == HostIsNoLine /\ Dispatch!Init => DispatchInv
<1> SUFFICES ASSUME HostIsNoLine, Dispatch!Init PROVE DispatchInv
  OBVIOUS
<1> USE DEF Dispatch!Init, HostIsNoLine
<1>1. Dispatch!TypeOK
  BY EmptyFacts DEF Dispatch!TypeOK, Dispatch!Owners, Dispatch!Phase, Dispatch!Flaws
<1>2. ChainInv
  BY EmptyFacts DEF ChainInv
<1>3. AnswerInv /\ HooksInv /\ ExitInv
  BY DEF AnswerInv, HooksInv, ExitInv, Dispatch!Running, TimedOut
<1>. QED BY <1>1, <1>2, <1>3 DEF DispatchInv

\* What Head and Tail do to it.
LEMMA TailFacts ==
  ASSUME NEW q \in Seq(Lines), q # <<>>
  PROVE  /\ Head(q) \in Lines /\ Head(q) = q[1] /\ Len(q) >= 1
         /\ Tail(q) \in Seq(Lines)
         /\ Len(Tail(q)) = Len(q) - 1
         /\ \A i \in 1..Len(Tail(q)) : Tail(q)[i] = q[i + 1]
  OBVIOUS

\* A request joins the chain.
LEMMA ArriveInv ==
  ASSUME DispatchInv, alive, NEW r \in Lines, Dispatch!Arrive(r)
  PROVE  DispatchInv'
<1> USE DEF DispatchInv, Dispatch!Arrive, Dispatch!Goto, Dispatch!processVars
<1>1. Dispatch!TypeOK'
  BY AppendFacts DEF Dispatch!TypeOK, Dispatch!Phase
<1>2. ChainInv'
  <2> DEFINE len == Len(chain)
  <2>1. /\ chain \in Seq(Lines) /\ len \in Nat
        /\ Len(chain') = len + 1 /\ chain'[len + 1] = r
        /\ \A i \in 1..len : chain'[i] = chain[i]
    BY AppendFacts DEF Dispatch!TypeOK
  <2>2. \A i \in 1..len : chain[i] # r /\ chain[i] \in Lines
    BY <2>1 DEF ChainInv, Dispatch!TypeOK
  <2>3. \A i \in 1..Len(chain') : phase'[chain'[i]] = "queued"
    BY <2>1, <2>2 DEF ChainInv, Dispatch!TypeOK
  <2>4. \A i, j \in 1..Len(chain') : chain'[i] = chain'[j] => i = j
    BY <2>1, <2>2 DEF ChainInv
  <2>5. \A s \in Lines :
          phase'[s] = "queued" => \E i \in 1..Len(chain') : chain'[i] = s
    <3> SUFFICES ASSUME NEW s \in Lines, phase'[s] = "queued"
                 PROVE  \E i \in 1..Len(chain') : chain'[i] = s
      OBVIOUS
    <3>1. CASE s = r
      BY <3>1, <2>1
    <3>2. CASE s # r
      <4>1. PICK i \in 1..len : chain[i] = s
        BY <3>2 DEF ChainInv, Dispatch!TypeOK
      <4>. QED BY <4>1, <2>1
    <3>. QED BY <3>1, <3>2
  <2>. QED BY <2>3, <2>4, <2>5 DEF ChainInv
<1>3. AnswerInv' /\ HooksInv' /\ ExitInv'
  BY DEF AnswerInv, HooksInv, ExitInv, Dispatch!Running, TimedOut, Dispatch!TypeOK
<1>. QED BY <1>1, <1>2, <1>3

\* The first request leaves the chain, to run or with its answer.
LEMMA HeadLeaves ==
  ASSUME DispatchInv, chain # <<>>, NEW where \in Dispatch!Phase \ {"queued"},
         phase' = [phase EXCEPT ![Head(chain)] = where], chain' = Tail(chain)
  PROVE  /\ Head(chain) \in Lines /\ phase[Head(chain)] = "queued"
         /\ chain' \in Seq(Lines)
         /\ ChainInv'
<1> USE DEF DispatchInv
<1> DEFINE r == Head(chain)
           len == Len(chain)
<1>0. /\ r \in Lines /\ r = chain[1] /\ len \in Nat /\ len >= 1
      /\ chain' \in Seq(Lines) /\ Len(chain') = len - 1
      /\ \A i \in 1..Len(chain') : chain'[i] = chain[i + 1]
  BY TailFacts DEF Dispatch!TypeOK
<1>1. phase[r] = "queued"
  BY <1>0 DEF ChainInv
<1>2. \A i \in 1..len : i # 1 => chain[i] # r /\ chain[i] \in Lines
  BY <1>0 DEF ChainInv, Dispatch!TypeOK
<1>3. \A i \in 1..Len(chain') : phase'[chain'[i]] = "queued"
  <2> SUFFICES ASSUME NEW i \in 1..Len(chain')
               PROVE  phase'[chain'[i]] = "queued"
    OBVIOUS
  <2>1. i + 1 \in 1..len /\ i + 1 # 1 /\ chain'[i] = chain[i + 1]
    BY <1>0
  <2>2. chain[i + 1] # r /\ chain[i + 1] \in Lines
    BY <2>1, <1>2
  <2>3. phase[chain[i + 1]] = "queued"
    BY <2>1 DEF ChainInv
  <2>. QED BY <2>1, <2>2, <2>3 DEF Dispatch!TypeOK
<1>4. \A i, j \in 1..Len(chain') : chain'[i] = chain'[j] => i = j
  BY <1>0 DEF ChainInv
<1>5. \A s \in Lines :
        phase'[s] = "queued" => \E i \in 1..Len(chain') : chain'[i] = s
  <2> SUFFICES ASSUME NEW s \in Lines, phase'[s] = "queued"
               PROVE  \E i \in 1..Len(chain') : chain'[i] = s
    OBVIOUS
  <2>1. s # r /\ phase[s] = "queued"
    BY <1>0 DEF Dispatch!TypeOK
  <2>2. PICK i \in 1..len : chain[i] = s
    BY <2>1 DEF ChainInv
  <2>3. i # 1
    BY <2>1, <2>2, <1>0
  <2>4. i - 1 \in 1..Len(chain') /\ (i - 1) + 1 = i
    BY <2>3, <1>0
  <2>5. chain'[i - 1] = s
    BY <2>2, <2>4, <1>0
  <2>. QED BY <2>4, <2>5
<1>. QED BY <1>0, <1>1, <1>3, <1>4, <1>5 DEF ChainInv

\* The first request of the chain gets the process for itself.
LEMMA BeginInv ==
  ASSUME DispatchInv, alive, Dispatch!Begin
  PROVE  DispatchInv'
<1> USE DEF DispatchInv, Dispatch!Goto, Dispatch!processVars
<1> DEFINE r == Head(chain)
<1>1. /\ phase' = [phase EXCEPT ![r] = "running"]
      /\ saved' = [saved EXCEPT ![r] = installed]
      /\ installed' = r
      /\ chain # <<>> /\ chain' = Tail(chain)
      /\ Dispatch!Running = {}
      /\ UNCHANGED <<host, alive, stopping, eof, flaws, reply>>
  BY DEF Dispatch!Begin
<1>2. /\ r \in Lines /\ phase[r] = "queued"
      /\ chain' \in Seq(Lines)
      /\ ChainInv'
  BY <1>1, HeadLeaves DEF Dispatch!Phase
<1>3. reply[r] = "none"
  BY <1>2 DEF AnswerInv
<1>4. Dispatch!TypeOK'
  BY <1>1, <1>2 DEF Dispatch!TypeOK, Dispatch!Phase, Dispatch!Owners
<1>5. \A s \in Lines : phase'[s] = "running" <=> s = r
  BY <1>1, <1>2 DEF Dispatch!Running, Dispatch!TypeOK
<1>6. AnswerInv' /\ HooksInv' /\ ExitInv'
  BY <1>1, <1>2, <1>3, <1>5
     DEF AnswerInv, HooksInv, ExitInv, Dispatch!Running, TimedOut, Dispatch!TypeOK
<1>. QED BY <1>2, <1>4, <1>6

\* The first request of the chain is answered without being dispatched.
LEMMA UnbegunInv ==
  ASSUME DispatchInv, alive, Dispatch!AnswerUndispatched \/ Dispatch!RejectDispatch
  PROVE  DispatchInv'
<1> USE DEF DispatchInv, Dispatch!Goto, Dispatch!Answer, Dispatch!processVars
<1> DEFINE r == Head(chain)
<1>0. PICK code \in {"undispatched", "rejected"} : reply' = [reply EXCEPT ![r] = code]
  BY DEF Dispatch!AnswerUndispatched, Dispatch!RejectDispatch
<1>1. /\ phase' = [phase EXCEPT ![r] = "over"]
      /\ chain # <<>> /\ chain' = Tail(chain)
      /\ Dispatch!Running = {}
      /\ UNCHANGED <<host, alive, stopping, eof, installed, saved, flaws>>
  BY DEF Dispatch!AnswerUndispatched, Dispatch!RejectDispatch
<1>2. /\ r \in Lines /\ phase[r] = "queued"
      /\ chain' \in Seq(Lines)
      /\ ChainInv'
  BY <1>1, HeadLeaves DEF Dispatch!Phase
<1>3. Dispatch!TypeOK'
  BY <1>0, <1>1, <1>2 DEF Dispatch!TypeOK, Dispatch!Phase
<1>4. \A s \in Lines : /\ phase'[s] = IF s = r THEN "over" ELSE phase[s]
                       /\ reply'[s] = IF s = r THEN code ELSE reply[s]
  BY <1>0, <1>1, <1>2 DEF Dispatch!TypeOK
<1>5. reply[r] = "none"
  BY <1>2 DEF AnswerInv
<1>6. AnswerInv' /\ HooksInv' /\ ExitInv'
  BY <1>0, <1>1, <1>4, <1>5 DEF AnswerInv, HooksInv, ExitInv, Dispatch!Running, TimedOut
<1>. QED BY <1>2, <1>3, <1>6

\* Steps that leave the chain and the queued requests alone.
LEMMA ChainFrame ==
  ASSUME Dispatch!TypeOK, ChainInv, UNCHANGED chain,
         \A s \in Lines : phase'[s] = "queued" <=> phase[s] = "queued"
  PROVE  ChainInv'
  BY DEF ChainInv, Dispatch!TypeOK

\* What DispatchPromises says of every request it says of the lines.
LEMMA LinesDispatched ==
  ASSUME Dispatch!TypeOK
  PROVE  /\ Active = {r \in Lines : phase[r] \in {"running", "orphaned"}}
         /\ Dispatch!Active = Active
         /\ TimedOut = {r \in Lines : reply[r] = "internal"}
         /\ DOMAIN flaws = Lines
         /\ DOMAIN phase = Lines
  BY DEF Dispatch!TypeOK, Active, Dispatch!Active, TimedOut

\* A command ends, and what it replaced is put back.
LEMMA EndInv ==
  ASSUME DispatchInv, alive, NEW r \in Lines, Dispatch!End(r)
  PROVE  DispatchInv'
<1> USE DEF DispatchInv, Dispatch!End, Dispatch!Restore, Dispatch!Goto, Dispatch!Answer,
            Dispatch!processVars
<1>1. Dispatch!TypeOK'
  BY DEF Dispatch!TypeOK, Dispatch!Phase, Dispatch!Owners
<1>2. /\ \A s \in Lines : phase'[s] = IF s = r THEN "over" ELSE phase[s]
      /\ phase[r] \in {"running", "orphaned"}
  BY LinesDispatched DEF Dispatch!TypeOK
<1>3. ChainInv'
  BY <1>2, ChainFrame
<1>4. \A s \in Lines :
        reply'[s] = IF s = r /\ phase[r] = "running" THEN "ok" ELSE reply[s]
  BY DEF Dispatch!TypeOK
<1>5. /\ TimedOut = {s \in Lines : reply[s] = "internal"}
      /\ TimedOut' = {s \in Lines : reply'[s] = "internal"}
  BY <1>1 DEF Dispatch!TypeOK, TimedOut
<1>6. AnswerInv'
  BY <1>2, <1>4, <1>5 DEF AnswerInv, Dispatch!Running
<1>7. HooksInv'
  BY <1>2, <1>4, <1>5 DEF HooksInv, AnswerInv, Dispatch!Running
<1>8. ExitInv'
  BY <1>2 DEF ExitInv, Dispatch!Running
<1>. QED BY <1>1, <1>3, <1>6, <1>7, <1>8

\* A request is answered by its timer, and its command left to run.
LEMMA TimeoutInv ==
  ASSUME DispatchInv, alive, NEW r \in Lines, Dispatch!Timeout(r)
  PROVE  DispatchInv'
<1> USE DEF DispatchInv, Dispatch!Timeout, Dispatch!Goto, Dispatch!Answer
<1>1. Dispatch!TypeOK'
  BY DEF Dispatch!TypeOK, Dispatch!Phase
<1>2. \A s \in Lines : /\ phase'[s] = IF s = r THEN "orphaned" ELSE phase[s]
                       /\ reply'[s] = IF s = r THEN "internal" ELSE reply[s]
  BY DEF Dispatch!TypeOK
<1>3. ChainInv'
  BY <1>2, ChainFrame
<1>4. AnswerInv' /\ HooksInv' /\ ExitInv'
  BY <1>2 DEF AnswerInv, HooksInv, ExitInv, Dispatch!Running, TimedOut
<1>. QED BY <1>1, <1>3, <1>4

\* A command writes, or reads its environment.
LEMMA CommandStepInv ==
  ASSUME DispatchInv, alive, NEW r \in Lines, Dispatch!Write(r) \/ Dispatch!ReadEnv(r)
  PROVE  DispatchInv'
<1> USE DEF DispatchInv, Dispatch!processVars
<1>1. UNCHANGED <<host, alive, stopping, eof, chain, phase, installed, saved, reply>>
  BY DEF Dispatch!Write, Dispatch!ReadEnv
<1>2. Dispatch!TypeOK'
  <2>1. flaws' \in [Lines -> SUBSET Dispatch!Flaws]
    <3>1. \A s \in Lines, flaw \in Dispatch!Flaws :
            Dispatch!Mark(s, flaw) \in SUBSET Dispatch!Flaws
      BY DEF Dispatch!Mark, Dispatch!TypeOK
    <3>2. CASE Dispatch!Write(r)
      BY <3>1, <3>2 DEF Dispatch!Write, Dispatch!TypeOK, Dispatch!Flaws
    <3>3. CASE Dispatch!ReadEnv(r)
      BY <3>1, <3>3 DEF Dispatch!ReadEnv, Dispatch!TypeOK, Dispatch!Flaws
    <3>. QED BY <3>2, <3>3
  <2>. QED BY <1>1, <2>1 DEF Dispatch!TypeOK
<1>3. ChainInv' /\ AnswerInv' /\ ExitInv'
  BY <1>1, ChainFrame DEF ChainInv, AnswerInv, ExitInv, Dispatch!Running, TimedOut
<1>4. ASSUME TimedOut = {} PROVE flaws' = flaws
  <2>1. installed = r
    BY <1>4, LinesDispatched
       DEF Dispatch!Write, Dispatch!ReadEnv, Dispatch!Running, AnswerInv, HooksInv
  <2>. QED BY <2>1 DEF Dispatch!Write, Dispatch!ReadEnv, Dispatch!TypeOK
<1>5. HooksInv'
  BY <1>1, <1>4 DEF HooksInv, Dispatch!Running, TimedOut
<1>. QED BY <1>2, <1>3, <1>5

\* The process stops, at once or when its commands are over.
LEMMA ProcessInv ==
  ASSUME HostIsNoLine, DispatchInv, alive,
         \/ \E r \in Lines : Dispatch!ExitForReal(r)
         \/ Dispatch!RequestShutdown \/ Dispatch!TimedExit
         \/ Dispatch!EndOfInput \/ Dispatch!ExitAtEnd
  PROVE  DispatchInv'
<1> USE DEF DispatchInv
<1>1. UNCHANGED <<host, chain, phase, installed, saved, flaws, reply>>
  BY DEF Dispatch!ExitForReal, Dispatch!RequestShutdown, Dispatch!TimedExit,
         Dispatch!EndOfInput, Dispatch!ExitAtEnd, Dispatch!Stop
<1>2. Dispatch!TypeOK'
  BY <1>1
     DEF Dispatch!TypeOK, Dispatch!ExitForReal, Dispatch!RequestShutdown, Dispatch!TimedExit,
         Dispatch!EndOfInput, Dispatch!ExitAtEnd, Dispatch!Stop
<1>3. ChainInv' /\ AnswerInv' /\ HooksInv'
  BY <1>1 DEF ChainInv, AnswerInv, HooksInv, Dispatch!Running, TimedOut
<1>4. ASSUME NEW r \in Lines, Dispatch!ExitForReal(r), host = "stdio" PROVE FALSE
  BY <1>4, LinesDispatched
     DEF HostIsNoLine, Dispatch!ExitForReal, Dispatch!Running, AnswerInv, HooksInv
<1>5. ExitInv'
  <2>1. CASE \E r \in Lines : Dispatch!ExitForReal(r)
    BY <1>1, <1>4, <2>1 DEF ExitInv
  <2>2. CASE Dispatch!RequestShutdown \/ Dispatch!EndOfInput
    BY <2>2 DEF ExitInv, Dispatch!RequestShutdown, Dispatch!EndOfInput
  <2>3. CASE Dispatch!TimedExit
    BY <2>3 DEF ExitInv, Dispatch!TimedExit, Dispatch!Stop
  <2>4. CASE Dispatch!ExitAtEnd
    BY <2>4, <1>1 DEF ExitInv, Dispatch!ExitAtEnd, Dispatch!Running
  <2>. QED BY <2>1, <2>2, <2>3, <2>4
<1>. QED BY <1>2, <1>3, <1>5

\* Every step keeps the invariant.
LEMMA DispatchNext ==
  HostIsNoLine /\ DispatchInv /\ [Dispatch!Next]_(Dispatch!vars) => DispatchInv'
<1> SUFFICES ASSUME HostIsNoLine, DispatchInv, [Dispatch!Next]_(Dispatch!vars)
             PROVE  DispatchInv'
  OBVIOUS
<1>1. CASE UNCHANGED Dispatch!vars
  BY <1>1 DEF DispatchInv, Dispatch!vars, Dispatch!processVars, Dispatch!TypeOK, ChainInv,
              AnswerInv, HooksInv, ExitInv, Dispatch!Running, TimedOut
<1>2. CASE Dispatch!Next
  BY <1>2, ArriveInv, BeginInv, UnbegunInv, EndInv, TimeoutInv, CommandStepInv,
     ProcessInv
     DEF Dispatch!Next, Dispatch!CommandStep
<1>. QED BY <1>1, <1>2

\* The invariant holds in every reachable state.
LEMMA DispatchInvariance ==
  ASSUME HostIsNoLine PROVE Dispatch!Spec => []DispatchInv
<1>1. Dispatch!Init => DispatchInv
  BY DispatchInit
<1>2. DispatchInv /\ [Dispatch!Next]_(Dispatch!vars) => DispatchInv'
  BY DispatchNext
<1>. QED BY <1>1, <1>2, PTL DEF Dispatch!Spec

\* Every variable of the dispatching process keeps its type.
THEOREM DispatchTypeSafety ==
  ASSUME HostIsNoLine PROVE Dispatch!Spec => []Dispatch!TypeOK
<1>1. DispatchInv => Dispatch!TypeOK
  BY DEF DispatchInv
<1>2. Dispatch!Spec => []DispatchInv
  BY DispatchInvariance
<1>. QED BY <1>1, <1>2, PTL

\* Until a dispatch times out, the replacements of dispatchCli never mix two
\* commands up and the host finds its own process again between commands.
THEOREM NoBleedBeforeTimeout ==
  ASSUME HostIsNoLine PROVE Dispatch!Spec => []CleanUntilTimeout
<1>1. DispatchInv => CleanUntilTimeout
  BY LinesDispatched
     DEF DispatchInv, CleanUntilTimeout, AnswerInv, HooksInv, Dispatch!Running
<1>2. Dispatch!Spec => []DispatchInv
  BY DispatchInvariance
<1>. QED BY <1>1, <1>2, PTL

\* The stdio host answers every line it has read before it exits by itself.
THEOREM StdioAnswers ==
  ASSUME HostIsNoLine PROVE Dispatch!Spec => []StdioAnswersEveryLine
<1>1. DispatchInv => StdioAnswersEveryLine
  BY EmptyFacts
     DEF DispatchInv, StdioAnswersEveryLine, Dispatch!TypeOK, Dispatch!Phase, ChainInv,
         AnswerInv, ExitInv, Dispatch!Running, TimedOut
<1>2. Dispatch!Spec => []DispatchInv
  BY DispatchInvariance
<1>. QED BY <1>1, <1>2, PTL
=============================================================================
