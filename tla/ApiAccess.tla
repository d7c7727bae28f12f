----------------------------- MODULE ApiAccess -----------------------------
(***************************************************************************)
(* How a command dispatched by the daemon reads and writes Ano data: the   *)
(* Zero client first (src/zero/reads.ts, src/zero/writes.ts), then REST    *)
(* through retryFetch (src/bridge/retry.ts) and the response cache         *)
(* (src/core/response-cache.ts), as channels/list.ts, messages/send.ts and *)
(* channels/archive.ts put them together.                                  *)
(*                                                                         *)
(* The daemon dispatches one command at a time.  The cache, the Zero       *)
(* client and the mutations that Zero has not delivered yet outlive the    *)
(* commands, whose profiles may differ.  Each account's data on the server *)
(* is abstracted to a version number that every change increments.         *)
(***************************************************************************)
EXTENDS Naturals, FiniteSets

CONSTANTS
  Commands,     \* the commands dispatched while the model runs
  Accounts,     \* the accounts (API keys) of the callers' profiles
  Boot,         \* the account of the daemon's bootstrap profile
  Paths,        \* the read paths of READ_ALLOWLIST
  ZeroBacked,   \* ZERO_BACKED_PATHS
  MaxRetries,   \* maxRetries of retryFetch
  None

ASSUME ApiAssumption ==
  /\ Boot \in Accounts
  /\ ZeroBacked \subseteq Paths
  /\ MaxRetries \in Nat
  /\ None \notin Commands

VARIABLES
  cur,        \* the command being dispatched
  pc,         \* where it is
  req,        \* what it does
  attempt,    \* retryFetch's attempt counter
  resp,       \* the server's answer to the attempt, on its way back
  result,     \* how each command ended
  caller,     \* the account each command was called for
  writers,    \* the commands that change something
  viaZero,    \* the commands that Zero served
  as,         \* the accounts whose data each command has read or changed
  applied,    \* how often the server has applied each command's change
  unsure,     \* the commands that were left without an answer once
  mutation,   \* each command's Zero mutation
  zero,       \* what activeZeroOrNull() goes by
  version,    \* the version of each account's data on the server
  cache,      \* the response cache: what each key holds, version 0 for none
  known,      \* the version each account's last REST write in here led to
  stale       \* the commands that read an older version than that

commandVars == <<cur, pc, req, attempt, resp>>
historyVars == <<result, caller, writers, viaZero, as, applied, unsure, stale>>
sharedVars == <<mutation, zero, version, cache, known>>
vars == <<commandVars, historyVars, sharedVars>>

Pc == {"idle", "start", "zeroRead", "zeroWrite", "rest", "call", "answer"}

\* "unclear": a network or gateway error (502, 503, 504); "application": 500;
\* "refused": 429 and the other 4xx.
Codes == {"ok", "unclear", "application", "refused"}

\* zeroOn: ANO_DISABLE_ZERO is not set; eligible: the command has a Zero path
\* for what it does (a write without one is like a write with Zero off).
Reads == {r \in [kind : {"read"}, path : Paths, zeroOn : BOOLEAN, eligible : BOOLEAN] :
            r.eligible => r.path \in ZeroBacked}
Writes == [kind : {"write"}, zeroOn : BOOLEAN, eligible : {TRUE}]
Requests == Reads \cup Writes

NoRequest == [kind |-> "none"]
NoAnswer == [code |-> "none", version |-> 0]

Results == {"none", "ok", "error"}
Mutations == {"none", "pending", "applied", "rejected"}

NoEntries == [k \in Paths \X Accounts |-> [owner |-> k[2], version |-> 0]]

TypeOK ==
  /\ cur \in Commands \cup {None}
  /\ pc \in Pc
  /\ req \in Requests \cup {NoRequest}
  /\ attempt \in 0..MaxRetries
  /\ resp \in [code : Codes, version : Nat] \cup {NoAnswer}
  /\ result \in [Commands -> Results]
  /\ caller \in [Commands -> Accounts]
  /\ writers \subseteq Commands
  /\ viaZero \subseteq Commands
  /\ as \in [Commands -> SUBSET Accounts]
  /\ applied \in [Commands -> Nat]
  /\ unsure \subseteq Commands
  /\ mutation \in [Commands -> Mutations]
  /\ zero \in {"connected", "down"}
  /\ version \in [Accounts -> Nat]
  /\ cache \in [Paths \X Accounts -> [owner : Accounts, version : Nat]]
  /\ known \in [Accounts -> Nat]
  /\ stale \subseteq Commands

Init ==
  /\ cur = None
  /\ pc = "idle"
  /\ req = NoRequest
  /\ attempt = 0
  /\ resp = NoAnswer
  /\ result = [c \in Commands |-> "none"]
  /\ caller = [c \in Commands |-> Boot]
  /\ writers = {}
  /\ viaZero = {}
  /\ as = [c \in Commands |-> {}]
  /\ applied = [c \in Commands |-> 0]
  /\ unsure = {}
  /\ mutation = [c \in Commands |-> "none"]
  /\ zero = "down"
  /\ version = [a \in Accounts |-> 1]
  /\ cache = NoEntries
  /\ known = [a \in Accounts |-> 0]
  /\ stale = {}

-----------------------------------------------------------------------------
(* Helpers                                                                 *)

Goto(where) == pc' = where /\ UNCHANGED <<cur, req, attempt, resp>>

End(outcome) ==
  /\ result' = [result EXCEPT ![cur] = outcome]
  /\ cur' = None
  /\ pc' = "idle"
  /\ req' = NoRequest
  /\ attempt' = 0
  /\ resp' = NoAnswer

\* The command cur has got an account's data of a version.
Got(account, ver) ==
  /\ as' = [as EXCEPT ![cur] = @ \cup {account}]
  /\ stale' = IF ver < known[account] THEN stale \cup {cur} ELSE stale

\* The server makes the change of command c for an account.
Apply(c, account) ==
  /\ applied' = [applied EXCEPT ![c] = @ + 1]
  /\ as' = [as EXCEPT ![c] = @ \cup {account}]
  /\ version' = [version EXCEPT ![account] = @ + 1]

\* activeZeroOrNull()
ZeroActive == req.zeroOn /\ zero = "connected"

\* cacheGet and cacheSet leave a path that Zero serves alone.
Cacheable == req.kind = "read" /\ ~(req.zeroOn /\ req.path \in ZeroBacked)

\* Mutant of Key: the key leaves the Authorization header out.
KeyOfPath == <<req.path, Boot>>

\* makeKey: the path and a hash of the Authorization header.
Key == <<req.path, caller[cur]>>

\* cacheGet finds an entry.
Cached == Cacheable /\ cache[Key].version # 0

-----------------------------------------------------------------------------
(* A command and its Zero path                                             *)

Dispatch(c) ==
  /\ cur = None
  /\ result[c] = "none"
  /\ cur' = c
  /\ pc' = "start"
  /\ req' \in Requests
  /\ writers' = IF req'.kind = "write" THEN writers \cup {c} ELSE writers
  /\ \E a \in Accounts : caller' = [caller EXCEPT ![c] = a]
  /\ UNCHANGED <<attempt, resp, result, viaZero, as, applied, unsure, stale,
                 sharedVars>>

\* The read goes to Zero if it has a path for it and Zero is connected.
StartRead ==
  /\ pc = "start" /\ req.kind = "read"
  /\ Goto(IF req.eligible /\ ZeroActive THEN "zeroRead" ELSE "rest")
  /\ UNCHANGED <<historyVars, sharedVars>>

\* The rows of the daemon's own account.  How recent they are is up to the
\* sync service.
ZeroRows ==
  /\ pc = "zeroRead" /\ zero = "connected"
  /\ as' = [as EXCEPT ![cur] = @ \cup {Boot}]
  /\ viaZero' = viaZero \cup {cur}
  /\ End("ok")
  /\ UNCHANGED <<caller, writers, applied, unsure, stale, sharedVars>>

\* null: no rows, a query that timed out or failed, a drifted table.
ZeroMiss ==
  /\ pc = "zeroRead"
  /\ Goto("rest")
  /\ UNCHANGED <<historyVars, sharedVars>>

StartWrite ==
  /\ pc = "start" /\ req.kind = "write"
  /\ IF req.eligible /\ ZeroActive
       THEN /\ Goto("zeroWrite")
            /\ mutation' = [mutation EXCEPT ![cur] = "pending"]
            /\ viaZero' = viaZero \cup {cur}
       ELSE /\ Goto("rest")
            /\ UNCHANGED <<mutation, viaZero>>
  /\ UNCHANGED <<result, caller, writers, as, applied, unsure, stale, zero,
                 version, cache, known>>

\* zero.mutate throws: { ok: false }.
MutateThrows ==
  /\ pc = "start" /\ req.kind = "write"
  /\ req.eligible /\ ZeroActive
  /\ End("error")
  /\ UNCHANGED <<caller, writers, viaZero, as, applied, unsure, stale, sharedVars>>

\* Zero delivers a mutation whenever it is connected, also after the command
\* that made it has ended.
ServerTakesMutation(c) ==
  /\ mutation[c] = "pending" /\ zero = "connected"
  /\ \/ /\ mutation' = [mutation EXCEPT ![c] = "applied"]
        /\ Apply(c, Boot)
     \/ /\ mutation' = [mutation EXCEPT ![c] = "rejected"]
        /\ UNCHANGED <<applied, as, version>>
  /\ UNCHANGED <<commandVars, result, caller, writers, viaZero, unsure, stale,
                 zero, cache, known>>

\* mutation.server resolves: the command ends, an error is not retried.
ServerConfirms ==
  /\ pc = "zeroWrite"
  /\ \/ mutation[cur] = "applied" /\ End("ok")
     \/ mutation[cur] = "rejected" /\ End("error")
  /\ UNCHANGED <<caller, writers, viaZero, as, applied, unsure, stale, sharedVars>>

\* Mutant of ServerTimeout: no answer counts as success.
ServerTimeoutSucceeds ==
  /\ pc = "zeroWrite"
  /\ unsure' = unsure \cup {cur}
  /\ End("ok")
  /\ UNCHANGED <<caller, writers, viaZero, as, applied, stale, sharedVars>>

\* awaitServerWithTimeout gives up after 5 s and returns null, which sends
\* the command on to REST; the mutation stays with Zero.
ServerTimeout ==
  /\ pc = "zeroWrite"
  /\ unsure' = unsure \cup {cur}
  /\ Goto("rest")
  /\ UNCHANGED <<result, caller, writers, viaZero, as, applied, stale, sharedVars>>

-----------------------------------------------------------------------------
(* REST: retryFetch                                                        *)

CacheHit ==
  /\ pc = "rest" /\ Cached
  /\ Got(cache[Key].owner, cache[Key].version)
  /\ End("ok")
  /\ UNCHANGED <<caller, writers, viaZero, applied, unsure, sharedVars>>

CallRest ==
  /\ pc = "rest" /\ ~Cached
  /\ Goto("call")
  /\ UNCHANGED <<historyVars, sharedVars>>

\* A refused call changes nothing; one that ends in an error without a clear
\* answer may have been carried out.
ServerHandles ==
  /\ pc = "call"
  /\ \E code \in Codes :
       LET mayApply == req.kind = "write" /\ code # "refused"
           mustApply == req.kind = "write" /\ code = "ok"
       IN
       /\ \/ mayApply /\ Apply(cur, caller[cur])
          \/ ~mustApply /\ UNCHANGED <<applied, as, version>>
       /\ resp' = [code |-> code, version |-> version'[caller[cur]]]
  /\ pc' = "answer"
  /\ UNCHANGED <<cur, req, attempt, result, caller, writers, viaZero, unsure,
                 stale, mutation, zero, cache, known>>

\* How often an answer is retried; a 500 at most twice.
RetriesFor(code) ==
  IF code = "application" /\ MaxRetries > 2 THEN 2 ELSE MaxRetries

NoClearAnswer == resp.code \in {"unclear", "application"}

Retry ==
  /\ pc = "answer" /\ NoClearAnswer
  /\ attempt < RetriesFor(resp.code)
  /\ attempt' = attempt + 1
  /\ unsure' = unsure \cup {cur}
  /\ pc' = "call"
  /\ resp' = NoAnswer
  /\ UNCHANGED <<cur, req, result, caller, writers, viaZero, as, applied, stale,
                 sharedVars>>

GiveUp ==
  /\ pc = "answer" /\ NoClearAnswer
  /\ attempt >= RetriesFor(resp.code)
  /\ unsure' = unsure \cup {cur}
  /\ End("error")
  /\ UNCHANGED <<caller, writers, viaZero, as, applied, stale, sharedVars>>

\* An error at once.
Refused ==
  /\ pc = "answer"
  /\ resp.code = "refused"
  /\ End("error")
  /\ UNCHANGED <<caller, writers, viaZero, as, applied, unsure, stale, sharedVars>>

\* res.ok of an allowlisted read: cacheSet, and the caller gets the body.
TakeRead ==
  /\ pc = "answer" /\ resp.code = "ok" /\ req.kind = "read"
  /\ cache' = IF Cacheable
              THEN [cache EXCEPT ![Key] = [owner |-> caller[cur],
                                           version |-> resp.version]]
              ELSE cache
  /\ Got(caller[cur], resp.version)
  /\ End("ok")
  /\ UNCHANGED <<caller, writers, viaZero, applied, unsure, mutation, zero,
                 version, known>>

\* Mutant of InvalidateOrigin: only the entries of the Zero-backed paths go.
InvalidateBacked ==
  cache' = [k \in Paths \X Accounts |->
             IF k[1] \in ZeroBacked THEN NoEntries[k] ELSE cache[k]]

\* cacheInvalidateOrigin; the accounts share an origin.
InvalidateOrigin == cache' = NoEntries

\* res.ok of any other path.
TakeWrite ==
  /\ pc = "answer" /\ resp.code = "ok" /\ req.kind = "write"
  /\ InvalidateOrigin
  /\ known' = [known EXCEPT ![caller[cur]] = resp.version]
  /\ End("ok")
  /\ UNCHANGED <<caller, writers, viaZero, as, applied, unsure, stale, mutation,
                 zero, version>>

-----------------------------------------------------------------------------
(* The surroundings                                                        *)

\* The TTL of an entry (5 s) runs out.
CacheExpires(k) ==
  /\ cache[k].version # 0
  /\ cache' = [cache EXCEPT ![k] = NoEntries[k]]
  /\ UNCHANGED <<commandVars, historyVars, mutation, zero, version, known>>

\* bootstrapZero succeeds, or the connection comes back.
ZeroConnects ==
  /\ zero = "down"
  /\ zero' = "connected"
  /\ UNCHANGED <<commandVars, historyVars, mutation, version, cache, known>>

ZeroDrops ==
  /\ zero = "connected"
  /\ zero' = "down"
  /\ UNCHANGED <<commandVars, historyVars, mutation, version, cache, known>>

-----------------------------------------------------------------------------
CommandStep ==
  \/ StartRead \/ ZeroRows \/ ZeroMiss
  \/ StartWrite \/ MutateThrows \/ ServerConfirms \/ ServerTimeout
  \/ CacheHit \/ CallRest \/ ServerHandles
  \/ Retry \/ GiveUp \/ Refused \/ TakeRead \/ TakeWrite

Next ==
  \/ \E c \in Commands : Dispatch(c) \/ ServerTakesMutation(c)
  \/ CommandStep
  \/ \E k \in Paths \X Accounts : CacheExpires(k)
  \/ ZeroConnects \/ ZeroDrops

Spec == Init /\ [][Next]_vars

-----------------------------------------------------------------------------
\* A REST read that follows a successful REST write of the same account in
\* this process never shows the data as it was before the write ("the
\* post-mutation read needs to be fresh anyway", response-cache.ts), whatever
\* the cache held and whatever profiles came in between.
FreshAfterRestWrite == stale = {}

\* A command that reports a change has made it, exactly once unless one of
\* its calls was left without a clear answer, and no command makes its change
\* more often than Zero's mutation and the attempts of retryFetch allow.
AppliedOnceUnlessUnsure ==
  \A c \in Commands :
    /\ applied[c] <= MaxRetries + 2
    /\ result[c] = "ok" /\ c \in writers =>
         /\ applied[c] >= 1
         /\ c \notin unsure => applied[c] = 1

\* What REST and the response cache give a command, or change for it, belongs
\* to the account it was called for, although both serve every profile.
RestIsPerAccount ==
  \A c \in Commands \ viaZero : as[c] \subseteq {caller[c]}

\* response-cache.ts, "Per-auth scoping": "so two profiles in the same daemon
\* process can't see each other's data".
ProfilesAreSeparate == \A c \in Commands : as[c] \subseteq {caller[c]}

=============================================================================
