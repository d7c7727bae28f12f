--------------------------- MODULE ApiAccessProofs ---------------------------
(***************************************************************************)
(* Proofs about ApiAccess for any number of commands, accounts, paths and  *)
(* retries.                                                                *)
(***************************************************************************)
EXTENDS ApiAccess, TLAPS

-----------------------------------------------------------------------------
(* The inductive invariant                                                 *)

\* The command being dispatched and what it does.
CurInv ==
  /\ pc = "idle" <=> cur = None
  /\ cur # None => /\ result[cur] = "none"
                   /\ req \in Requests
                   /\ cur \in writers <=> req.kind = "write"
  /\ pc = "zeroRead" => req.kind = "read"
  /\ pc = "zeroWrite" => req.kind = "write"
  /\ pc \notin {"call", "answer"} => attempt = 0

\* A command that was not dispatched yet has done nothing.
UndispatchedInv ==
  \A c \in Commands : result[c] = "none" /\ c # cur =>
    /\ applied[c] = 0
    /\ as[c] = {}
    /\ mutation[c] = "none"
    /\ c \notin writers

\* A mutation is pending beside the command that made it, or has been given up
\* on by it; a command that is sure of all its calls makes one.
MutationInv ==
  /\ \A c \in Commands :
       /\ mutation[c] = "pending" => /\ c \in viaZero
                                     /\ c \in unsure \/ (c = cur /\ pc = "zeroWrite")
       /\ mutation[c] = "applied" => applied[c] >= 1
  /\ pc \in {"start", "zeroRead"} => mutation[cur] = "none"
  /\ pc \in {"rest", "call", "answer"} /\ cur \notin unsure =>
       mutation[cur] = "none" /\ attempt = 0

\* How often the server can have applied a change: for its mutation, and for
\* each attempt of retryFetch.
OfMutation(c) == IF mutation[c] = "applied" THEN 1 ELSE 0
OfAttempts(c) == IF result[c] # "none" THEN MaxRetries + 1
                 ELSE IF c # cur THEN 0
                 ELSE IF pc = "answer" THEN attempt + 1
                 ELSE attempt

CountInv ==
  /\ \A c \in Commands : applied[c] <= OfMutation(c) + OfAttempts(c)
  /\ pc = "answer" /\ resp.code = "ok" /\ req.kind = "write" => applied[cur] >= 1

\* What a command that reported success has changed.
OnceInv ==
  \A c \in Commands : result[c] = "ok" /\ c \in writers =>
    /\ applied[c] >= 1
    /\ c \notin unsure => applied[c] = 1

\* Neither the cache nor an answer on its way back is older than the last REST
\* write of its account.
FreshInv ==
  /\ stale = {}
  /\ \A a \in Accounts : known[a] <= version[a]
  /\ \A k \in Paths \X Accounts :
       /\ cache[k].owner = k[2]
       /\ cache[k].version # 0 => known[k[2]] <= cache[k].version
  /\ pc = "answer" => /\ known[caller[cur]] <= resp.version
                      /\ resp.version <= version[caller[cur]]

IInv == /\ TypeOK
        /\ CurInv
        /\ UndispatchedInv
        /\ MutationInv
        /\ CountInv
        /\ OnceInv
        /\ FreshInv
        /\ RestIsPerAccount

-----------------------------------------------------------------------------
(* Requests and keys                                                       *)

\* A request reads a path or writes.
LEMMA RequestKinds ==
  /\ \A r \in Requests : r.kind \in {"read", "write"}
  /\ \A r \in Requests : r.kind = "read" => r.path \in Paths
  /\ NoRequest.kind = "none"
  /\ NoAnswer.code = "none" /\ NoAnswer.version = 0
BY DEF Requests, Reads, Writes, NoRequest, NoAnswer

\* The empty cache.
LEMMA EmptyCache ==
  /\ NoEntries \in [Paths \X Accounts -> [owner : Accounts, version : Nat]]
  /\ \A k \in Paths \X Accounts : NoEntries[k].owner = k[2] /\ NoEntries[k].version = 0
BY DEF NoEntries

\* A command that may use the cache has a key, of its account.
LEMMA KeyType ==
  ASSUME TypeOK, CurInv, Cacheable, cur # None
  PROVE  /\ Key \in Paths \X Accounts
         /\ Key[2] = caller[cur]
BY RequestKinds DEF TypeOK, CurInv, Cacheable, Key

\* What the end of a command leaves of the command's own variables.
LEMMA EndTypes ==
  ASSUME TypeOK, cur \in Commands, NEW outcome \in {"ok", "error"}, End(outcome)
  PROVE  /\ cur' \in Commands \cup {None}
         /\ pc' \in Pc
         /\ req' \in Requests \cup {NoRequest}
         /\ attempt' \in 0..MaxRetries
         /\ resp' \in [code : Codes, version : Nat] \cup {NoAnswer}
         /\ result' \in [Commands -> Results]
BY ApiAssumption DEF TypeOK, End, Pc, Results

\* A call that is made again, or not.
LEMMA AgainTypes ==
  ASSUME TypeOK, cur \in Commands, Retry \/ GiveUp
  PROVE  TypeOK'
<1>1. CASE Retry
  <2>1. attempt' \in 0..MaxRetries
    BY <1>1, ApiAssumption DEF Retry, RetriesFor, TypeOK
  <2> QED
    BY <1>1, <2>1 DEF TypeOK, Retry, sharedVars, Pc
<1>2. CASE GiveUp
  <2>1. End("error")
    BY <1>2 DEF GiveUp
  <2>2. /\ cur' \in Commands \cup {None}
        /\ pc' \in Pc
        /\ req' \in Requests \cup {NoRequest}
        /\ attempt' \in 0..MaxRetries
        /\ resp' \in [code : Codes, version : Nat] \cup {NoAnswer}
        /\ result' \in [Commands -> Results]
    BY <2>1, EndTypes
  <2> QED
    BY <1>2, <2>2 DEF TypeOK, GiveUp, sharedVars
<1> QED
  BY <1>1, <1>2

\* What a command has got is of one more account.
LEMMA GotFacts ==
  ASSUME TypeOK, cur \in Commands, NEW account \in Accounts, NEW ver \in Nat, Got(account, ver)
  PROVE  /\ as' \in [Commands -> SUBSET Accounts]
         /\ \A c \in Commands : as'[c] = IF c = cur THEN as[c] \cup {account} ELSE as[c]
         /\ stale' \subseteq Commands
         /\ known[account] <= ver => stale' = stale
<1>1. as[cur] \cup {account} \in SUBSET Accounts
  BY DEF TypeOK
<1>2. as' = [as EXCEPT ![cur] = as[cur] \cup {account}]
  BY DEF Got
<1>3. known[account] <= ver => ~(ver < known[account])
  BY DEF TypeOK
<1>4. stale' = IF ver < known[account] THEN stale \cup {cur} ELSE stale
  BY DEF Got
<1>5. stale' \subseteq Commands
  BY <1>4 DEF TypeOK
<1> QED
  BY <1>1, <1>2, <1>3, <1>4, <1>5 DEF TypeOK

\* What a change of the server changes.
LEMMA ApplyFacts ==
  ASSUME TypeOK, NEW c \in Commands, NEW account \in Accounts, Apply(c, account)
  PROVE  /\ applied' \in [Commands -> Nat]
         /\ \A d \in Commands : applied'[d] = IF d = c THEN applied[d] + 1 ELSE applied[d]
         /\ as' \in [Commands -> SUBSET Accounts]
         /\ \A d \in Commands : as'[d] = IF d = c THEN as[d] \cup {account} ELSE as[d]
         /\ version' \in [Accounts -> Nat]
         /\ \A a \in Accounts : version[a] <= version'[a]
<1>1. as[c] \cup {account} \in SUBSET Accounts
  BY DEF TypeOK
<1>2. as' = [as EXCEPT ![c] = as[c] \cup {account}]
  BY DEF Apply
<1>3. applied' = [applied EXCEPT ![c] = applied[c] + 1]
  BY DEF Apply
<1>4. version' = [version EXCEPT ![account] = version[account] + 1]
  BY DEF Apply
<1>5. applied' \in [Commands -> Nat] /\ version' \in [Accounts -> Nat]
  BY <1>3, <1>4 DEF TypeOK
<1>6. as' \in [Commands -> SUBSET Accounts]
  BY <1>1, <1>2 DEF TypeOK
<1>7. \A a \in Accounts : version[a] <= version'[a]
  BY <1>4 DEF TypeOK
<1>8. \A d \in Commands : as'[d] = IF d = c THEN as[d] \cup {account} ELSE as[d]
  BY <1>2 DEF TypeOK
<1>9. \A d \in Commands : applied'[d] = IF d = c THEN applied[d] + 1 ELSE applied[d]
  BY <1>3 DEF TypeOK
<1> QED
  BY <1>5, <1>6, <1>7, <1>8, <1>9

-----------------------------------------------------------------------------
(* The invariant is inductive                                              *)

LEMMA InitInv == Init => IInv
BY ApiAssumption, EmptyCache DEF Init, IInv, TypeOK, CurInv, UndispatchedInv,
   MutationInv, CountInv, OnceInv, FreshInv, RestIsPerAccount, Pc, Results, Mutations,
   OfMutation, OfAttempts

\* A command is dispatched.
LEMMA DispatchInv ==
  ASSUME IInv, NEW c \in Commands, Dispatch(c)
  PROVE  IInv'
<1> USE ApiAssumption DEF IInv, Dispatch, commandVars, historyVars, sharedVars
<1>1. TypeOK'
  BY DEF TypeOK, CurInv, Pc, Results, Mutations
<1>2. CurInv'
  BY RequestKinds DEF TypeOK, CurInv, UndispatchedInv
<1>3. UndispatchedInv'
  BY DEF TypeOK, CurInv, UndispatchedInv
<1>4. MutationInv'
  BY RequestKinds DEF TypeOK, CurInv, UndispatchedInv, MutationInv
<1>5. CountInv'
  BY RequestKinds DEF TypeOK, CurInv, UndispatchedInv, MutationInv, CountInv,
         OfMutation, OfAttempts
<1>6. OnceInv'
  BY DEF TypeOK, CurInv, UndispatchedInv, MutationInv, CountInv, OnceInv,
         OfMutation, OfAttempts
<1>7. FreshInv'
  BY RequestKinds DEF TypeOK, CurInv, FreshInv
<1>8. RestIsPerAccount'
  BY DEF TypeOK, CurInv, UndispatchedInv, MutationInv, FreshInv,
         RestIsPerAccount
<1> QED
  BY <1>1, <1>2, <1>3, <1>4, <1>5, <1>6, <1>7, <1>8

\* A read goes to Zero or to REST.
LEMMA StartReadInv ==
  ASSUME IInv, StartRead
  PROVE  IInv'
<1> USE ApiAssumption DEF IInv, StartRead, Goto, commandVars, historyVars,
      sharedVars
<1>1. TypeOK'
  BY DEF TypeOK, CurInv, Pc, Results, Mutations
<1>2. CurInv'
  BY RequestKinds DEF TypeOK, CurInv, UndispatchedInv
<1>3. UndispatchedInv'
  BY DEF TypeOK, CurInv, UndispatchedInv
<1>4. MutationInv'
  BY RequestKinds DEF TypeOK, CurInv, UndispatchedInv, MutationInv
<1>5. CountInv'
  BY RequestKinds DEF TypeOK, CurInv, UndispatchedInv, MutationInv, CountInv,
         OfMutation, OfAttempts
<1>6. OnceInv'
  BY DEF TypeOK, CurInv, UndispatchedInv, MutationInv, CountInv, OnceInv,
         OfMutation, OfAttempts
<1>7. FreshInv'
  BY RequestKinds DEF TypeOK, CurInv, FreshInv
<1>8. RestIsPerAccount'
  BY DEF TypeOK, CurInv, UndispatchedInv, MutationInv, FreshInv,
         RestIsPerAccount
<1> QED
  BY <1>1, <1>2, <1>3, <1>4, <1>5, <1>6, <1>7, <1>8

\* Zero has the rows.
LEMMA ZeroRowsInv ==
  ASSUME IInv, ZeroRows
  PROVE  IInv'
<1> USE ApiAssumption DEF IInv, ZeroRows, End, commandVars, historyVars,
      sharedVars
<1>1. TypeOK'
  BY DEF TypeOK, CurInv, Pc, Results, Mutations
<1>2. CurInv'
  BY RequestKinds DEF TypeOK, CurInv, UndispatchedInv
<1>3. UndispatchedInv'
  BY DEF TypeOK, CurInv, UndispatchedInv
<1>4. MutationInv'
  BY RequestKinds DEF TypeOK, CurInv, UndispatchedInv, MutationInv
<1>5. CountInv'
  BY RequestKinds DEF TypeOK, CurInv, UndispatchedInv, MutationInv, CountInv,
         OfMutation, OfAttempts
<1>6. OnceInv'
  BY DEF TypeOK, CurInv, UndispatchedInv, MutationInv, CountInv, OnceInv,
         OfMutation, OfAttempts
<1>7. FreshInv'
  BY RequestKinds DEF TypeOK, CurInv, FreshInv
<1>8. RestIsPerAccount'
  BY DEF TypeOK, CurInv, UndispatchedInv, MutationInv, FreshInv,
         RestIsPerAccount
<1> QED
  BY <1>1, <1>2, <1>3, <1>4, <1>5, <1>6, <1>7, <1>8

\* Zero does not have them.
LEMMA ZeroMissInv ==
  ASSUME IInv, ZeroMiss
  PROVE  IInv'
<1> USE ApiAssumption DEF IInv, ZeroMiss, Goto, commandVars, historyVars,
      sharedVars
<1>1. TypeOK'
  BY DEF TypeOK, CurInv, Pc, Results, Mutations
<1>2. CurInv'
  BY RequestKinds DEF TypeOK, CurInv, UndispatchedInv
<1>3. UndispatchedInv'
  BY DEF TypeOK, CurInv, UndispatchedInv
<1>4. MutationInv'
  BY RequestKinds DEF TypeOK, CurInv, UndispatchedInv, MutationInv
<1>5. CountInv'
  BY RequestKinds DEF TypeOK, CurInv, UndispatchedInv, MutationInv, CountInv,
         OfMutation, OfAttempts
<1>6. OnceInv'
  BY DEF TypeOK, CurInv, UndispatchedInv, MutationInv, CountInv, OnceInv,
         OfMutation, OfAttempts
<1>7. FreshInv'
  BY RequestKinds DEF TypeOK, CurInv, FreshInv
<1>8. RestIsPerAccount'
  BY DEF TypeOK, CurInv, UndispatchedInv, MutationInv, FreshInv,
         RestIsPerAccount
<1> QED
  BY <1>1, <1>2, <1>3, <1>4, <1>5, <1>6, <1>7, <1>8

\* A write becomes a mutation, or goes to REST.
LEMMA StartWriteInv ==
  ASSUME IInv, StartWrite
  PROVE  IInv'
<1> USE ApiAssumption DEF IInv, StartWrite, Goto, commandVars, historyVars,
      sharedVars
<1>1. TypeOK'
  BY DEF TypeOK, CurInv, Pc, Results, Mutations
<1>2. CurInv'
  BY RequestKinds DEF TypeOK, CurInv, UndispatchedInv
<1>3. UndispatchedInv'
  BY DEF TypeOK, CurInv, UndispatchedInv
<1>4. MutationInv'
  BY RequestKinds DEF TypeOK, CurInv, UndispatchedInv, MutationInv
<1>5. CountInv'
  BY RequestKinds DEF TypeOK, CurInv, UndispatchedInv, MutationInv, CountInv,
         OfMutation, OfAttempts
<1>6. OnceInv'
  BY DEF TypeOK, CurInv, UndispatchedInv, MutationInv, CountInv, OnceInv,
         OfMutation, OfAttempts
<1>7. FreshInv'
  BY RequestKinds DEF TypeOK, CurInv, FreshInv
<1>8. RestIsPerAccount'
  BY DEF TypeOK, CurInv, UndispatchedInv, MutationInv, FreshInv,
         RestIsPerAccount
<1> QED
  BY <1>1, <1>2, <1>3, <1>4, <1>5, <1>6, <1>7, <1>8

\* zero.mutate throws.
LEMMA MutateThrowsInv ==
  ASSUME IInv, MutateThrows
  PROVE  IInv'
<1> USE ApiAssumption DEF IInv, MutateThrows, End, commandVars, historyVars,
      sharedVars
<1>1. TypeOK'
  BY DEF TypeOK, CurInv, Pc, Results, Mutations
<1>2. CurInv'
  BY RequestKinds DEF TypeOK, CurInv, UndispatchedInv
<1>3. UndispatchedInv'
  BY DEF TypeOK, CurInv, UndispatchedInv
<1>4. MutationInv'
  BY RequestKinds DEF TypeOK, CurInv, UndispatchedInv, MutationInv
<1>5. CountInv'
  BY RequestKinds DEF TypeOK, CurInv, UndispatchedInv, MutationInv, CountInv,
         OfMutation, OfAttempts
<1>6. OnceInv'
  BY DEF TypeOK, CurInv, UndispatchedInv, MutationInv, CountInv, OnceInv,
         OfMutation, OfAttempts
<1>7. FreshInv'
  BY RequestKinds DEF TypeOK, CurInv, FreshInv
<1>8. RestIsPerAccount'
  BY DEF TypeOK, CurInv, UndispatchedInv, MutationInv, FreshInv,
         RestIsPerAccount
<1> QED
  BY <1>1, <1>2, <1>3, <1>4, <1>5, <1>6, <1>7, <1>8

\* The server takes a mutation or rejects it.
LEMMA ServerTakesMutationInv ==
  ASSUME IInv, NEW c \in Commands, ServerTakesMutation(c)
  PROVE  IInv'
<1> USE ApiAssumption DEF IInv, ServerTakesMutation, commandVars, historyVars,
      sharedVars
<1>0. /\ applied' \in [Commands -> Nat]
      /\ as' \in [Commands -> SUBSET Accounts]
      /\ version' \in [Accounts -> Nat]
      /\ \A a \in Accounts : version[a] <= version'[a]
      /\ \A d \in Commands : applied[d] <= applied'[d]
      /\ \A d \in Commands \ {c} :
           applied'[d] = applied[d] /\ as'[d] = as[d] /\ mutation'[d] = mutation[d]
      /\ as'[c] \subseteq as[c] \cup {Boot}
      /\ \/ mutation'[c] = "applied" /\ applied'[c] = applied[c] + 1
         \/ mutation'[c] = "rejected" /\ applied'[c] = applied[c]
  <2>0. /\ applied \in [Commands -> Nat]
        /\ as \in [Commands -> SUBSET Accounts]
        /\ version \in [Accounts -> Nat]
        /\ mutation \in [Commands -> Mutations]
    BY DEF TypeOK
  <2>1. CASE mutation' = [mutation EXCEPT ![c] = "applied"] /\ Apply(c, Boot)
    <3>1. /\ applied' \in [Commands -> Nat]
          /\ \A d \in Commands : applied'[d] = IF d = c THEN applied[d] + 1 ELSE applied[d]
          /\ as' \in [Commands -> SUBSET Accounts]
          /\ \A d \in Commands : as'[d] = IF d = c THEN as[d] \cup {Boot} ELSE as[d]
          /\ version' \in [Accounts -> Nat]
          /\ \A a \in Accounts : version[a] <= version'[a]
      BY <2>1, ApplyFacts
    <3>2. \A d \in Commands : applied[d] <= applied'[d]
      BY <2>0, <3>1
    <3>3. \A d \in Commands \ {c} :
            applied'[d] = applied[d] /\ as'[d] = as[d] /\ mutation'[d] = mutation[d]
      BY <2>0, <2>1, <3>1
    <3>4. as'[c] \subseteq as[c] \cup {Boot}
      BY <3>1
    <3>5. mutation'[c] = "applied" /\ applied'[c] = applied[c] + 1
      BY <2>0, <2>1, <3>1
    <3> QED
      BY <3>1, <3>2, <3>3, <3>4, <3>5
  <2>2. CASE mutation' = [mutation EXCEPT ![c] = "rejected"] /\ UNCHANGED <<applied, as, version>>
    <3>1. /\ applied' \in [Commands -> Nat]
          /\ as' \in [Commands -> SUBSET Accounts]
          /\ version' \in [Accounts -> Nat]
      BY <2>0, <2>2
    <3>2. /\ \A d \in Commands : applied[d] <= applied'[d]
          /\ \A a \in Accounts : version[a] <= version'[a]
      BY <2>0, <2>2
    <3>3. \A d \in Commands \ {c} :
            applied'[d] = applied[d] /\ as'[d] = as[d] /\ mutation'[d] = mutation[d]
      BY <2>0, <2>2
    <3>4. as'[c] \subseteq as[c] \cup {Boot}
      BY <2>2
    <3>5. mutation'[c] = "rejected" /\ applied'[c] = applied[c]
      BY <2>0, <2>2
    <3> QED
      BY <3>1, <3>2, <3>3, <3>4, <3>5
  <2> QED
    BY <2>1, <2>2
<1>1. TypeOK'
  BY <1>0 DEF TypeOK, CurInv, Pc, Results, Mutations
<1>2. CurInv'
  BY <1>0, RequestKinds DEF TypeOK, CurInv, UndispatchedInv
<1>3. UndispatchedInv'
  BY <1>0 DEF TypeOK, CurInv, UndispatchedInv
<1>4. MutationInv'
  <2>1. \A d \in Commands : mutation'[d] = "pending" => mutation[d] = "pending"
    BY <1>0
  <2>2. ASSUME NEW d \in Commands, mutation'[d] = "applied"
        PROVE  applied'[d] >= 1
    <3>1. CASE d = c
      <4>1. applied[c] \in Nat
        BY DEF TypeOK
      <4>2. applied'[c] = applied[c] + 1
        BY <1>0, <2>2, <3>1
      <4> QED
        BY <3>1, <4>1, <4>2
    <3>2. CASE d # c
      BY <1>0, <2>2, <3>2 DEF MutationInv
    <3> QED
      BY <3>1, <3>2
  <2>3. pc # "idle" => cur \in Commands
    BY DEF TypeOK, CurInv
  <2>4. cur \in Commands /\ mutation[cur] = "none" => mutation'[cur] = "none"
    BY <1>0
  <2>5. pc \in {"start", "zeroRead"} => mutation'[cur] = "none"
    BY <2>3, <2>4 DEF MutationInv
  <2>6. pc \in {"rest", "call", "answer"} /\ cur \notin unsure =>
          mutation'[cur] = "none" /\ attempt = 0
    BY <2>3, <2>4 DEF MutationInv
  <2> QED
    BY <2>1, <2>2, <2>5, <2>6 DEF MutationInv
<1>5. CountInv'
  <2>1. ASSUME NEW d \in Commands
        PROVE  applied'[d] <= OfMutation(d)' + OfAttempts(d)'
    <3>1. OfAttempts(d)' = OfAttempts(d)
      BY DEF OfAttempts
    <3>2. /\ OfMutation(d) \in Nat /\ OfAttempts(d) \in Nat /\ applied[d] \in Nat
          /\ applied[d] <= OfMutation(d) + OfAttempts(d)
      BY DEF TypeOK, CountInv, OfMutation, OfAttempts
    <3>3. CASE d = c
      <4>1. OfMutation(c) = 0
        BY DEF OfMutation
      <4>2. \/ OfMutation(c)' = 1 /\ applied'[c] = applied[c] + 1
            \/ applied'[c] = applied[c] /\ OfMutation(c)' = 0
        BY <1>0 DEF OfMutation
      <4> QED
        BY <3>1, <3>2, <3>3, <4>1, <4>2
    <3>4. CASE d # c
      <4>1. applied'[d] = applied[d] /\ OfMutation(d)' = OfMutation(d)
        BY <1>0, <3>4 DEF OfMutation
      <4> QED
        BY <3>1, <3>2, <4>1
    <3> QED
      BY <3>3, <3>4
  <2>2. pc = "answer" /\ resp.code = "ok" /\ req.kind = "write" => applied'[cur] >= 1
    <3>1. pc = "answer" => cur \in Commands
      BY DEF TypeOK, CurInv
    <3>2. \A d \in Commands : applied[d] >= 1 => applied'[d] >= 1
      BY <1>0 DEF TypeOK
    <3> QED
      BY <3>1, <3>2 DEF CountInv
  <2> QED
    BY <2>1, <2>2 DEF CountInv
<1>6. OnceInv'
  <2> SUFFICES ASSUME NEW d \in Commands, result[d] = "ok", d \in writers
               PROVE  applied'[d] >= 1 /\ (d \notin unsure => applied'[d] = 1)
    BY DEF OnceInv
  <2>1. applied[d] >= 1 /\ (d \notin unsure => applied[d] = 1)
    BY DEF OnceInv
  <2>2. CASE d = c
    <3>1. c \in unsure
      BY <2>2 DEF CurInv, MutationInv
    <3> QED
      BY <1>0, <2>1, <2>2, <3>1 DEF TypeOK
  <2>3. CASE d # c
    BY <1>0, <2>1, <2>3
  <2> QED
    BY <2>2, <2>3
<1>7. FreshInv'
  BY <1>0, RequestKinds DEF TypeOK, CurInv, FreshInv
<1>8. RestIsPerAccount'
  BY <1>0 DEF TypeOK, CurInv, UndispatchedInv, MutationInv, FreshInv,
         RestIsPerAccount
<1> QED
  BY <1>1, <1>2, <1>3, <1>4, <1>5, <1>6, <1>7, <1>8

\* The command learns what became of its mutation.
LEMMA ServerConfirmsInv ==
  ASSUME IInv, ServerConfirms
  PROVE  IInv'
<1> USE ApiAssumption DEF IInv, ServerConfirms, End, commandVars, historyVars,
      sharedVars
<1>1. TypeOK'
  BY DEF TypeOK, CurInv, Pc, Results, Mutations
<1>2. CurInv'
  BY RequestKinds DEF TypeOK, CurInv, UndispatchedInv
<1>3. UndispatchedInv'
  BY DEF TypeOK, CurInv, UndispatchedInv
<1>4. MutationInv'
  BY RequestKinds DEF TypeOK, CurInv, UndispatchedInv, MutationInv
<1>5. CountInv'
  BY RequestKinds DEF TypeOK, CurInv, UndispatchedInv, MutationInv, CountInv,
         OfMutation, OfAttempts
<1>6. OnceInv'
  BY DEF TypeOK, CurInv, UndispatchedInv, MutationInv, CountInv, OnceInv,
         OfMutation, OfAttempts
<1>7. FreshInv'
  BY RequestKinds DEF TypeOK, CurInv, FreshInv
<1>8. RestIsPerAccount'
  BY DEF TypeOK, CurInv, UndispatchedInv, MutationInv, FreshInv,
         RestIsPerAccount
<1> QED
  BY <1>1, <1>2, <1>3, <1>4, <1>5, <1>6, <1>7, <1>8

\* The command gives up on its mutation.
LEMMA ServerTimeoutInv ==
  ASSUME IInv, ServerTimeout
  PROVE  IInv'
<1> USE ApiAssumption DEF IInv, ServerTimeout, Goto, commandVars, historyVars,
      sharedVars
<1>1. TypeOK'
  BY DEF TypeOK, CurInv, Pc, Results, Mutations
<1>2. CurInv'
  BY RequestKinds DEF TypeOK, CurInv, UndispatchedInv
<1>3. UndispatchedInv'
  BY DEF TypeOK, CurInv, UndispatchedInv
<1>4. MutationInv'
  BY RequestKinds DEF TypeOK, CurInv, UndispatchedInv, MutationInv
<1>5. CountInv'
  BY RequestKinds DEF TypeOK, CurInv, UndispatchedInv, MutationInv, CountInv,
         OfMutation, OfAttempts
<1>6. OnceInv'
  BY DEF TypeOK, CurInv, UndispatchedInv, MutationInv, CountInv, OnceInv,
         OfMutation, OfAttempts
<1>7. FreshInv'
  BY RequestKinds DEF TypeOK, CurInv, FreshInv
<1>8. RestIsPerAccount'
  BY DEF TypeOK, CurInv, UndispatchedInv, MutationInv, FreshInv,
         RestIsPerAccount
<1> QED
  BY <1>1, <1>2, <1>3, <1>4, <1>5, <1>6, <1>7, <1>8

\* The cache has an entry.
LEMMA CacheHitInv ==
  ASSUME IInv, CacheHit
  PROVE  IInv'
<1> USE ApiAssumption DEF IInv, CacheHit, End, Cached, commandVars,
      historyVars, sharedVars
<1>0. /\ cur \in Commands
      /\ req.kind = "read"
      /\ cur \notin writers
      /\ as' \in [Commands -> SUBSET Accounts]
      /\ \A c \in Commands : as'[c] = IF c = cur THEN as[c] \cup {caller[cur]} ELSE as[c]
      /\ stale' = {}
  <2>1. cur \in Commands /\ req.kind = "read" /\ cur \notin writers
    BY DEF TypeOK, CurInv, Cacheable
  <2>2. Key \in Paths \X Accounts /\ Key[2] = caller[cur]
    BY <2>1, KeyType
  <2>3. /\ cache[Key].owner = caller[cur]
        /\ cache[Key].version \in Nat
        /\ known[caller[cur]] <= cache[Key].version
    BY <2>2 DEF TypeOK, FreshInv
  <2>4. caller[cur] \in Accounts /\ Got(caller[cur], cache[Key].version)
    BY <2>1, <2>3 DEF TypeOK
  <2> QED
    BY <2>1, <2>3, <2>4, GotFacts DEF FreshInv
<1>1. TypeOK'
  <2>1. cur \in Commands /\ End("ok")
    BY DEF TypeOK, CurInv
  <2>2. /\ cur' \in Commands \cup {None}
        /\ pc' \in Pc
        /\ req' \in Requests \cup {NoRequest}
        /\ attempt' \in 0..MaxRetries
        /\ resp' \in [code : Codes, version : Nat] \cup {NoAnswer}
        /\ result' \in [Commands -> Results]
    BY <2>1, EndTypes
  <2> QED
    BY <2>2, <1>0 DEF TypeOK
<1>2. CurInv'
  BY <1>0, RequestKinds DEF TypeOK, CurInv, UndispatchedInv
<1>3. UndispatchedInv'
  BY <1>0 DEF TypeOK, CurInv, UndispatchedInv
<1>4. MutationInv'
  BY <1>0, RequestKinds DEF TypeOK, CurInv, UndispatchedInv, MutationInv
<1>5. CountInv'
  BY <1>0, RequestKinds DEF TypeOK, CurInv, UndispatchedInv, MutationInv,
         CountInv, OfMutation, OfAttempts
<1>6. OnceInv'
  BY <1>0 DEF TypeOK, CurInv, UndispatchedInv, MutationInv, CountInv, OnceInv,
         OfMutation, OfAttempts
<1>7. FreshInv'
  BY <1>0, RequestKinds DEF TypeOK, CurInv, FreshInv
<1>8. RestIsPerAccount'
  BY <1>0 DEF TypeOK, CurInv, UndispatchedInv, MutationInv, FreshInv,
         RestIsPerAccount
<1> QED
  BY <1>1, <1>2, <1>3, <1>4, <1>5, <1>6, <1>7, <1>8

\* The call is made.
LEMMA CallRestInv ==
  ASSUME IInv, CallRest
  PROVE  IInv'
<1> USE ApiAssumption DEF IInv, CallRest, Goto, commandVars, historyVars,
      sharedVars
<1>1. TypeOK'
  BY DEF TypeOK, CurInv, Pc, Results, Mutations
<1>2. CurInv'
  BY RequestKinds DEF TypeOK, CurInv, UndispatchedInv
<1>3. UndispatchedInv'
  BY DEF TypeOK, CurInv, UndispatchedInv
<1>4. MutationInv'
  BY RequestKinds DEF TypeOK, CurInv, UndispatchedInv, MutationInv
<1>5. CountInv'
  BY RequestKinds DEF TypeOK, CurInv, UndispatchedInv, MutationInv, CountInv,
         OfMutation, OfAttempts
<1>6. OnceInv'
  BY DEF TypeOK, CurInv, UndispatchedInv, MutationInv, CountInv, OnceInv,
         OfMutation, OfAttempts
<1>7. FreshInv'
  BY RequestKinds DEF TypeOK, CurInv, FreshInv
<1>8. RestIsPerAccount'
  BY DEF TypeOK, CurInv, UndispatchedInv, MutationInv, FreshInv,
         RestIsPerAccount
<1> QED
  BY <1>1, <1>2, <1>3, <1>4, <1>5, <1>6, <1>7, <1>8

\* The server handles the call.
LEMMA ServerHandlesInv ==
  ASSUME IInv, ServerHandles
  PROVE  IInv'
<1> USE ApiAssumption DEF IInv, ServerHandles, commandVars, historyVars,
      sharedVars
<1>0. /\ cur \in Commands
      /\ applied' \in [Commands -> Nat]
      /\ as' \in [Commands -> SUBSET Accounts]
      /\ version' \in [Accounts -> Nat]
      /\ \A a \in Accounts : version[a] <= version'[a]
      /\ \A d \in Commands \ {cur} : applied'[d] = applied[d] /\ as'[d] = as[d]
      /\ as'[cur] \subseteq as[cur] \cup {caller[cur]}
      /\ \A d \in Commands : applied[d] <= applied'[d]
      /\ applied'[cur] <= applied[cur] + 1
      /\ resp' \in [code : Codes, version : Nat]
      /\ resp'.version = version'[caller[cur]]
      /\ resp'.code = "ok" /\ req.kind = "write" => applied'[cur] = applied[cur] + 1
  <2>0. /\ applied \in [Commands -> Nat]
        /\ as \in [Commands -> SUBSET Accounts]
        /\ version \in [Accounts -> Nat]
    BY DEF TypeOK
  <2>1. cur \in Commands /\ caller[cur] \in Accounts
    BY DEF TypeOK, CurInv
  <2>2. PICK code \in Codes :
          /\ \/ req.kind = "write" /\ code # "refused" /\ Apply(cur, caller[cur])
             \/ ~(req.kind = "write" /\ code = "ok") /\ UNCHANGED <<applied, as, version>>
          /\ resp' = [code |-> code, version |-> version'[caller[cur]]]
    OBVIOUS
  <2>3. CASE Apply(cur, caller[cur])
    <3>1. /\ applied' \in [Commands -> Nat]
          /\ \A d \in Commands :
               applied'[d] = IF d = cur THEN applied[d] + 1 ELSE applied[d]
          /\ as' \in [Commands -> SUBSET Accounts]
          /\ \A d \in Commands :
               as'[d] = IF d = cur THEN as[d] \cup {caller[cur]} ELSE as[d]
          /\ version' \in [Accounts -> Nat]
          /\ \A a \in Accounts : version[a] <= version'[a]
      BY <2>1, <2>3, ApplyFacts
    <3>2. /\ resp' \in [code : Codes, version : Nat]
          /\ resp'.code = code /\ resp'.version = version'[caller[cur]]
      BY <2>1, <2>2, <3>1
    <3>3. \A d \in Commands \ {cur} : applied'[d] = applied[d] /\ as'[d] = as[d]
      BY <3>1
    <3>4. as'[cur] \subseteq as[cur] \cup {caller[cur]}
      BY <2>1, <3>1
    <3>5. applied'[cur] = applied[cur] + 1
      BY <2>1, <3>1
    <3>6. \A d \in Commands : applied[d] <= applied'[d]
      BY <2>0, <3>1
    <3>7. applied'[cur] <= applied[cur] + 1
      BY <2>0, <2>1, <3>5
    <3> QED
      BY <2>1, <3>1, <3>2, <3>3, <3>4, <3>5, <3>6, <3>7
  <2>4. CASE ~(req.kind = "write" /\ code = "ok") /\ UNCHANGED <<applied, as, version>>
    <3>1. version'[caller[cur]] \in Nat
      BY <2>0, <2>1, <2>4
    <3>2. /\ resp' \in [code : Codes, version : Nat]
          /\ resp'.code = code /\ resp'.version = version'[caller[cur]]
      BY <2>2, <3>1
    <3>3. /\ applied' \in [Commands -> Nat]
          /\ as' \in [Commands -> SUBSET Accounts]
          /\ version' \in [Accounts -> Nat]
      BY <2>0, <2>4
    <3>4. \A d \in Commands \ {cur} : applied'[d] = applied[d] /\ as'[d] = as[d]
      BY <2>4
    <3>5. as'[cur] \subseteq as[cur] \cup {caller[cur]}
      BY <2>4
    <3>6. /\ \A d \in Commands : applied[d] <= applied'[d]
          /\ \A a \in Accounts : version[a] <= version'[a]
      BY <2>0, <2>4
    <3>7. applied'[cur] <= applied[cur] + 1
      BY <2>0, <2>1, <2>4
    <3>8. ~(resp'.code = "ok" /\ req.kind = "write")
      BY <2>4, <3>2
    <3> QED
      BY <2>1, <3>2, <3>3, <3>4, <3>5, <3>6, <3>7, <3>8
  <2> QED
    BY <2>2, <2>3, <2>4
<1>1. TypeOK'
  BY <1>0 DEF TypeOK, CurInv, Pc, Results, Mutations, Codes
<1>2. CurInv'
  BY <1>0, RequestKinds DEF TypeOK, CurInv, UndispatchedInv
<1>3. UndispatchedInv'
  BY <1>0 DEF TypeOK, CurInv, UndispatchedInv
<1>4. MutationInv'
  BY <1>0, RequestKinds DEF TypeOK, CurInv, UndispatchedInv, MutationInv
<1>5. CountInv'
  <2>1. ASSUME NEW d \in Commands
        PROVE  applied'[d] <= OfMutation(d)' + OfAttempts(d)'
    <3>1. OfMutation(d)' = OfMutation(d)
      BY DEF OfMutation
    <3>2. /\ OfMutation(d) \in Nat /\ OfAttempts(d) \in Nat /\ applied[d] \in Nat
          /\ applied[d] <= OfMutation(d) + OfAttempts(d)
      BY DEF TypeOK, CountInv, OfMutation, OfAttempts
    <3>3. CASE d = cur
      <4>1. OfAttempts(cur) = attempt /\ OfAttempts(cur)' = attempt + 1
        BY <1>0 DEF CurInv, OfAttempts
      <4> QED
        BY <1>0, <3>1, <3>2, <3>3, <4>1
    <3>4. CASE d # cur
      <4>1. applied'[d] = applied[d] /\ OfAttempts(d)' = OfAttempts(d)
        BY <1>0, <3>4 DEF OfAttempts
      <4> QED
        BY <3>1, <3>2, <4>1
    <3> QED
      BY <3>3, <3>4
  <2>2. resp'.code = "ok" /\ req.kind = "write" => applied'[cur] >= 1
    BY <1>0 DEF TypeOK
  <2> QED
    BY <2>1, <2>2 DEF CountInv
<1>6. OnceInv'
  BY <1>0 DEF TypeOK, CurInv, UndispatchedInv, MutationInv, CountInv, OnceInv,
         OfMutation, OfAttempts
<1>7. FreshInv'
  BY <1>0, RequestKinds DEF TypeOK, CurInv, FreshInv
<1>8. RestIsPerAccount'
  BY <1>0 DEF TypeOK, CurInv, UndispatchedInv, MutationInv, FreshInv,
         RestIsPerAccount
<1> QED
  BY <1>1, <1>2, <1>3, <1>4, <1>5, <1>6, <1>7, <1>8

\* The call is made again.
LEMMA RetryInv ==
  ASSUME IInv, Retry
  PROVE  IInv'
<1> USE ApiAssumption DEF IInv, Retry, commandVars, historyVars, sharedVars
<1>1. TypeOK'
  <2>1. cur \in Commands
    BY DEF TypeOK, CurInv
  <2>2. Retry \/ GiveUp
    OBVIOUS
  <2> QED
    BY <2>1, <2>2, AgainTypes
<1>2. CurInv'
  BY RequestKinds DEF TypeOK, CurInv, UndispatchedInv
<1>3. UndispatchedInv'
  BY DEF TypeOK, CurInv, UndispatchedInv
<1>4. MutationInv'
  BY RequestKinds DEF TypeOK, CurInv, UndispatchedInv, MutationInv
<1>5. CountInv'
  BY RequestKinds DEF TypeOK, CurInv, UndispatchedInv, MutationInv, CountInv,
         OfMutation, OfAttempts
<1>6. OnceInv'
  BY DEF TypeOK, CurInv, UndispatchedInv, MutationInv, CountInv, OnceInv,
         OfMutation, OfAttempts
<1>7. FreshInv'
  BY RequestKinds DEF TypeOK, CurInv, FreshInv
<1>8. RestIsPerAccount'
  BY DEF TypeOK, CurInv, UndispatchedInv, MutationInv, FreshInv,
         RestIsPerAccount
<1> QED
  BY <1>1, <1>2, <1>3, <1>4, <1>5, <1>6, <1>7, <1>8

\* It is not made again.
LEMMA GiveUpInv ==
  ASSUME IInv, GiveUp
  PROVE  IInv'
<1> USE ApiAssumption DEF IInv, GiveUp, End, commandVars, historyVars,
      sharedVars
<1>1. TypeOK'
  <2>1. cur \in Commands
    BY DEF TypeOK, CurInv
  <2>2. Retry \/ GiveUp
    OBVIOUS
  <2> QED
    BY <2>1, <2>2, AgainTypes
<1>2. CurInv'
  BY RequestKinds DEF TypeOK, CurInv, UndispatchedInv
<1>3. UndispatchedInv'
  BY DEF TypeOK, CurInv, UndispatchedInv
<1>4. MutationInv'
  BY RequestKinds DEF TypeOK, CurInv, UndispatchedInv, MutationInv
<1>5. CountInv'
  BY RequestKinds DEF TypeOK, CurInv, UndispatchedInv, MutationInv, CountInv,
         OfMutation, OfAttempts
<1>6. OnceInv'
  BY DEF TypeOK, CurInv, UndispatchedInv, MutationInv, CountInv, OnceInv,
         OfMutation, OfAttempts
<1>7. FreshInv'
  BY RequestKinds DEF TypeOK, CurInv, FreshInv
<1>8. RestIsPerAccount'
  BY DEF TypeOK, CurInv, UndispatchedInv, MutationInv, FreshInv,
         RestIsPerAccount
<1> QED
  BY <1>1, <1>2, <1>3, <1>4, <1>5, <1>6, <1>7, <1>8

\* The call is refused.
LEMMA RefusedInv ==
  ASSUME IInv, Refused
  PROVE  IInv'
<1> USE ApiAssumption DEF IInv, Refused, End, commandVars, historyVars,
      sharedVars
<1>1. TypeOK'
  <2>1. cur \in Commands /\ End("error")
    BY DEF TypeOK, CurInv
  <2>2. /\ cur' \in Commands \cup {None}
        /\ pc' \in Pc
        /\ req' \in Requests \cup {NoRequest}
        /\ attempt' \in 0..MaxRetries
        /\ resp' \in [code : Codes, version : Nat] \cup {NoAnswer}
        /\ result' \in [Commands -> Results]
    BY <2>1, EndTypes
  <2> QED
    BY <2>2 DEF TypeOK
<1>2. CurInv'
  BY RequestKinds DEF TypeOK, CurInv, UndispatchedInv
<1>3. UndispatchedInv'
  BY DEF TypeOK, CurInv, UndispatchedInv
<1>4. MutationInv'
  BY RequestKinds DEF TypeOK, CurInv, UndispatchedInv, MutationInv
<1>5. CountInv'
  BY RequestKinds DEF TypeOK, CurInv, UndispatchedInv, MutationInv, CountInv,
         OfMutation, OfAttempts
<1>6. OnceInv'
  BY DEF TypeOK, CurInv, UndispatchedInv, MutationInv, CountInv, OnceInv,
         OfMutation, OfAttempts
<1>7. FreshInv'
  BY RequestKinds DEF TypeOK, CurInv, FreshInv
<1>8. RestIsPerAccount'
  BY DEF TypeOK, CurInv, UndispatchedInv, MutationInv, FreshInv,
         RestIsPerAccount
<1> QED
  BY <1>1, <1>2, <1>3, <1>4, <1>5, <1>6, <1>7, <1>8

\* The answer to a read.
LEMMA TakeReadInv ==
  ASSUME IInv, TakeRead
  PROVE  IInv'
<1> USE ApiAssumption DEF IInv, TakeRead, End, commandVars, historyVars,
      sharedVars
<1>0. /\ cur \in Commands
      /\ req.kind = "read"
      /\ cur \notin writers
      /\ as' \in [Commands -> SUBSET Accounts]
      /\ \A c \in Commands : as'[c] = IF c = cur THEN as[c] \cup {caller[cur]} ELSE as[c]
      /\ stale' = {}
      /\ cache' \in [Paths \X Accounts -> [owner : Accounts, version : Nat]]
      /\ \A k \in Paths \X Accounts :
           \/ cache'[k] = cache[k]
           \/ /\ cache'[k].owner = k[2]
              /\ known[k[2]] <= cache'[k].version
  <2>1. cur \in Commands /\ cur \notin writers
    BY DEF TypeOK, CurInv
  <2>2. caller[cur] \in Accounts /\ resp.version \in Nat /\ known[caller[cur]] <= resp.version
    BY <2>1, RequestKinds DEF TypeOK, FreshInv
  <2>3. /\ as' \in [Commands -> SUBSET Accounts]
        /\ \A c \in Commands : as'[c] = IF c = cur THEN as[c] \cup {caller[cur]} ELSE as[c]
        /\ stale' = {}
    BY <2>1, <2>2, GotFacts DEF FreshInv
  <2>4. CASE Cacheable
    <3>1. Key \in Paths \X Accounts /\ Key[2] = caller[cur]
      BY <2>1, <2>4, KeyType
    <3>2. cache' = [cache EXCEPT ![Key] = [owner |-> caller[cur], version |-> resp.version]]
      BY <2>4
    <3>3. [owner |-> caller[cur], version |-> resp.version] \in [owner : Accounts, version : Nat]
      BY <2>2
    <3>4. cache' \in [Paths \X Accounts -> [owner : Accounts, version : Nat]]
      BY <3>1, <3>2, <3>3 DEF TypeOK
    <3>5. \A k \in Paths \X Accounts :
            cache'[k] = IF k = Key THEN [owner |-> caller[cur], version |-> resp.version]
                        ELSE cache[k]
      BY <3>1, <3>2 DEF TypeOK
    <3> QED
      BY <2>1, <2>2, <2>3, <3>1, <3>4, <3>5
  <2>5. CASE ~Cacheable
    BY <2>1, <2>3, <2>5 DEF TypeOK
  <2> QED
    BY <2>4, <2>5
<1>1. TypeOK'
  <2>1. cur \in Commands /\ End("ok")
    BY DEF TypeOK, CurInv
  <2>2. /\ cur' \in Commands \cup {None}
        /\ pc' \in Pc
        /\ req' \in Requests \cup {NoRequest}
        /\ attempt' \in 0..MaxRetries
        /\ resp' \in [code : Codes, version : Nat] \cup {NoAnswer}
        /\ result' \in [Commands -> Results]
    BY <2>1, EndTypes
  <2> QED
    BY <2>2, <1>0 DEF TypeOK
<1>2. CurInv'
  BY <1>0, RequestKinds DEF TypeOK, CurInv, UndispatchedInv
<1>3. UndispatchedInv'
  BY <1>0 DEF TypeOK, CurInv, UndispatchedInv
<1>4. MutationInv'
  BY <1>0, RequestKinds DEF TypeOK, CurInv, UndispatchedInv, MutationInv
<1>5. CountInv'
  BY <1>0, RequestKinds DEF TypeOK, CurInv, UndispatchedInv, MutationInv,
         CountInv, OfMutation, OfAttempts
<1>6. OnceInv'
  BY <1>0 DEF TypeOK, CurInv, UndispatchedInv, MutationInv, CountInv, OnceInv,
         OfMutation, OfAttempts
<1>7. FreshInv'
  BY <1>0, RequestKinds DEF TypeOK, CurInv, FreshInv
<1>8. RestIsPerAccount'
  BY <1>0 DEF TypeOK, CurInv, UndispatchedInv, MutationInv, FreshInv,
         RestIsPerAccount
<1> QED
  BY <1>1, <1>2, <1>3, <1>4, <1>5, <1>6, <1>7, <1>8

\* The answer to a write.
LEMMA TakeWriteInv ==
  ASSUME IInv, TakeWrite
  PROVE  IInv'
<1> USE ApiAssumption, EmptyCache DEF IInv, TakeWrite, InvalidateOrigin, End,
      commandVars, historyVars, sharedVars
<1>1. TypeOK'
  <2>1. cur \in Commands /\ End("ok")
    BY DEF TypeOK, CurInv
  <2>2. /\ cur' \in Commands \cup {None}
        /\ pc' \in Pc
        /\ req' \in Requests \cup {NoRequest}
        /\ attempt' \in 0..MaxRetries
        /\ resp' \in [code : Codes, version : Nat] \cup {NoAnswer}
        /\ result' \in [Commands -> Results]
    BY <2>1, EndTypes
  <2>3. cache' \in [Paths \X Accounts -> [owner : Accounts, version : Nat]]
    BY EmptyCache
  <2>4. known' \in [Accounts -> Nat]
    BY RequestKinds DEF TypeOK
  <2> QED
    BY <2>2, <2>3, <2>4 DEF TypeOK
<1>2. CurInv'
  BY RequestKinds DEF TypeOK, CurInv, UndispatchedInv
<1>3. UndispatchedInv'
  BY DEF TypeOK, CurInv, UndispatchedInv
<1>4. MutationInv'
  BY RequestKinds DEF TypeOK, CurInv, UndispatchedInv, MutationInv
<1>5. CountInv'
  BY RequestKinds DEF TypeOK, CurInv, UndispatchedInv, MutationInv, CountInv,
         OfMutation, OfAttempts
<1>6. OnceInv'
  BY DEF TypeOK, CurInv, UndispatchedInv, MutationInv, CountInv, OnceInv,
         OfMutation, OfAttempts
<1>7. FreshInv'
  BY RequestKinds DEF TypeOK, CurInv, FreshInv
<1>8. RestIsPerAccount'
  BY DEF TypeOK, CurInv, UndispatchedInv, MutationInv, FreshInv,
         RestIsPerAccount
<1> QED
  BY <1>1, <1>2, <1>3, <1>4, <1>5, <1>6, <1>7, <1>8

\* An entry of the cache expires.
LEMMA CacheExpiresInv ==
  ASSUME IInv, NEW k \in Paths \X Accounts, CacheExpires(k)
  PROVE  IInv'
<1> USE ApiAssumption, EmptyCache DEF IInv, CacheExpires, commandVars,
      historyVars, sharedVars
<1>1. TypeOK'
  BY DEF TypeOK, CurInv, Pc, Results, Mutations
<1>2. CurInv'
  BY RequestKinds DEF TypeOK, CurInv, UndispatchedInv
<1>3. UndispatchedInv'
  BY DEF TypeOK, CurInv, UndispatchedInv
<1>4. MutationInv'
  BY RequestKinds DEF TypeOK, CurInv, UndispatchedInv, MutationInv
<1>5. CountInv'
  BY RequestKinds DEF TypeOK, CurInv, UndispatchedInv, MutationInv, CountInv,
         OfMutation, OfAttempts
<1>6. OnceInv'
  BY DEF TypeOK, CurInv, UndispatchedInv, MutationInv, CountInv, OnceInv,
         OfMutation, OfAttempts
<1>7. FreshInv'
  BY RequestKinds DEF TypeOK, CurInv, FreshInv
<1>8. RestIsPerAccount'
  BY DEF TypeOK, CurInv, UndispatchedInv, MutationInv, FreshInv,
         RestIsPerAccount
<1> QED
  BY <1>1, <1>2, <1>3, <1>4, <1>5, <1>6, <1>7, <1>8

\* Zero connects or drops.
LEMMA ZeroInv ==
  ASSUME IInv, ZeroConnects \/ ZeroDrops
  PROVE  IInv'
<1> USE ApiAssumption DEF IInv, ZeroConnects, ZeroDrops, commandVars,
      historyVars, sharedVars
<1>1. TypeOK'
  BY DEF TypeOK, CurInv, Pc, Results, Mutations
<1>2. CurInv'
  BY RequestKinds DEF TypeOK, CurInv, UndispatchedInv
<1>3. UndispatchedInv'
  BY DEF TypeOK, CurInv, UndispatchedInv
<1>4. MutationInv'
  BY RequestKinds DEF TypeOK, CurInv, UndispatchedInv, MutationInv
<1>5. CountInv'
  BY RequestKinds DEF TypeOK, CurInv, UndispatchedInv, MutationInv, CountInv,
         OfMutation, OfAttempts
<1>6. OnceInv'
  BY DEF TypeOK, CurInv, UndispatchedInv, MutationInv, CountInv, OnceInv,
         OfMutation, OfAttempts
<1>7. FreshInv'
  BY RequestKinds DEF TypeOK, CurInv, FreshInv
<1>8. RestIsPerAccount'
  BY DEF TypeOK, CurInv, UndispatchedInv, MutationInv, FreshInv,
         RestIsPerAccount
<1> QED
  BY <1>1, <1>2, <1>3, <1>4, <1>5, <1>6, <1>7, <1>8

-----------------------------------------------------------------------------
(* The theorems                                                            *)

LEMMA Step == IInv /\ [Next]_vars => IInv'
<1> SUFFICES ASSUME IInv, [Next]_vars
             PROVE  IInv'
  OBVIOUS
<1>1. ASSUME NEW c \in Commands, Dispatch(c) \/ ServerTakesMutation(c)
      PROVE  IInv'
  BY <1>1, DispatchInv, ServerTakesMutationInv
<1>2. CASE CommandStep
  BY <1>2, StartReadInv, ZeroRowsInv, ZeroMissInv, StartWriteInv, MutateThrowsInv,
     ServerConfirmsInv, ServerTimeoutInv, CacheHitInv, CallRestInv, ServerHandlesInv,
     RetryInv, GiveUpInv, RefusedInv, TakeReadInv, TakeWriteInv DEF CommandStep
<1>3. ASSUME NEW k \in Paths \X Accounts, CacheExpires(k)
      PROVE  IInv'
  BY <1>3, CacheExpiresInv
<1>4. CASE ZeroConnects \/ ZeroDrops
  BY <1>4, ZeroInv
<1>5. CASE UNCHANGED vars
  BY <1>5 DEF vars, commandVars, historyVars, sharedVars, IInv, TypeOK, CurInv,
     UndispatchedInv, MutationInv, CountInv, OnceInv, FreshInv, RestIsPerAccount,
     OfMutation, OfAttempts
<1> QED
  BY <1>1, <1>2, <1>3, <1>4, <1>5 DEF Next

LEMMA Invariance == Spec => []IInv
BY InitInv, Step, PTL DEF Spec

\* The type invariant, for any commands, accounts, paths and retries.
THEOREM TypeSafety == Spec => []TypeOK
<1>1. IInv => TypeOK
  BY DEF IInv
<1> QED
  BY <1>1, Invariance, PTL

\* response-cache.ts: a REST read after a REST write of its account is never
\* older than that write, for any number of commands, profiles and cached paths.
THEOREM FreshAlways == Spec => []FreshAfterRestWrite
<1>1. IInv => FreshAfterRestWrite
  BY DEF IInv, FreshInv, FreshAfterRestWrite
<1> QED
  BY <1>1, Invariance, PTL

\* zero/writes.ts, retry.ts: a reported change was made, exactly once unless a
\* call was left without a clear answer, and never more often than the mutation
\* and the attempts allow, for any number of commands and retries.
THEOREM AppliedOnceAlways == Spec => []AppliedOnceUnlessUnsure
<1>1. IInv => AppliedOnceUnlessUnsure
  <2> SUFFICES ASSUME IInv, NEW c \in Commands
               PROVE  /\ applied[c] <= MaxRetries + 2
                      /\ result[c] = "ok" /\ c \in writers =>
                           /\ applied[c] >= 1
                           /\ c \notin unsure => applied[c] = 1
    BY DEF AppliedOnceUnlessUnsure
  <2>1. OfMutation(c) <= 1 /\ OfAttempts(c) <= MaxRetries + 1
    BY ApiAssumption DEF IInv, TypeOK, OfMutation, OfAttempts
  <2>2. applied[c] <= OfMutation(c) + OfAttempts(c)
    BY DEF IInv, CountInv
  <2>3. applied[c] <= MaxRetries + 2
    BY <2>1, <2>2, ApiAssumption DEF IInv, TypeOK, OfMutation, OfAttempts
  <2> QED
    BY <2>3 DEF IInv, OnceInv
<1> QED
  BY <1>1, Invariance, PTL

\* response-cache.ts, retry.ts: what REST and the cache give or change belongs to
\* the account a command was called for, for any number of accounts.
THEOREM RestIsPerAccountAlways == Spec => []RestIsPerAccount
<1>1. IInv => RestIsPerAccount
  BY DEF IInv
<1> QED
  BY <1>1, Invariance, PTL
=============================================================================
