-------------------------- MODULE ZeroSessionProofs --------------------------
(***************************************************************************)
(* Proofs about ZeroSession for any number of tokens, drops, daemons and   *)
(* tables that the server alters.                                          *)
(***************************************************************************)
EXTENDS ZeroSession, TLAPS

-----------------------------------------------------------------------------
(* The inductive invariant                                                 *)

\* What activeZeroOrNull goes by is never better than the connection.
MirrorIsHonest ==
  IF run = "ready" THEN status = "connected" => conn = "connected" ELSE status = "init"

Inv == TypeOK /\ MirrorIsHonest

-----------------------------------------------------------------------------
(* Results                                                                 *)

\* Every result is one of Results.
LEMMA ResultTypes ==
  /\ NoResult \in Results /\ FromRest \in Results
  /\ \A sampled \in BOOLEAN : FromZero(sampled) \in Results
  BY DEF NoResult, FromRest, FromZero, Results

\* Where a result comes from, and what is known of its first row.
LEMMA ResultFields ==
  /\ NoResult.via = "none" /\ FromRest.via = "rest"
  /\ \A sampled : FromZero(sampled).sampled = sampled
  BY DEF NoResult, FromRest, FromZero

\* Zero is up when a command waits for something it did not wait for.
LEMMA BeginAsks ==
  ASSUME Begin, waiting' # {}
  PROVE  ZeroActive
<1>1. PICK c \in Commands, zeroOn \in BOOLEAN :
        LET asks == {k \in c : zeroOn /\ AsksZero(k)} IN
        waiting' = asks \cup (IF "search" \in asks THEN {"names"} ELSE {})
  BY DEF Begin
<1>2. \E k \in c : AsksZero(k)
  BY <1>1
<1> QED BY <1>2 DEF AsksZero

\* What Begin does to the variables it changes.
LEMMA BeginTypes ==
  ASSUME Begin, TypeOK
  PROVE  /\ waiting' \subseteq Queries
         /\ result' \in [Kinds -> Results]
         /\ \A k \in Kinds : result'[k] \in {NoResult, FromRest}
<1>1. PICK c \in Commands, zeroOn \in BOOLEAN :
        LET asks == {k \in c : zeroOn /\ AsksZero(k)} IN
        /\ waiting' = asks \cup (IF "search" \in asks THEN {"names"} ELSE {})
        /\ result' = [k \in Kinds |-> IF k \in c \ asks THEN FromRest ELSE NoResult]
  BY DEF Begin
<1>2. c \subseteq Kinds
  BY DEF Commands, Kinds
<1>3. \A k \in Kinds : result'[k] \in {NoResult, FromRest}
  BY <1>1
<1>4. waiting' \subseteq Queries
  BY <1>1, <1>2 DEF Queries
<1>5. result' \in [Kinds -> Results]
  <2> DEFINE r(k) == IF k \in c \ {x \in c : zeroOn /\ AsksZero(x)} THEN FromRest ELSE NoResult
  <2>1. result' = [k \in Kinds |-> r(k)]
    BY <1>1
  <2>2. \A k \in Kinds : r(k) \in Results
    BY ResultTypes
  <2> HIDE DEF r
  <2> QED BY <2>1, <2>2
<1> QED BY <1>3, <1>4, <1>5

-----------------------------------------------------------------------------
(* Type correctness                                                        *)

LEMMA InitTypes == Init => TypeOK
<1> SUFFICES ASSUME Init PROVE TypeOK
  OBVIOUS
<1>1. result \in [Kinds -> Results]
  BY ResultTypes DEF Init, NoResults
<1> QED BY <1>1, ZeroAssumption DEF Init, TypeOK, Run, Refresh

\* A move of the connection.
LEMMA LinkTypes ==
  ASSUME TypeOK, NEW from, NEW to \in States, LinkStep(from, to), drops' \in 0..MaxDrops
  PROVE  TypeOK'
  BY DEF TypeOK, LinkStep, Moves, readVars, States, Refresh

\* Writing down one result, and waiting for one query less.
LEMMA SettleTypes ==
  ASSUME TypeOK, NEW q, Settle(q)
  PROVE  waiting' \subseteq Queries
  BY DEF TypeOK, Settle

LEMMA MissTypes ==
  ASSUME TypeOK, NEW k \in Kinds, Miss(k)
  PROVE  result' \in [Kinds -> Results]
  BY ResultTypes DEF TypeOK, Miss

LEMMA ServeTypes ==
  ASSUME TypeOK, NEW k \in Kinds, NEW sampled \in BOOLEAN, Serve(k, sampled)
  PROVE  result' \in [Kinds -> Results]
<1>1. FromZero(sampled) \in Results
  BY ResultTypes
<1> QED BY <1>1 DEF TypeOK, Serve

LEMMA DriftTypes ==
  ASSUME TypeOK, NEW t \in Tables, registerSchemaDrift(t)
  PROVE  drifted' \subseteq Tables
  BY DEF TypeOK, registerSchemaDrift

LEMMA TableTypes ==
  /\ \A k \in Kinds : Checked(k) \subseteq Tables
  /\ \A k \in Kinds \ {"users"} : \A t \in Checked(k) : Checked(k) = {t}
  /\ Checked("users") = {"workspace_members", "users"}
  /\ \A t : RowsOf(t) \subseteq BOOLEAN
  BY DEF Checked, Kinds, Tables, RowsOf

\* What Answers leaves alone.
LEMMA AnswersFrame ==
  ASSUME TypeOK, NEW k, Answers(k)
  PROVE  /\ run' = run /\ starts' = starts /\ altered' = altered
         /\ conn' = conn /\ status' = status /\ drops' = drops
         /\ minted' = minted /\ token' = token /\ refused' = refused /\ refresh' = refresh
         /\ waiting' \subseteq Queries /\ waiting' \subseteq waiting
         /\ run = "ready"
  BY DEF Answers, Settle, TypeOK, linkVars, tokenVars

\* The members' answer, one case at a time.
LEMMA MembersCases ==
  ASSUME AnswersMembers
  PROVE  /\ Answers("users")
         /\ \/ Miss("users") /\ registerSchemaDrift("workspace_members")
            \/ Miss("users") /\ registerSchemaDrift("users")
            \/ Serve("users", TRUE) /\ UNCHANGED drifted /\ Checked("users") \cap drifted = {}
<1>1. PICK m \in RowsOf("workspace_members"), u \in RowsOf("users"), joined \in BOOLEAN :
       IF ~(validateRowShape("workspace_members", m) /\ joined)
         THEN Miss("users") /\ registerSchemaDrift("workspace_members")
       ELSE IF ~validateRowShape("users", u)
         THEN Miss("users") /\ registerSchemaDrift("users")
       ELSE Serve("users", m /\ u) /\ UNCHANGED drifted
  BY DEF AnswersMembers
<1>2. Answers("users")
  BY DEF AnswersMembers
<1>3. CASE ~(validateRowShape("workspace_members", m) /\ joined)
  BY <1>1, <1>2, <1>3
<1>4. CASE ~validateRowShape("users", u)
  BY <1>1, <1>2, <1>4
<1>5. CASE validateRowShape("workspace_members", m) /\ joined /\ validateRowShape("users", u)
  <2>1. Serve("users", m /\ u) /\ UNCHANGED drifted
    BY <1>1, <1>5, Zenon
  <2>2. m /\ u /\ "workspace_members" \notin drifted /\ "users" \notin drifted
    BY <1>5 DEF validateRowShape
  <2>3. (m /\ u) = TRUE
    BY <2>2
  <2>4. Serve("users", TRUE)
    BY <2>1, <2>3
  <2>5. Checked("users") \cap drifted = {}
    BY <2>2, TableTypes
  <2> QED BY <1>2, <2>1, <2>4, <2>5
<1> QED BY <1>3, <1>4, <1>5

\* The rows of channels, messages and search, likewise.
LEMMA RowsCases ==
  ASSUME NEW k \in Kinds, AnswersRows(k)
  PROVE  /\ k # "users" /\ Answers(k)
         /\ \/ \E t \in Checked(k) : Miss(k) /\ registerSchemaDrift(t)
            \/ Serve(k, TRUE) /\ UNCHANGED drifted /\ Checked(k) \cap drifted = {}
<1>1. k # "users" /\ Answers(k)
  BY DEF AnswersRows
<1>2. PICK t \in Checked(k) : \E whole \in RowsOf(t) :
       IF validateRowShape(t, whole)
         THEN Serve(k, whole) /\ UNCHANGED drifted
         ELSE Miss(k) /\ registerSchemaDrift(t)
  BY Zenon DEF AnswersRows
<1>3. PICK whole \in RowsOf(t) :
       IF validateRowShape(t, whole)
         THEN Serve(k, whole) /\ UNCHANGED drifted
         ELSE Miss(k) /\ registerSchemaDrift(t)
  BY <1>2, Zenon
<1>4. CASE validateRowShape(t, whole)
  <2>1. whole /\ t \notin drifted
    BY <1>4 DEF validateRowShape
  <2>2. whole = TRUE
    BY <1>3, <2>1, TableTypes
  <2>3. Checked(k) = {t}
    BY <1>1, <1>2, TableTypes
  <2>4. Serve(k, TRUE) /\ UNCHANGED drifted
    BY <1>3, <1>4, <2>2
  <2> QED BY <1>1, <2>1, <2>3, <2>4
<1>5. CASE ~validateRowShape(t, whole)
  <2>1. Miss(k) /\ registerSchemaDrift(t)
    BY <1>3, <1>5
  <2> QED BY <1>1, <2>1
<1> QED BY <1>4, <1>5

\* A timer that goes off, likewise.
LEMMA TimeoutCases ==
  ASSUME TypeOK, NEW q \in Queries, TimesOut(q)
  PROVE  /\ UNCHANGED <<run, starts, linkVars, tokenVars, altered, drifted>>
         /\ waiting' \subseteq waiting
         /\ (q \in Kinds /\ Miss(q)) \/ UNCHANGED result
  BY DEF TimesOut, Settle

\* A step keeps the types.
LEMMA NextTypes ==
  ASSUME TypeOK, Next
  PROVE  TypeOK'
<1> USE ZeroAssumption
<1>1. CASE StartDaemon
  BY <1>1 DEF TypeOK, StartDaemon, linkVars, tokenVars, readVars, Run
<1>2. CASE FirstToken
  BY <1>2 DEF TypeOK, FirstToken, Mint, linkVars, readVars, Run
<1>3. CASE OpenClient
  BY <1>3 DEF TypeOK, OpenClient, tokenVars, readVars, Run, States
<1>4. CASE BootFails
  BY <1>4 DEF TypeOK, BootFails, linkVars, tokenVars, readVars, Run
<1>5. CASE StopDaemon
  <2>1. result' \in [Kinds -> Results]
    BY <1>5, ResultTypes DEF StopDaemon, NoResults
  <2> QED BY <1>5, <2>1 DEF TypeOK, StopDaemon, Run, States, Refresh
<1>6. CASE Connection
  BY <1>6, LinkTypes DEF Connection, Reconnect, Accepted, Rejected, States, TypeOK
<1>7. CASE Drop
  <2>1. drops' \in 0..MaxDrops
    BY <1>7 DEF Drop, TypeOK
  <2> QED BY <1>7, <2>1, LinkTypes DEF Drop, States
<1>8. CASE TokenExpires
  BY <1>8 DEF TypeOK, TokenExpires, linkVars, readVars
<1>9. CASE Refreshing
  <2>1. CASE Remint
    BY <2>1 DEF TypeOK, Remint, Mint, linkVars, readVars, Refresh
  <2>2. CASE RefreshFails
    BY <2>2 DEF TypeOK, RefreshFails, linkVars, readVars, Refresh
  <2>3. CASE Offer
    BY <2>3 DEF TypeOK, Offer, readVars, Refresh, States
  <2> QED BY <1>9, <2>1, <2>2, <2>3 DEF Refreshing
<1>10. CASE SchemaChanges
  BY <1>10 DEF TypeOK, SchemaChanges, linkVars, tokenVars, readVars
<1>11. CASE Begin
  <2>1. waiting' \subseteq Queries /\ result' \in [Kinds -> Results]
    BY <1>11, BeginTypes
  <2>2. UNCHANGED <<run, starts, linkVars, tokenVars, altered, drifted>>
    BY <1>11 DEF Begin
  <2> QED BY <2>1, <2>2 DEF TypeOK, linkVars, tokenVars
<1>12. CASE AnswersMembers
  <2>1. Answers("users")
    BY <1>12, MembersCases
  <2>2. "users" \in Kinds /\ {"users", "workspace_members"} \subseteq Tables
    BY DEF Kinds, Tables
  <2>3. result' \in [Kinds -> Results] /\ drifted' \subseteq Tables
    <3>1. CASE Miss("users") /\ registerSchemaDrift("workspace_members")
      BY <3>1, <2>2, MissTypes, DriftTypes
    <3>2. CASE Miss("users") /\ registerSchemaDrift("users")
      BY <3>2, <2>2, MissTypes, DriftTypes
    <3>3. CASE Serve("users", TRUE) /\ UNCHANGED drifted
      BY <3>3, <2>2, ServeTypes DEF TypeOK
    <3> QED BY <1>12, <3>1, <3>2, <3>3, MembersCases
  <2> QED BY <2>1, <2>3, AnswersFrame DEF TypeOK
<1>13. CASE AnswersNames
  BY <1>13 DEF TypeOK, AnswersNames, Settle, linkVars, tokenVars
<1>14. ASSUME NEW k \in Kinds, AnswersNothing(k)
       PROVE  TypeOK'
  <2>1. Answers(k) /\ result' \in [Kinds -> Results] /\ UNCHANGED drifted
    BY <1>14, MissTypes DEF AnswersNothing
  <2> QED BY <1>14, <2>1, AnswersFrame DEF TypeOK, AnswersNothing
<1>15. ASSUME NEW k \in Kinds, AnswersRows(k)
       PROVE  TypeOK'
  <2>1. Answers(k)
    BY <1>15, RowsCases
  <2>2. result' \in [Kinds -> Results] /\ drifted' \subseteq Tables
    <3>1. ASSUME NEW t \in Checked(k), Miss(k), registerSchemaDrift(t)
          PROVE  result' \in [Kinds -> Results] /\ drifted' \subseteq Tables
      BY <3>1, MissTypes, DriftTypes, TableTypes
    <3>2. CASE Serve(k, TRUE) /\ UNCHANGED drifted
      BY <3>2, ServeTypes DEF TypeOK
    <3> QED BY <1>15, <3>1, <3>2, RowsCases
  <2> QED BY <2>1, <2>2, AnswersFrame DEF TypeOK
<1>16. ASSUME NEW q \in Queries, TimesOut(q)
       PROVE  TypeOK'
  <2>1. result' \in [Kinds -> Results]
    BY <1>16, TimeoutCases, MissTypes DEF TypeOK
  <2> QED BY <1>16, <2>1, TimeoutCases DEF TypeOK, linkVars, tokenVars
<1> QED BY <1>1, <1>2, <1>3, <1>4, <1>5, <1>6, <1>7, <1>8, <1>9, <1>10, <1>11, <1>12,
           <1>13, <1>14, <1>15, <1>16 DEF Next, Bootstrap, Reading

\* Every variable keeps its type.
THEOREM TypeSafety == Spec => []TypeOK
<1>1. TypeOK /\ UNCHANGED vars => TypeOK'
  BY DEF TypeOK, vars, linkVars, tokenVars, readVars
<1> QED BY <1>1, InitTypes, NextTypes, PTL DEF Spec

-----------------------------------------------------------------------------
(* What Zero is asked, and what it gives                                   *)

\* A step keeps the mirror honest: every move of the connection is mirrored.
LEMMA NextMirror ==
  ASSUME TypeOK, MirrorIsHonest, Next
  PROVE  MirrorIsHonest'
<1>1. CASE StartDaemon \/ Bootstrap
  BY <1>1 DEF MirrorIsHonest, StartDaemon, Bootstrap, FirstToken, OpenClient, BootFails, linkVars
<1>2. CASE StopDaemon
  BY <1>2 DEF MirrorIsHonest, StopDaemon
<1>3. CASE Connection \/ Drop
  BY <1>3 DEF MirrorIsHonest, Connection, Reconnect, Accepted, Rejected, Drop, LinkStep, Moves
<1>4. CASE TokenExpires \/ Refreshing
  BY <1>4 DEF MirrorIsHonest, TokenExpires, Refreshing, Remint, RefreshFails, Offer, linkVars
<1>5. CASE SchemaChanges \/ Reading
  <2>1. UNCHANGED <<run, linkVars>>
    BY <1>5, AnswersFrame, MembersCases, RowsCases
       DEF SchemaChanges, Reading, Begin, AnswersNames, AnswersNothing, TimesOut, linkVars
  <2> QED BY <2>1 DEF MirrorIsHonest, linkVars
<1> QED BY <1>1, <1>2, <1>3, <1>4, <1>5 DEF Next

-----------------------------------------------------------------------------
(* The theorems                                                            *)

LEMMA Invariance == Spec => []Inv
<1>1. Init => Inv
  BY InitTypes DEF Init, Inv, MirrorIsHonest
<1>2. Inv /\ Next => Inv'
  BY NextTypes, NextMirror DEF Inv
<1>3. Inv /\ UNCHANGED vars => Inv'
  BY DEF Inv, TypeOK, MirrorIsHonest, vars, linkVars, tokenVars, readVars
<1> QED BY <1>1, <1>2, <1>3, PTL DEF Spec

\* A result over Zero is of tables that have not drifted, and the row that was
\* looked at has every column, whatever happens while the query is under way.
LEMMA ServedRows ==
  ASSUME TypeOK, Next, NEW k \in Kinds, result[k].via # "zero", result'[k].via = "zero"
  PROVE  result'[k].sampled /\ Checked(k) \cap drifted' = {}
<1>s. ASSUME NEW j \in Kinds, Serve(j, TRUE), UNCHANGED drifted, Checked(j) \cap drifted = {}
      PROVE  result'[k].sampled /\ Checked(k) \cap drifted' = {}
  <2>1. k = j
    BY <1>s DEF Serve, TypeOK
  <2>2. result'[k] = FromZero(TRUE)
    BY <1>s, <2>1 DEF Serve, TypeOK
  <2>3. FromZero(TRUE).sampled
    BY DEF FromZero
  <2> QED BY <1>s, <2>1, <2>2, <2>3
<1>m. ASSUME NEW j \in Kinds, Miss(j)
      PROVE  FALSE
  BY <1>m, ResultFields DEF Miss, TypeOK
<1>u. ASSUME UNCHANGED result
      PROVE  FALSE
  BY <1>u
<1>1. CASE StartDaemon \/ Bootstrap \/ Connection \/ Drop \/ TokenExpires \/ Refreshing \/ SchemaChanges
  <2>1. UNCHANGED result
    BY <1>1 DEF StartDaemon, Bootstrap, FirstToken, OpenClient, BootFails, Connection, Reconnect,
                Accepted, Rejected, Drop, LinkStep, TokenExpires, Refreshing, Remint,
                RefreshFails, Offer, SchemaChanges, readVars
  <2> QED BY <2>1, <1>u
<1>2. CASE StopDaemon
  BY <1>2, ResultFields DEF StopDaemon, NoResults
<1>3. CASE Begin
  BY <1>3, BeginTypes, ResultFields
<1>4. CASE AnswersMembers
  BY <1>4, <1>s, <1>m, MembersCases DEF Kinds
<1>5. CASE AnswersNames
  BY <1>5, <1>u DEF AnswersNames
<1>6. ASSUME NEW j \in Kinds, AnswersNothing(j)
      PROVE  FALSE
  BY <1>6, <1>m DEF AnswersNothing
<1>7. ASSUME NEW j \in Kinds, AnswersRows(j)
      PROVE  result'[k].sampled /\ Checked(k) \cap drifted' = {}
  BY <1>7, <1>s, <1>m, RowsCases
<1>8. ASSUME NEW q \in Queries, TimesOut(q)
      PROVE  FALSE
  BY <1>8, <1>u, <1>m, TimeoutCases
<1> QED BY <1>1, <1>2, <1>3, <1>4, <1>5, <1>6, <1>7, <1>8 DEF Next, Reading

\* A command begins to wait for Zero only while Zero is connected.
LEMMA AsksInSync ==
  ASSUME Inv, Next, waiting = {}, waiting' # {}
  PROVE  conn = "connected"
<1>1. CASE Begin
  BY <1>1, BeginAsks DEF Inv, MirrorIsHonest, ZeroActive
<1>2. CASE ~Begin
  <2>1. waiting' \subseteq waiting
    BY <1>2, AnswersFrame, MembersCases, RowsCases, TimeoutCases
       DEF Inv, Next, StartDaemon, Bootstrap, FirstToken, OpenClient, BootFails, StopDaemon,
           Connection, Reconnect, Accepted, Rejected, Drop, LinkStep, TokenExpires, Refreshing,
           Remint, RefreshFails, Offer, SchemaChanges, Reading, AnswersNothing, AnswersNames,
           Settle, readVars
  <2> QED BY <2>1
<1> QED BY <1>1, <1>2

\* active-client.ts and reads.ts: Zero is asked only while its connection
\* stands, and a result over Zero is of tables that have not drifted, with every
\* column in the row that was looked at, through any drops, refused tokens,
\* restarts and changes of the server's schema.
THEOREM TrustedAlways == Spec => TrustedOnlyInSync
<1>1. Inv /\ [Next]_vars =>
        [/\ waiting = {} /\ waiting' # {} => conn = "connected"
         /\ \A k \in Kinds : result[k].via # "zero" /\ result'[k].via = "zero" =>
              result'[k].sampled /\ Checked(k) \cap drifted' = {}]_vars
  BY AsksInSync, ServedRows DEF Inv
<1> QED BY <1>1, Invariance, PTL DEF Spec, TrustedOnlyInSync
=============================================================================
