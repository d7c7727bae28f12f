----------------------------- MODULE ZeroSession -----------------------------
(***************************************************************************)
(* The daemon's Zero client: how it is started (bootstrapZero in           *)
(* src/daemon/server.ts, createZeroClient in src/zero/client.ts), kept     *)
(* connected with tokens it mints (src/zero/auth.ts), registered with its  *)
(* state and the tables that drifted (src/zero/active-client.ts), and read *)
(* by commands (src/zero/reads.ts) that fall back to REST.                 *)
(*                                                                         *)
(* The Zero library, the sync server and the replica on disk are external: *)
(* Zero reconnects by itself after a drop, asks for a token when the       *)
(* server refuses the one it has, and answers a query late, never, from    *)
(* an incomplete replica, or in the server's schema of the day.            *)
(*                                                                         *)
(* Of the rows of an answer there is only the first, the one that          *)
(* validateRowShape looks at: nothing in the code tells the others from    *)
(* it.  Who is in a roster is left out as well: it has the members whose   *)
(* user is in the replica and not deactivated, be they few or none.        *)
(***************************************************************************)
EXTENDS Naturals, FiniteSets

CONSTANTS
  MaxMints,     \* bound: tokens minted
  MaxDrops,     \* bound: connections lost
  MaxStarts,    \* bound: daemons started
  MaxAltered    \* bound: tables the server alters

ASSUME ZeroAssumption ==
  /\ MaxMints \in Nat /\ MaxDrops \in Nat /\ MaxStarts \in Nat /\ MaxAltered \in Nat

VARIABLES
  run,        \* the daemon and its bootstrap of Zero
  starts,     \* daemons started
  conn,       \* the connection, as Zero has it
  status,     \* lastStatus of active-client.ts
  drops,      \* connections lost
  minted,     \* tokens minted
  token,      \* the token Zero connects with
  refused,    \* the tokens the server no longer takes
  refresh,    \* the callback that answers needs-auth
  altered,    \* the tables that have lost a column on the server
  drifted,    \* driftedTables of active-client.ts
  waiting,    \* the queries the dispatched command waits for
  result      \* what each read of the last command came to

linkVars == <<conn, status, drops>>
tokenVars == <<minted, token, refused, refresh>>
readVars == <<drifted, waiting, result>>
vars == <<run, starts, linkVars, tokenVars, altered, readVars>>

\* "rest": the daemon goes on without Zero.
Run == {"off", "mint", "open", "ready", "rest"}
States == {"connecting", "connected", "disconnected", "needs-auth", "error"}
Refresh == {"none", "mint", "offer", "failed"}
Tables == {"channels", "messages", "workspace_members", "users"}
Kinds == {"channels", "users", "messages", "search"}

\* searchMessagesViaZero asks for the users beside the messages.
Queries == Kinds \cup {"names"}

\* The reads of one command; `ano agent context` makes two at once.
Commands == {{k} : k \in Kinds} \cup {{"channels", "users"}}

\* The tables of which a read checks a row.  Messages and search also print the
\* sender's display_name from a row of users, which nothing checks.
Checked(k) == CASE k = "channels" -> {"channels"}
                [] k = "users" -> {"workspace_members", "users"}
                [] OTHER -> {"messages"}

\* sampled: the first row of each checked table had every expected column.
Results == [via : {"none", "zero", "rest"}, sampled : BOOLEAN]
NoResult == [via |-> "none", sampled |-> TRUE]
FromRest == [via |-> "rest", sampled |-> TRUE]
FromZero(sampled) == [via |-> "zero", sampled |-> sampled]

TypeOK ==
  /\ run \in Run
  /\ starts \in 0..MaxStarts
  /\ conn \in States \cup {"none"}
  /\ status \in States \cup {"init"}
  /\ drops \in 0..MaxDrops
  /\ minted \in 0..MaxMints
  /\ token \in 0..MaxMints
  /\ refused \subseteq 0..MaxMints
  /\ refresh \in Refresh
  /\ altered \subseteq Tables
  /\ drifted \subseteq Tables
  /\ waiting \subseteq Queries
  /\ result \in [Kinds -> Results]

NoResults == [k \in Kinds |-> NoResult]

Init ==
  /\ run = "off" /\ starts = 0
  /\ conn = "none" /\ status = "init" /\ drops = 0
  /\ minted = 0 /\ token = 0 /\ refused = {} /\ refresh = "none"
  /\ altered = {} /\ drifted = {} /\ waiting = {} /\ result = NoResults

-----------------------------------------------------------------------------
(* Bootstrap                                                               *)

\* prewarmDaemonRuntime, beside the socket that already listens.  Zero is off,
\* or there is no profile or no sync server for its endpoint: no client.
StartDaemon ==
  /\ run = "off" /\ starts < MaxStarts
  /\ run' \in {"mint", "rest"}
  /\ starts' = starts + 1
  /\ UNCHANGED <<linkVars, tokenVars, altered, readVars>>

\* A token that no one has had yet.
Mint ==
  /\ minted < MaxMints
  /\ minted' = minted + 1

\* getAuth, with nothing cached.
FirstToken ==
  /\ run = "mint"
  /\ Mint
  /\ token' = minted'
  /\ run' = "open"
  /\ UNCHANGED <<starts, linkVars, refused, refresh, altered, readVars>>

\* The store is opened, Zero constructed and registered.
OpenClient ==
  /\ run = "open"
  /\ run' = "ready"
  /\ conn' = "connecting"
  /\ UNCHANGED <<starts, status, drops, tokenVars, altered, readVars>>

\* No token, no user in it, no SQLite driver, or the constructor throws.
BootFails ==
  /\ run \in {"mint", "open"}
  /\ run' = "rest"
  /\ UNCHANGED <<starts, linkVars, tokenVars, altered, readVars>>

\* The daemon shuts down or dies: its memory is gone, the replica stays.
StopDaemon ==
  /\ run # "off"
  /\ run' = "off"
  /\ conn' = "none" /\ status' = "init"
  /\ token' = 0 /\ refresh' = "none"
  /\ drifted' = {} /\ waiting' = {} /\ result' = NoResults
  /\ UNCHANGED <<starts, drops, minted, refused, altered>>

-----------------------------------------------------------------------------
(* The connection                                                          *)

\* Mutant of Moves: only the states that the callback handles are mirrored.
MovesHandled(to) ==
  /\ conn' = to
  /\ status' = IF to = "disconnected" THEN status ELSE to
  /\ refresh' = IF to = "needs-auth" THEN "mint" ELSE refresh

\* The subscriber mirrors every transition; needs-auth starts a refresh.
Moves(to) ==
  /\ conn' = to
  /\ status' = to
  /\ refresh' = IF to = "needs-auth" THEN "mint" ELSE refresh

LinkStep(from, to) ==
  /\ run = "ready" /\ conn \in from
  /\ Moves(to)
  /\ UNCHANGED <<run, starts, minted, token, refused, altered, readVars>>

\* Zero's own retries.
Reconnect == LinkStep({"disconnected", "error"}, "connecting") /\ UNCHANGED drops

Accepted ==
  /\ token \notin refused
  /\ LinkStep({"connecting"}, "connected")
  /\ UNCHANGED drops

Rejected ==
  /\ token \in refused
  /\ LinkStep({"connecting", "connected"}, "needs-auth")
  /\ UNCHANGED drops

Drop ==
  /\ drops < MaxDrops
  /\ drops' = drops + 1
  /\ \E to \in {"disconnected", "error"} : LinkStep({"connecting", "connected"}, to)

\* The token expires or its key is revoked.
TokenExpires ==
  /\ run = "ready" /\ token \notin refused /\ minted < MaxMints
  /\ refused' = refused \cup {token}
  /\ UNCHANGED <<run, starts, linkVars, minted, token, refresh, altered, readVars>>

\* forceRefresh
Remint ==
  /\ run = "ready" /\ refresh = "mint"
  /\ Mint
  /\ refresh' = "offer"
  /\ UNCHANGED <<run, starts, linkVars, token, refused, altered, readVars>>

\* forceRefresh returns nothing, or connect throws: the callback ends, and
\* there is no other.
RefreshFails ==
  /\ run = "ready" /\ refresh \in {"mint", "offer"}
  /\ refresh' = "failed"
  /\ UNCHANGED <<run, starts, linkVars, minted, token, refused, altered, readVars>>

\* Mutant of Offer: Zero gets the token, and the connection is not opened.
OfferQuietly ==
  /\ run = "ready" /\ refresh = "offer"
  /\ refresh' = "none"
  /\ token' = minted
  /\ UNCHANGED <<run, starts, linkVars, minted, refused, altered, readVars>>

\* connection.connect({ auth: fresh })
Offer ==
  /\ run = "ready" /\ refresh = "offer"
  /\ refresh' = "none"
  /\ token' = minted
  /\ conn' = "connecting" /\ status' = "connecting"
  /\ UNCHANGED <<run, starts, drops, minted, refused, altered, readVars>>

-----------------------------------------------------------------------------
(* Reads                                                                   *)

\* The server's schema moves on: a table loses a column the CLI knows.
SchemaChanges ==
  /\ Cardinality(altered) < MaxAltered
  /\ \E t \in Tables \ altered : altered' = altered \cup {t}
  /\ UNCHANGED <<run, starts, linkVars, tokenVars, readVars>>

\* activeZeroOrNull
ZeroActive == run = "ready" /\ status = "connected"

\* Whether a read asks Zero at all.
AsksZero(k) == ZeroActive /\ Checked(k) \cap drifted = {}

\* A command is dispatched and begins its reads.  It goes to REST by itself
\* if ANO_DISABLE_ZERO is set, and without a workspace for users or a text
\* for search.
Begin ==
  /\ run \notin {"off"} /\ waiting = {}
  /\ \E c \in Commands, zeroOn \in BOOLEAN :
       LET asks == {k \in c : zeroOn /\ AsksZero(k)} IN
       /\ waiting' = asks \cup (IF "search" \in asks THEN {"names"} ELSE {})
       /\ result' = [k \in Kinds |->
                       IF k \in c \ asks THEN FromRest ELSE NoResult]
  /\ UNCHANGED <<run, starts, linkVars, tokenVars, altered, drifted>>

Settle(q) == waiting' = waiting \ {q}

Miss(k) == result' = [result EXCEPT ![k] = FromRest]

Serve(k, sampled) == result' = [result EXCEPT ![k] = FromZero(sampled)]

registerSchemaDrift(t) == drifted' = drifted \cup {t}

\* validateRowShape, of a first row that has every column or does not.
validateRowShape(t, whole) == t \notin drifted /\ whole

\* The first row of an altered table may lack the column, or be older.
RowsOf(t) == IF t \in altered THEN BOOLEAN ELSE {TRUE}

\* A query has been answered, and its answer is the one to use: search needs
\* the other query over as well.  (What it had for an answer by then does not
\* matter until it is used.)
Answers(k) ==
  /\ run = "ready" /\ k \in waiting
  /\ k = "search" => "names" \notin waiting
  /\ Settle(k)
  /\ UNCHANGED <<run, starts, linkVars, tokenVars, altered>>

\* Rejected, no rows, or none that match.
AnswersNothing(k) ==
  /\ Answers(k)
  /\ Miss(k)
  /\ UNCHANGED drifted

\* Channels, messages and search.
AnswersRows(k) ==
  /\ k # "users" /\ Answers(k)
  /\ \E t \in Checked(k) : \E whole \in RowsOf(t) :
       IF validateRowShape(t, whole)
         THEN Serve(k, whole) /\ UNCHANGED drifted
         ELSE Miss(k) /\ registerSchemaDrift(t)

\* The members of a workspace.  If the replica has a user of none of them, the
\* table is not trusted again; else the first user is looked at as well.
AnswersMembers ==
  /\ Answers("users")
  /\ \E m \in RowsOf("workspace_members"), u \in RowsOf("users"), joined \in BOOLEAN :
       IF ~(validateRowShape("workspace_members", m) /\ joined)
         THEN Miss("users") /\ registerSchemaDrift("workspace_members")
       ELSE IF ~validateRowShape("users", u)
         THEN Miss("users") /\ registerSchemaDrift("users")
       ELSE Serve("users", m /\ u) /\ UNCHANGED drifted

\* The users of all workspaces, for search: none, some, or in any shape.
AnswersNames ==
  /\ run = "ready" /\ "names" \in waiting
  /\ Settle("names")
  /\ UNCHANGED <<run, starts, linkVars, tokenVars, altered, drifted, result>>

\* Mutant of TimesOut: withTimeout only around the messages.
TimesOutMain(q) ==
  /\ run = "ready" /\ q \in waiting /\ q # "names"
  /\ Settle(q)
  /\ Miss(q)
  /\ UNCHANGED <<run, starts, linkVars, tokenVars, altered, drifted>>

\* withTimeout
TimesOut(q) ==
  /\ run = "ready" /\ q \in waiting
  /\ q = "search" => "names" \notin waiting
  /\ Settle(q)
  /\ IF q \in Kinds THEN Miss(q) ELSE UNCHANGED result
  /\ UNCHANGED <<run, starts, linkVars, tokenVars, altered, drifted>>

-----------------------------------------------------------------------------
Bootstrap == FirstToken \/ OpenClient \/ BootFails
Connection == Reconnect \/ Accepted \/ Rejected
Refreshing == Remint \/ RefreshFails \/ Offer
Reading ==
  \/ Begin \/ AnswersMembers \/ AnswersNames
  \/ \E k \in Kinds : AnswersNothing(k) \/ AnswersRows(k)
  \/ \E q \in Queries : TimesOut(q)

Next ==
  \/ StartDaemon \/ Bootstrap \/ StopDaemon
  \/ Connection \/ Drop \/ TokenExpires \/ Refreshing
  \/ SchemaChanges \/ Reading

Spec == Init /\ [][Next]_vars

\* Zero keeps trying, a mint is answered, and a timer goes off.
Fairness ==
  /\ WF_vars(Bootstrap) /\ WF_vars(Connection) /\ WF_vars(Refreshing)
  /\ \A q \in Queries : WF_vars(TimesOut(q))

FairSpec == Spec /\ Fairness

-----------------------------------------------------------------------------
\* active-client.ts and reads.ts: Zero is asked only while its connection
\* stands; and a result over Zero comes from tables that have not drifted in
\* this daemon's life, with every expected column in the row that was looked at,
\* whatever the connection and the server do while the query is under way.
\* Nothing is said of the other rows, nor of the names beside messages.
TrustedOnlyInSync ==
  [][/\ waiting = {} /\ waiting' # {} => conn = "connected"
     /\ \A k \in Kinds : result[k].via # "zero" /\ result'[k].via = "zero" =>
          result'[k].sampled /\ Checked(k) \cap drifted' = {}]_vars

\* client.ts: "This keeps the WebSocket alive across token-expiry boundaries":
\* after a drop, a refused token or both, Zero is connected again, unless a
\* refresh failed.
SessionReturns ==
  (run = "ready") ~> (conn = "connected" \/ refresh = "failed" \/ run = "off")

\* No read waits for Zero for ever.
EveryReadEnds == (waiting # {}) ~> (waiting = {})

=============================================================================
