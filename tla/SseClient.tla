----------------------------- MODULE SseClient -----------------------------
(***************************************************************************)
(* The event stream's client (src/bridge/sse.ts) against a server that     *)
(* numbers its events: chunks cut anywhere, lines split off the buffer,    *)
(* fields collected into events, drops, and reconnects with Last-Event-ID. *)
(*                                                                         *)
(* What travels is a sequence of tokens: the text of a line, or one of the *)
(* characters that end lines.  A line's text is never cut: the code keeps  *)
(* an unfinished line in its buffer, which is the token not yet read.      *)
(* Times (the backoff, the dates) are left out.                            *)
(***************************************************************************)
EXTENDS StreamPromises, Naturals, Sequences

CONSTANTS
  MaxFaults,   \* bound: drops, failed connects and restarts
  Eol          \* what the server ends its lines with

CR == <<"cr", 0>>
LF == <<"lf", 0>>

ASSUME SseAssumption ==
  /\ MaxEvents \in Nat
  /\ MaxFaults \in Nat
  /\ Typed \subseteq 1..MaxEvents
  /\ Eol \in {<<LF>>, <<CR>>, <<CR, LF>>}

\* The others are in StreamPromises.
VARIABLES
  cursor,        \* the last event the server has written to this connection
  wire,          \* what the server wrote and the client has not read
  conn,          \* where connect() is
  buffer,        \* the lines in hand that the loop has to do, then buffer
  part,          \* eventId, eventType and eventData: the event being built
  faults         \* the faults so far

serverVars == <<published, cursor, wire>>
parserVars == <<buffer, part>>
vars == <<serverVars, conn, parserVars, lastEventId, dispatched, faults>>

Texts == {"id", "event", "data"} \X Events \cup {<<"comment", 0>>, <<"blank", 0>>}
Blank == <<"blank", 0>>

NoEvent == [id |-> 0, type |-> 0, data |-> <<>>]

TypeOK ==
  /\ published \in 0..MaxEvents
  /\ cursor \in 0..published
  /\ wire \in Seq(Texts \cup {CR, LF})
  /\ conn \in {"connecting", "open", "backoff", "stopped"}
  /\ buffer \in Seq(Texts \cup {CR, LF})
  /\ part \in [id : 0..MaxEvents, type : {0} \cup Typed, data : Seq(Events)]
  /\ lastEventId \in 0..MaxEvents
  /\ dispatched \in Seq([id : 0..MaxEvents, type : {0} \cup Typed, data : Seq(Events)])
  /\ faults \in 0..MaxFaults

Init == /\ published = 0
        /\ cursor = 0
        /\ wire = <<>>
        /\ conn = "connecting"
        /\ buffer = <<>>
        /\ part = NoEvent
        /\ lastEventId = 0
        /\ dispatched = <<>>
        /\ faults = 0

-----------------------------------------------------------------------------
(* The server. *)

Line(field, e) == <<<<field, e>>>> \o Eol

Written(e) == Line("id", e) \o (IF e \in Typed THEN Line("event", e) ELSE <<>>)
                \o Line("data", e) \o Eol

Publish == /\ published < MaxEvents
           /\ published' = published + 1
           /\ UNCHANGED <<cursor, wire, conn, parserVars, lastEventId, dispatched, faults>>

ServerWrites == /\ conn = "open"
                /\ cursor < published
                /\ cursor' = cursor + 1
                /\ wire' = wire \o Written(cursor + 1)
                /\ UNCHANGED <<published, conn, parserVars, lastEventId, dispatched, faults>>

Keepalive == /\ conn = "open"
             /\ wire = <<>>
             /\ wire' = Line("comment", 0) \o Eol
             /\ UNCHANGED <<published, cursor, conn, parserVars, lastEventId, dispatched, faults>>

-----------------------------------------------------------------------------
(* The client. *)

Fault == /\ faults < MaxFaults
         /\ faults' = faults + 1

\* Mutant of ResumeAfter: the request carries no Last-Event-ID.
ResumeNow == published

\* connect() gets a 200: a server that is told the last event resumes after
\* it, and otherwise begins with what it publishes next.
ResumeAfter == IF lastEventId # 0 THEN lastEventId ELSE published

Connected == /\ conn = "connecting"
             /\ conn' = "open"
             /\ cursor' = ResumeAfter
             /\ wire' = <<>>
             /\ buffer' = <<>>
             /\ part' = NoEvent
             /\ UNCHANGED <<published, lastEventId, dispatched, faults>>

\* A network error, or a status that is neither 2xx nor 401 nor 403.
ConnectFails == /\ conn = "connecting"
                /\ Fault
                /\ conn' = "backoff"
                /\ UNCHANGED <<serverVars, parserVars, lastEventId, dispatched>>

\* 401 or 403: onUnrecoverable ends the process.
Unauthorized == /\ conn = "connecting"
                /\ Fault
                /\ conn' = "stopped"
                /\ UNCHANGED <<serverVars, parserVars, lastEventId, dispatched>>

\* The split at /\r\n|\r|\n/: where lines end and what they hold.  The code
\* splits a chunk at once, and the loop does the lines in turn; here a line is
\* split off when the loop takes it, and nothing is read before the last one.
EndsLine(b, i) == \/ b[i] = LF
                  \/ b[i] = CR /\ ~(i < Len(b) /\ b[i + 1] = LF)

LineAt(b, i) == LET j == IF b[i] = LF /\ i > 1 /\ b[i - 1] = CR THEN i - 2 ELSE i - 1
                IN  IF j > 0 THEN b[j] ELSE Blank

\* What is left in the buffer is an incomplete line.
Incomplete(b) == \A i \in DOMAIN b : ~EndsLine(b, i)

\* reader.read() returns a chunk of n tokens.
Read(n) == /\ conn = "open"
           /\ Incomplete(buffer)
           /\ buffer' = buffer \o SubSeq(wire, 1, n)
           /\ wire' = SubSeq(wire, n + 1, Len(wire))
           /\ UNCHANGED <<published, cursor, conn, part, lastEventId, dispatched, faults>>

\* Mutant of Remembered: only the first id is remembered.
RememberedOnce(e) == IF lastEventId = 0 THEN e.id ELSE lastEventId

\* The id that reconnecting goes by, once the event e is complete.
Remembered(e) == IF e.id # 0 THEN e.id ELSE lastEventId

\* Mutant of TakeBlank: the type of an event is not reset for the next one.
TakeBlankKeepsType(line) ==
  /\ line = Blank
  /\ IF part.data # <<>>
     THEN /\ lastEventId' = Remembered(part)
          /\ dispatched' = Append(dispatched, part)
     ELSE UNCHANGED <<lastEventId, dispatched>>
  /\ part' = [NoEvent EXCEPT !.type = part.type]

\* The body of the loop over the lines.
TakeBlank(line) ==
  /\ line = Blank
  /\ IF part.data # <<>>
     THEN /\ lastEventId' = Remembered(part)
          /\ dispatched' = Append(dispatched, part)
     ELSE UNCHANGED <<lastEventId, dispatched>>
  /\ part' = NoEvent

Collected(line) == CASE line[1] = "id"    -> [part EXCEPT !.id = line[2]]
                     [] line[1] = "event" -> [part EXCEPT !.type = line[2]]
                     [] line[1] = "data"  -> [part EXCEPT !.data = Append(@, line[2])]
                     [] OTHER             -> part

TakeField(line) == /\ line # Blank
                   /\ part' = Collected(line)
                   /\ UNCHANGED <<lastEventId, dispatched>>

\* The next line, which ends at i.
TakeLine(i) == /\ EndsLine(buffer, i)
               /\ \A k \in 1..(i - 1) : ~EndsLine(buffer, k)
               /\ TakeBlank(LineAt(buffer, i)) \/ TakeField(LineAt(buffer, i))
               /\ buffer' = SubSeq(buffer, i + 1, Len(buffer))
               /\ UNCHANGED <<serverVars, conn, faults>>

\* The stream ends or fails; what is left in the buffer is dropped with it.
Drop == /\ conn = "open"
        /\ Incomplete(buffer)
        /\ Fault
        /\ conn' = "backoff"
        /\ wire' = <<>>
        /\ UNCHANGED <<published, cursor, parserVars, lastEventId, dispatched>>

\* setTimeout(connect, retryMs).
Reconnect == /\ conn = "backoff"
             /\ conn' = "connecting"
             /\ UNCHANGED <<serverVars, parserVars, lastEventId, dispatched, faults>>

\* The process is killed and the service manager starts a new one.
Restart == /\ conn # "stopped"
           /\ Fault
           /\ conn' = "connecting"
           /\ wire' = <<>>
           /\ buffer' = <<>>
           /\ part' = NoEvent
           /\ lastEventId' = 0
           /\ UNCHANGED <<published, cursor, dispatched>>

\* The process has exited.
Exited == /\ conn = "stopped"
          /\ UNCHANGED vars

Next == \/ Publish \/ ServerWrites \/ Keepalive
        \/ Connected \/ ConnectFails \/ Unauthorized
        \/ \E n \in 1..Len(wire) : Read(n)
        \/ \E i \in DOMAIN buffer : TakeLine(i)
        \/ Drop \/ Reconnect \/ Restart \/ Exited

Spec == Init /\ [][Next]_vars

\* The server and the network go on, timers fire and callbacks run.
Fairness == /\ WF_vars(ServerWrites)
            /\ WF_vars(Connected)
            /\ WF_vars(\E n \in 1..Len(wire) : Read(n))
            /\ WF_vars(\E i \in DOMAIN buffer : TakeLine(i))
            /\ WF_vars(Reconnect)

FairSpec == Spec /\ Fairness

-----------------------------------------------------------------------------

\* Once an event with an id has been dispatched, every later one is, unless
\* the process ends: reconnecting resumes where the stream broke off.
ResumesAfterDrops ==
  \A e \in Events :
    (lastEventId \in 1..(e - 1) /\ e <= published)
      ~> (lastEventId >= e \/ lastEventId = 0 \/ conn = "stopped")
=============================================================================
