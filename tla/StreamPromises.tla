--------------------------- MODULE StreamPromises ---------------------------
(***************************************************************************)
(* What the bridge may expect of its event stream, in terms of the events  *)
(* that the server sends and the calls of onEvent: whole events, and the   *)
(* order of EventFeed.  SseClient is the client that keeps it.             *)
(***************************************************************************)
EXTENDS Naturals, Sequences

CONSTANTS
  MaxEvents,   \* bound: how many events the server publishes
  Typed        \* the events that are sent with an "event:" line

VARIABLES
  published,     \* the number of events the server has published
  lastEventId,   \* lastEventId, 0 when there is none
  dispatched     \* the events passed to onEvent

Events == 1..MaxEvents

\* Type 0 stands for the default, "message"; id 0 for none.
Event(e) == [id |-> e, type |-> IF e \in Typed THEN e ELSE 0, data |-> <<e>>]

\* What onEvent gets is what the server wrote: id, type and data of one event,
\* wherever the network cuts the stream (the split of sse.ts:94-96).
ChunkingIsInvisible ==
  \A i \in DOMAIN dispatched : \E e \in Events : dispatched[i] = Event(e)

Calls == INSTANCE EventFeed WITH
           delivered <- [i \in DOMAIN dispatched |-> dispatched[i].id],
           fresh <- lastEventId = 0

\* The client keeps the promise the bridge relies on: in order, nothing twice,
\* and nothing passed over by a reconnect that could send Last-Event-ID.
ImplementsEventFeed == Calls!Spec
=============================================================================
