----------------------------- MODULE EventFeed -----------------------------
(***************************************************************************)
(* What the bridge (src/bridge/bridge.ts) expects of its event stream: the *)
(* events the server publishes reach onEvent in their order, none twice,   *)
(* and none is passed over except when the client starts afresh, not       *)
(* knowing an event to resume after.  SseClient implements it, AgentBridge *)
(* is built on it.  Events are numbered as the server publishes them.      *)
(***************************************************************************)
EXTENDS Naturals, Sequences

VARIABLES
  published,   \* the number of events the server has published
  delivered,   \* the events passed to onEvent, in the order of the calls
  fresh        \* the client has no event to resume after

vars == <<published, delivered, fresh>>

Last == IF delivered = <<>> THEN 0 ELSE delivered[Len(delivered)]

Init == /\ published = 0
        /\ delivered = <<>>
        /\ fresh = TRUE

Publish == /\ published' = published + 1
           /\ UNCHANGED <<delivered, fresh>>

Deliver(e) == /\ e \in (Last + 1)..published
              /\ fresh \/ e = Last + 1
              /\ delivered' = Append(delivered, e)
              /\ fresh' = FALSE
              /\ UNCHANGED published

\* The client's process dies and is started again.
Restart == /\ fresh' = TRUE
           /\ UNCHANGED <<published, delivered>>

Next == \/ Publish
        \/ \E e \in 1..published : Deliver(e)
        \/ Restart

Spec == Init /\ [][Next]_vars
=============================================================================
