-------------------------- MODULE MCCommandTargets --------------------------
(* Two workspaces with a channel of the same name in each, two automations   *)
(* with one slug, two accounts, and files of which two fit into a message.   *)
EXTENDS CommandTargets, TLC

CONSTANTS ann, ben, w1, w2, c1, c2, c3, d1, d2, p, q, general, random, otter, f, h

MCWsOf == (c1 :> w1) @@ (c2 :> w1) @@ (c3 :> w2) @@ (d1 :> w1) @@ (d2 :> w2)
MCSlugOf == [d \in {d1, d2} |-> otter]
MCBirth == (c1 :> 1) @@ (c2 :> 2) @@ (c3 :> 0)

MCLabel == (c1 :> general) @@ (c2 :> random) @@ (c3 :> general) @@ MCSlugOf

\* Account ann sees both workspaces, ben one or none of them; c2 may be archived.
MCStartWorlds ==
  {[label |-> MCLabel, there |-> there, sees |-> (ann :> {w1, w2}) @@ (ben :> s)] :
     there \in {Targets, Targets \ {c2}}, s \in {{w2}, {}}}

Nobody == [names |-> {}, ids |-> {}, email |-> None]

Line(op, account, ref, ws) ==
  [op |-> op, account |-> account, ref |-> ref, scope |-> ws, files |-> <<>>,
   empty |-> FALSE, basic |-> TRUE, to |-> Nobody]

Reads == {Line("read", ann, general, ws) : ws \in Scopes}
         \cup {Line("read", ben, general, ws) : ws \in {None, w2}}
         \cup {Line("read", ann, c1, None)}

Sends == {Line("send", x, general, ws) : x \in {ann, ben}, ws \in {None, w1}}
         \cup {Line("send", ann, c1, None)}
         \cup {[Line("send", ben, general, w2) EXCEPT !.files = <<f, h>>, !.empty = TRUE]}
         \cup {[Line("send", ann, c1, None) EXCEPT !.empty = TRUE]}

Dms == {[Line("dm", ann, None, None) EXCEPT !.to = to] :
          to \in {Nobody,
                  [Nobody EXCEPT !.email = p],
                  [Nobody EXCEPT !.names = {p}, !.ids = {q}],
                  [Nobody EXCEPT !.names = {p}, !.email = q]}}
       \cup {[Line("dm", ann, None, None) EXCEPT !.to = [Nobody EXCEPT !.ids = {q}],
                                              !.files = <<f>>]}

Changes == {Line(op, ann, c1, None) : op \in {"archive", "remove", "add"}}
           \cup {Line("create", ben, general, w1)}

Verbs == {Line(op, ann, otter, ws) : op \in {"update", "delete"}, ws \in {None, w1}}
         \cup {Line("delete", ben, otter, None)}
         \cup {Line("pause", ann, d1, None)}

MCRequests == Reads \cup Sends \cup Dms \cup Changes \cup Verbs

=============================================================================
