----------------------------- MODULE EditStore -----------------------------
(***************************************************************************)
(* What the local backend promises its clients (docs/local-client-api.md):   *)
(* a single store, whose contents can always be served.  A request that is   *)
(* answered with success is one accepted edit of one node, rule, room or     *)
(* server setting, the whole of it; one answered with an error changed       *)
(* nothing.  Edits of exposures make no such promise: the control server has *)
(* already acted when the backend stores and renders what it answered.       *)
(***************************************************************************)
EXTENDS PanelData

CONSTANTS InitData, Worker

VARIABLES
    store,   \* the contents clients see
    answer   \* the answer to the last request each handler took, if any yet

Acceptable(d) == Consistent(d) /\ Renderable(d)

Edit(d, e) ==
    \/ \E n \in Node : e = [d EXCEPT !.nodes[n] = e.nodes[n]]
    \/ \E i \in RuleId : e = [d EXCEPT !.rules[i] = e.rules[i]]
    \/ \E i \in RoomId : e = [d EXCEPT !.rooms[i] = e.rooms[i]]
    \/ e = [d EXCEPT !.server = e.server]

Init == store \in InitData /\ answer = [w \in Worker |-> "none"]

Take(w) == answer' = [answer EXCEPT ![w] = "none"] /\ UNCHANGED store

Accepted(w) ==
    /\ Edit(store, store')
    /\ Acceptable(store')
    /\ answer' = [answer EXCEPT ![w] = "ok"]

Refused(w) == answer' = [answer EXCEPT ![w] = "err"] /\ UNCHANGED store

Next == \E w \in Worker : Take(w) \/ Accepted(w) \/ Refused(w)

Spec == Init /\ [][Next]_<<store, answer>>
=============================================================================
