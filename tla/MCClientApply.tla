---------------------------- MODULE MCClientApply ----------------------------
(* Small instances of ClientApply for TLC: two nodes, two rule ids, and the  *)
(* node configurations that differ in server, token and allowed bindings.    *)
EXTENDS ClientApply, TLC

CONSTANTS a0, a1, r1, b1, x1

OpenNode == [addr |-> a0, token |-> TRUE, allow |-> Binding]
MovedNode == [addr |-> a1, token |-> TRUE, allow |-> {b1}]
NoTokenNode == [addr |-> a0, token |-> FALSE, allow |-> Binding]

AllConfigs == {OpenNode, MovedNode, NoTokenNode}
TwoConfigs == {OpenNode, NoTokenNode}
MovingConfigs == {OpenNode, MovedNode}

Fresh ==
    [nodes     |-> [n \in Node |-> IF n = DefaultNode THEN OpenNode ELSE None],
     rules     |-> [i \in RuleId |-> None],
     rooms     |-> [i \in RoomId |-> None],
     server    |-> "none",
     device    |-> None,
     exposures |-> {}]

\* One enabled rule on the default node, and every other node unused.
OneRule ==
    [Fresh EXCEPT
        !.nodes = [n \in Node |-> OpenNode],
        !.rules = [i \in RuleId |->
                     IF i = r1 THEN [node |-> DefaultNode, binding |-> b1, enabled |-> TRUE]
                     ELSE None]]

\* A client that has also joined a group of a control server.
Joined(d) == [d EXCEPT !.server = "control", !.device = x1]

DirectData == {Fresh, OneRule}
JoinedData == {Joined(Fresh), Joined(OneRule)}
FreshData == {Fresh}
OneRuleData == {OneRule}

WorkerSymmetry == Permutations(Worker)
=============================================================================
