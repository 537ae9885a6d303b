----------------------------- MODULE PanelData -----------------------------
(***************************************************************************)
(* What the local backend stores (internal/client/models.go) and the pure   *)
(* functions of it in internal/client/service.go: validation of port and    *)
(* room rules, and rendering into one frpc config per active key.           *)
(*                                                                         *)
(* Values are abstracted to what the rules tell apart: a Binding is a        *)
(* (protocol, remote port) or (http, domain) pair, a Bind a visitor's local  *)
(* (address, port), and a node's allow set says which bindings its port      *)
(* ranges and web domain admit.                                              *)
(***************************************************************************)

CONSTANTS
    Node,         \* frps node ids
    DefaultNode,  \* DefaultNodeID, also the process key of legacy mode
    Addr,         \* frps server addresses
    RuleId,       \* port rule ids
    Binding,      \* what a port rule claims on its node
    WebBinding,   \* the bindings that are http domains
    RoomId,       \* room rule ids, also the keys of their frpc processes
    Bind,         \* local addresses room visitors listen on
    Exposure,     \* legacy control-plane exposures cached by the client
    Device,       \* group devices the client may become by joining a group
    None          \* no value: an absent map entry, file or process

Key == Node \union RoomId

Opt(S) == S \union {None}

Server == (Addr \union {"none", "frps", "control", "room", "torn"}) \X BOOLEAN

\* The metadata of an exposure's proxy carry the token of the device.
Proxy == ({"rule"} \X RuleId \X Binding)
         \union ({"room"} \X RoomId) \union ({"exposure"} \X Exposure \X Opt(Device))

NodeRecord == [addr : Addr, token : BOOLEAN, allow : SUBSET Binding]

PortRule == [node : Node, binding : Binding, enabled : BOOLEAN]

RoomRule == [role : {"host", "visitor"}, bind : Bind, enabled : BOOLEAN]

Data == [nodes     : [Node -> Opt(NodeRecord)],
         rules     : [RuleId -> Opt(PortRule)],
         rooms     : [RoomId -> Opt(RoomRule)],
         server    : {"none", "control", "frps"},
         device    : Opt(Device),
         exposures : SUBSET Exposure]

\* A rendered frpc config: the server and its credentials, the group device frpc
\* logs in as, and the proxies.  The restart key is the server part and the
\* admin port; it leaves the login out.
Config == [server : Server, login : Opt(Device), proxies : SUBSET Proxy]

\* A file whose write failed after truncating it; frpc cannot load it.
Torn == [server |-> <<"torn", FALSE>>, login |-> None, proxies |-> {}]

\* A managed frpc: the restart key the manager recorded, the server and the
\* device it logged in to and as when it started, and the proxies it last loaded
\* from its file.
Process == [restartKey : Server, server : Server, login : Opt(Device), proxies : SUBSET Proxy]

ASSUME DataAssumption ==
    /\ DefaultNode \in Node
    /\ Node \intersect RoomId = {}
    /\ WebBinding \subseteq Binding
    /\ "torn" \notin Addr
    /\ None \notin Device
    /\ None \notin NodeRecord \union PortRule \union RoomRule
                   \union Config \union Process

-----------------------------------------------------------------------------
(* Validation and rendering, pure functions of a data value.               *)

Present(f) == {x \in DOMAIN f : f[x] # None}

EnabledRules(d) == {i \in Present(d.rules) : d.rules[i].enabled}

EnabledRooms(d) == {i \in Present(d.rooms) : d.rooms[i].enabled}

\* The duplicate test covers disabled rules too.
ValidPortRule(d, id, rule) ==
    /\ d.nodes[rule.node] # None
    /\ d.nodes[rule.node].token
    /\ rule.binding \in d.nodes[rule.node].allow
    /\ \A other \in Present(d.rules) \ {id} :
           ~ (/\ d.rules[other].node = rule.node
              /\ d.rules[other].binding = rule.binding)

ValidRoomRule(d, id, room) ==
    room.role = "visitor" /\ room.enabled =>
        \A other \in EnabledRooms(d) \ {id} :
            ~ (d.rooms[other].role = "visitor" /\ d.rooms[other].bind = room.bind)

EnabledRuleUsesNode(d, n) == \E i \in EnabledRules(d) : d.rules[i].node = n

UsesDirectMode(d) ==
    \/ Present(d.rules) # {} \/ Present(d.rooms) # {}
    \/ d.device = None /\ d.server = "none"

ActiveNodes(d) == {d.rules[i].node : i \in EnabledRules(d)}

\* With nothing enabled the default node still gets a config of its own; in
\* legacy mode the single config has the default node's key and file too.
ActiveKeys(d) ==
    IF UsesDirectMode(d) /\ (EnabledRules(d) # {} \/ EnabledRooms(d) # {})
    THEN ActiveNodes(d) \union EnabledRooms(d)
    ELSE {DefaultNode}

Renderable(d) ==
    UsesDirectMode(d) =>
        /\ \A i \in EnabledRules(d) : ValidPortRule(d, i, d.rules[i])
        /\ \A i \in EnabledRooms(d) : ValidRoomRule(d, i, d.rooms[i])
        /\ EnabledRules(d) = {} /\ EnabledRooms(d) = {} => d.nodes[DefaultNode] # None

\* One frpc for everything the control server allocated.
LegacyConfig(d) ==
    [server  |-> <<d.server, TRUE>>,
     login   |-> d.device,
     proxies |-> {<<"exposure", e, d.device>> : e \in d.exposures}]

\* Logs in as the device of the room, which is the rule's for good.
RoomConfig(k) ==
    [server |-> <<"room", TRUE>>, login |-> None, proxies |-> {<<"room", k>>}]

DirectConfig(d, n) ==
    [server  |-> <<d.nodes[n].addr, d.nodes[n].token>>,
     login   |-> None,
     proxies |-> {<<"rule", i, d.rules[i].binding>> :
                      i \in {j \in EnabledRules(d) : d.rules[j].node = n}}]

RenderKey(d, k) ==
    IF ~ UsesDirectMode(d) THEN LegacyConfig(d)
    ELSE IF k \in RoomId THEN RoomConfig(k)
    ELSE DirectConfig(d, k)

Render(d) == [k \in Key |-> IF k \in ActiveKeys(d) THEN RenderKey(d, k) ELSE None]

\* The frpc processes a backend has started from data d: one per config.
Serving(d) ==
    [k \in Key |-> IF k \in ActiveKeys(d)
                   THEN [restartKey |-> RenderKey(d, k).server,
                         server     |-> RenderKey(d, k).server,
                         login      |-> RenderKey(d, k).login,
                         proxies    |-> RenderKey(d, k).proxies]
                   ELSE None]

\* A process p of key k serves d: it is there exactly if d has a config for k, on
\* the server and with the proxies of that config.
Serves(p, d, k) ==
    IF k \in ActiveKeys(d)
    THEN /\ p # None
         /\ p.restartKey = RenderKey(d, k).server
         /\ p.server = RenderKey(d, k).server
         /\ p.proxies = RenderKey(d, k).proxies
    ELSE p = None

-----------------------------------------------------------------------------
(* What every stored value must satisfy (docs/local-client-api.md, "Errors  *)
(* and Validation" and DELETE /v1/nodes).                                   *)

RulesHaveNodes(d) == \A i \in Present(d.rules) : d.nodes[d.rules[i].node] # None

BindingsUnique(d) ==
    \A i, j \in Present(d.rules) :
        /\ d.rules[i].node = d.rules[j].node
        /\ d.rules[i].binding = d.rules[j].binding
        => i = j

VisitorBindsUnique(d) ==
    \A i, j \in EnabledRooms(d) :
        /\ d.rooms[i].role = "visitor" /\ d.rooms[j].role = "visitor"
        /\ d.rooms[i].bind = d.rooms[j].bind
        => i = j

Consistent(d) ==
    /\ d.nodes[DefaultNode] # None
    /\ RulesHaveNodes(d)
    /\ BindingsUnique(d)
    /\ VisitorBindsUnique(d)

=============================================================================
