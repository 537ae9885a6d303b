---------------------------- MODULE ControlServer ----------------------------
(***************************************************************************)
(* The public control server (internal/control/service.go, plugin.go): the   *)
(* registry of groups, devices, frps nodes, exposures, access routes, rooms  *)
(* and room devices, and the decisions it takes for frps about rooms.        *)
(*                                                                         *)
(* A handler is at most two critical sections of the store: one checks the   *)
(* credentials and stamps the device, a second one does the work.  Handlers   *)
(* interleave between the two.  UpdateRoom also reads the live room devices  *)
(* after its second section.  Tokens are right: a wrong one is refused and   *)
(* changes nothing.  Room mode is configured (the server has a frps address). *)
(***************************************************************************)
EXTENDS Naturals

CONSTANTS
    Group, Device, Node, Exposure, Route, Room, Member,   \* ids
    Port, Domain,   \* what public exposures claim on a node
    NodeConfig,     \* the node configurations administrators submit
    Worker,         \* HTTP handler goroutines that may be in flight at once
    Faults,         \* the failures the environment may inject
    MaxRequests,    \* bound on the number of requests of a behaviour
    None            \* no value: an absent map entry or an empty field

Opt(S) == S \union {None}

NodeRecord == [ports : SUBSET Port, domains : SUBSET Domain]

\* A public exposure keeps the port and the domain it was sent, whichever of
\* the two its protocol uses; a private one has neither, and no node.
ExposureRecord == [group : Group, device : Device, node : Opt(Node),
                   protocol : {"xtcp", "tcp", "http"},
                   port : Opt(Port), domain : Opt(Domain), enabled : BOOLEAN]

RouteRecord == [group : Group, device : Device, exposure : Exposure]

RoomRecord == [host : Member, enabled : BOOLEAN]

MemberRecord == [room : Room, role : {"host", "visitor"}]

Data == [groups    : SUBSET Group,
         devices   : [Device -> Opt(Group)],
         nodes     : [Node -> Opt(NodeRecord)],
         exposures : [Exposure -> Opt(ExposureRecord)],
         routes    : [Route -> Opt(RouteRecord)],
         rooms     : [Room -> Opt(RoomRecord)],
         members   : [Member -> Opt(MemberRecord)]]

\* Requests of a device that joined a group, and of a device of a room; auth
\* is the room the credentials are for, room the one the request is about.
DeviceOp ==
    [kind : {"createPrivate"}, group : Group, device : Device]
    \union [kind : {"createPublic"}, group : Group, device : Device, node : Node,
            protocol : {"tcp", "http"}, port : Opt(Port), domain : Opt(Domain)]
    \union [kind : {"updateExposure"}, group : Group, device : Device,
            exposure : Exposure, enabled : BOOLEAN]
    \union [kind : {"deleteExposure", "createRoute"}, group : Group, device : Device,
            exposure : Exposure]

RoomOp ==
    [kind : {"deleteRoom", "newProxy"}, auth : Room, member : Member, room : Room]
    \union [kind : {"updateRoom"}, auth : Room, member : Member, room : Room,
            enabled : BOOLEAN]

Op == DeviceOp \union RoomOp

ASSUME RegistryAssumption ==
    /\ NodeConfig \subseteq NodeRecord
    /\ None \notin Group \union Node \union Port \union Domain \union NodeRecord
                   \union ExposureRecord \union RouteRecord \union RoomRecord
                   \union MemberRecord \union Op
    /\ Faults \subseteq {"save", "crash"}
    /\ MaxRequests \in Nat

VARIABLES
    mem,     \* the store's data in memory
    disk,    \* server.json
    issued,  \* the random ids handed out so far
    req,     \* the request each worker is handling
    served   \* requests begun so far

vars == <<mem, disk, issued, req, served>>

Ids == Device \union Exposure \union Route \union Room \union Member \union Node

Requests == [pc : {"idle", "authed", "view"}, op : Opt(Op), res : {"none", "ok", "err"}]

Idle(res) == [pc |-> "idle", op |-> None, res |-> res]

Empty == [groups    |-> {},
          devices   |-> [x \in Device |-> None],
          nodes     |-> [x \in Node |-> None],
          exposures |-> [x \in Exposure |-> None],
          routes    |-> [x \in Route |-> None],
          rooms     |-> [x \in Room |-> None],
          members   |-> [x \in Member |-> None]]

Init ==
    /\ mem = Empty /\ disk = Empty
    /\ issued = {}
    /\ req = [w \in Worker |-> Idle("none")]
    /\ served = 0

Present(f) == {x \in DOMAIN f : f[x] # None}

-----------------------------------------------------------------------------
(* The store: Update mutates memory first, so a failed save leaves it ahead; *)
(* a later save that succeeds writes all of it.                             *)

Saved(d) == mem' = d /\ disk' = d

SaveFails(d) == "save" \in Faults /\ mem' = d /\ UNCHANGED disk

Accept(w) == req[w].pc = "idle" /\ served < MaxRequests /\ served' = served + 1

Answer(w, res) == req' = [req EXCEPT ![w] = Idle(res)]

\* Mutant of UpdateThenAnswer: the error of a failed save is dropped.
UpdateAnswersOk(w, d) == (Saved(d) \/ SaveFails(d)) /\ Answer(w, "ok")

\* The last section of a handler whose store edit is d.
UpdateThenAnswer(w, d) ==
    \/ Saved(d) /\ Answer(w, "ok")
    \/ SaveFails(d) /\ Answer(w, "err")

Issue(ids) == ids \intersect issued = {} /\ issued' = issued \union ids

-----------------------------------------------------------------------------
(* Handlers that are one critical section.                                  *)

CreateGroup(w) ==
    /\ Accept(w)
    /\ \E g \in Group \ mem.groups :
           UpdateThenAnswer(w, [mem EXCEPT !.groups = @ \union {g}])
    /\ UNCHANGED issued

JoinGroup(w) ==
    /\ Accept(w)
    /\ \E g \in mem.groups, d \in Device :
           /\ Issue({d})
           /\ UpdateThenAnswer(w, [mem EXCEPT !.devices[d] = g])

CreateNode(w) ==
    /\ Accept(w)
    /\ \E n \in Node, config \in NodeConfig :
           /\ Issue({n})
           /\ UpdateThenAnswer(w, [mem EXCEPT !.nodes[n] = config])

DeleteNode(w) ==
    /\ Accept(w)
    /\ \E n \in Present(mem.nodes) :
           /\ \A e \in Present(mem.exposures) : mem.exposures[e].node # n
           /\ UpdateThenAnswer(w, [mem EXCEPT !.nodes[n] = None])
    /\ UNCHANGED issued

CreateRoom(w) ==
    /\ Accept(w)
    /\ \E r \in Room, m \in Member :
           /\ Issue({r, m})
           /\ UpdateThenAnswer(w,
                [mem EXCEPT !.rooms[r] = [host |-> m, enabled |-> TRUE],
                            !.members[m] = [room |-> r, role |-> "host"]])

\* Mutant of JoinRoom: any room code that was ever valid is good enough.
JoinRoomUnchecked(w) ==
    /\ Accept(w)
    /\ \E r \in Room \intersect issued, m \in Member :
           /\ Issue({m})
           /\ UpdateThenAnswer(w, [mem EXCEPT !.members[m] = [room |-> r, role |-> "visitor"]])

JoinRoom(w) ==
    /\ Accept(w)
    /\ \E r \in Present(mem.rooms), m \in Member :
           /\ mem.rooms[r].enabled
           /\ Issue({m})
           /\ UpdateThenAnswer(w, [mem EXCEPT !.members[m] = [room |-> r, role |-> "visitor"]])

-----------------------------------------------------------------------------
(* The first section of the other handlers: validateDevice and               *)
(* validateRoomDevice stamp the device and save, which writes whatever an    *)
(* earlier failed save left in memory only.                                 *)

ValidDevice(op) == mem.devices[op.device] = op.group

\* A disabled room still accepts its host.
ValidMember(auth, member, roles) ==
    /\ mem.rooms[auth] # None
    /\ mem.rooms[auth].enabled \/ roles = {"host"}
    /\ mem.members[member] # None
    /\ mem.members[member].room = auth
    /\ mem.members[member].role \in roles

Authenticate(w) ==
    /\ Accept(w)
    /\ \E op \in Op :
           /\ op \in DeviceOp => ValidDevice(op)
           /\ op \in RoomOp => ValidMember(op.auth, op.member, {"host"})
           /\ \/ /\ Saved(mem)
                 /\ req' = [req EXCEPT ![w] = [pc |-> "authed", op |-> op, res |-> "none"]]
              \/ SaveFails(mem) /\ Answer(w, "err")
    /\ UNCHANGED issued

\* The plugin's Login and NewUserConn for a room: credentials are all it checks.
RoomLogin(w) ==
    /\ Accept(w)
    /\ \E auth \in Room, member \in Member :
           ValidMember(auth, member, {"host", "visitor"})
    /\ UpdateThenAnswer(w, mem)
    /\ UNCHANGED issued

-----------------------------------------------------------------------------
(* The second section.  What the first one saw may be gone.                 *)

Authed(w, kind) == req[w].pc = "authed" /\ req[w].op.kind = kind /\ UNCHANGED served

Refuse(w) == Answer(w, "err") /\ UNCHANGED <<mem, disk, issued>>

\* Mutant of CreatePrivateExposure: the device of the request is not filled in.
CreatePrivateUnowned(w) ==
    LET op == req[w].op IN
    /\ Authed(w, "createPrivate")
    /\ \E e \in Exposure :
           /\ Issue({e})
           /\ UpdateThenAnswer(w, [mem EXCEPT !.exposures[e] =
                  [group |-> op.group, device |-> None, node |-> None,
                   protocol |-> "xtcp", port |-> None, domain |-> None, enabled |-> TRUE]])

CreatePrivateExposure(w) ==
    LET op == req[w].op IN
    /\ Authed(w, "createPrivate")
    /\ \E e \in Exposure :
           /\ Issue({e})
           /\ UpdateThenAnswer(w, [mem EXCEPT !.exposures[e] =
                  [group |-> op.group, device |-> op.device, node |-> None,
                   protocol |-> "xtcp", port |-> None, domain |-> None, enabled |-> TRUE]])

PortInUse(node, protocol, port) ==
    \E e \in Present(mem.exposures) :
        /\ mem.exposures[e].node = node
        /\ mem.exposures[e].protocol = protocol
        /\ mem.exposures[e].port = port

DomainInUse(node, domain) ==
    \E e \in Present(mem.exposures) :
        mem.exposures[e].node = node /\ mem.exposures[e].domain = domain

\* Mutant of Allocatable: a port is compared with those of the same device only.
AllocatablePerDevice(op) ==
    /\ mem.nodes[op.node] # None
    /\ op.protocol = "tcp" =>
          /\ op.port \in mem.nodes[op.node].ports
          /\ ~ \E e \in Present(mem.exposures) :
                 mem.exposures[e].device = op.device /\ mem.exposures[e].port = op.port
    /\ op.protocol = "http" =>
          /\ op.domain \in mem.nodes[op.node].domains
          /\ ~ DomainInUse(op.node, op.domain)

Allocatable(op) ==
    /\ mem.nodes[op.node] # None
    /\ op.protocol = "tcp" =>
          /\ op.port \in mem.nodes[op.node].ports
          /\ ~ PortInUse(op.node, op.protocol, op.port)
    /\ op.protocol = "http" =>
          /\ op.domain \in mem.nodes[op.node].domains
          /\ ~ DomainInUse(op.node, op.domain)

CreatePublicExposure(w) ==
    LET op == req[w].op IN
    /\ Authed(w, "createPublic")
    /\ \/ ~ Allocatable(op) /\ Refuse(w)
       \/ /\ Allocatable(op)
          /\ \E e \in Exposure :
                 /\ Issue({e})
                 /\ UpdateThenAnswer(w, [mem EXCEPT !.exposures[e] =
                        [group |-> op.group, device |-> op.device, node |-> op.node,
                         protocol |-> op.protocol, port |-> op.port,
                         domain |-> op.domain, enabled |-> TRUE]])

Owned(op) ==
    /\ mem.exposures[op.exposure] # None
    /\ mem.exposures[op.exposure].group = op.group
    /\ mem.exposures[op.exposure].device = op.device

\* Mutant of UpdateExposure: an exposure that is gone is put back.
UpdateExposureUnchecked(w) ==
    LET op == req[w].op
        new == [group |-> op.group, device |-> op.device, node |-> None,
                protocol |-> "xtcp", port |-> None, domain |-> None, enabled |-> op.enabled]
    IN
    /\ Authed(w, "updateExposure")
    /\ UpdateThenAnswer(w, [mem EXCEPT !.exposures[op.exposure] = new])
    /\ UNCHANGED issued

UpdateExposure(w) ==
    LET op == req[w].op IN
    /\ Authed(w, "updateExposure")
    /\ \/ ~ Owned(op) /\ Refuse(w)
       \/ /\ Owned(op)
          /\ UpdateThenAnswer(w, [mem EXCEPT !.exposures[op.exposure].enabled = op.enabled])
          /\ UNCHANGED issued

\* Mutant of DeleteExposure: its access routes stay.
DeleteExposureOnly(w) ==
    LET op == req[w].op IN
    /\ Authed(w, "deleteExposure")
    /\ \/ ~ Owned(op) /\ Refuse(w)
       \/ /\ Owned(op)
          /\ UpdateThenAnswer(w, [mem EXCEPT !.exposures[op.exposure] = None])
          /\ UNCHANGED issued

DeleteExposure(w) ==
    LET op == req[w].op
        kept(route) == route # None /\ route.exposure # op.exposure
    IN
    /\ Authed(w, "deleteExposure")
    /\ \/ ~ Owned(op) /\ Refuse(w)
       \/ /\ Owned(op)
          /\ UpdateThenAnswer(w,
                [mem EXCEPT !.exposures[op.exposure] = None,
                            !.routes = [x \in Route |->
                                IF kept(mem.routes[x]) THEN mem.routes[x] ELSE None]])
          /\ UNCHANGED issued

CreateAccessRoute(w) ==
    LET op == req[w].op
        visible == /\ mem.exposures[op.exposure] # None
                   /\ mem.exposures[op.exposure].group = op.group
    IN
    /\ Authed(w, "createRoute")
    /\ \/ ~ visible /\ Refuse(w)
       \/ /\ visible
          /\ \E x \in Route :
                 /\ Issue({x})
                 /\ UpdateThenAnswer(w, [mem EXCEPT !.routes[x] =
                        [group |-> op.group, device |-> op.device, exposure |-> op.exposure]])

\* Mutant of UpdateRoom: it stores the room it authenticated, not looking
\* whether it is still there.
UpdateRoomUnchecked(w) ==
    LET op == req[w].op
        new == [mem EXCEPT !.rooms[op.room] = [host |-> op.member, enabled |-> op.enabled]]
    IN
    /\ Authed(w, "updateRoom")
    /\ \/ op.room # op.auth /\ Refuse(w)
       \/ /\ op.room = op.auth
          /\ Saved(new) /\ req' = [req EXCEPT ![w].pc = "view"]
          /\ UNCHANGED issued

\* On success the answer is still to be built, from the live room devices.
UpdateRoom(w) ==
    LET op == req[w].op
        manages == mem.rooms[op.room] # None /\ op.room = op.auth
        new == [mem EXCEPT !.rooms[op.room].enabled = op.enabled]
    IN
    /\ Authed(w, "updateRoom")
    /\ \/ ~ manages /\ Refuse(w)
       \/ /\ manages
          /\ \/ Saved(new) /\ req' = [req EXCEPT ![w] = [@ EXCEPT !.pc = "view"]]
             \/ SaveFails(new) /\ Answer(w, "err")
          /\ UNCHANGED issued

\* toRoomView counts the devices of the room without the store's lock.
ViewRoom(w) ==
    /\ req[w].pc = "view"
    /\ Answer(w, "ok")
    /\ UNCHANGED <<mem, disk, issued, served>>

\* Mutant of DeleteRoom: any host's credentials will do.
DeleteRoomAnyHost(w) ==
    LET op == req[w].op
        kept(member) == member # None /\ member.room # op.room
    IN
    /\ Authed(w, "deleteRoom")
    /\ \/ mem.rooms[op.room] = None /\ Refuse(w)
       \/ /\ mem.rooms[op.room] # None
          /\ UpdateThenAnswer(w,
                [mem EXCEPT !.rooms[op.room] = None,
                            !.members = [m \in Member |->
                                IF kept(mem.members[m]) THEN mem.members[m] ELSE None]])
          /\ UNCHANGED issued

DeleteRoom(w) ==
    LET op == req[w].op
        manages == mem.rooms[op.room] # None /\ op.room = op.auth
        kept(member) == member # None /\ member.room # op.room
    IN
    /\ Authed(w, "deleteRoom")
    /\ \/ ~ manages /\ Refuse(w)
       \/ /\ manages
          /\ UpdateThenAnswer(w,
                [mem EXCEPT !.rooms[op.room] = None,
                            !.members = [m \in Member |->
                                IF kept(mem.members[m]) THEN mem.members[m] ELSE None]])
          /\ UNCHANGED issued

\* Mutant of NewProxy: whether the room is enabled is not looked at again.
NewProxyAnyRoom(w) ==
    LET op == req[w].op IN
    /\ Authed(w, "newProxy")
    /\ Answer(w, IF mem.rooms[op.auth] # None /\ op.room = op.auth THEN "ok" ELSE "err")
    /\ UNCHANGED <<mem, disk, issued>>

\* The plugin's NewProxy for a room; room is whose server name the proxy bears.
NewProxy(w) ==
    LET op == req[w].op
        granted == /\ mem.rooms[op.auth] # None
                   /\ mem.rooms[op.auth].enabled
                   /\ op.room = op.auth
    IN
    /\ Authed(w, "newProxy")
    /\ Answer(w, IF granted THEN "ok" ELSE "err")
    /\ UNCHANGED <<mem, disk, issued>>

\* What frps asks about a proxy of an exposure.
Proxy == [type : {"xtcp", "tcp", "http"}, port : Opt(Port), domains : SUBSET Domain]

\* The plugin's NewUserConn for an exposure, private or public: nothing else is
\* compared.
UserConnGranted(e) == mem.exposures[e] # None /\ mem.exposures[e].enabled

\* Mutant of ProxyGranted: the port is not compared.
ProxyGrantedAnyPort(e, proxy) ==
    LET exposure == mem.exposures[e] IN
    /\ UserConnGranted(e)
    /\ exposure.node # None => /\ exposure.protocol = proxy.type
                               /\ exposure.domain # None => exposure.domain \in proxy.domains

\* The plugin's NewProxy for an exposure reads one snapshot and changes nothing;
\* the owner named in the metadata is right.  A private exposure, which has no
\* node, is granted a proxy of any type, port and domains.
ProxyGranted(e, proxy) ==
    LET exposure == mem.exposures[e] IN
    /\ UserConnGranted(e)
    /\ exposure.node # None => /\ exposure.protocol = proxy.type
                               /\ exposure.port # None => exposure.port = proxy.port
                               /\ exposure.domain # None => exposure.domain \in proxy.domains

-----------------------------------------------------------------------------
(* The environment.                                                         *)

\* Go aborts a program that iterates a map while another goroutine writes it:
\* ViewRoom iterates, and every other handler of rooms writes room devices.
MapRace == \E v, w \in Worker : v # w /\ req[w].pc = "view"

\* The server dies and is started again.
Restart ==
    /\ "crash" \in Faults \/ MapRace
    /\ served < MaxRequests
    /\ served' = served + 1
    /\ Saved(disk)
    /\ req' = [w \in Worker |-> Idle("none")]
    /\ UNCHANGED issued

-----------------------------------------------------------------------------

Handle(w) ==
    \/ CreateGroup(w) \/ JoinGroup(w) \/ CreateNode(w) \/ DeleteNode(w)
    \/ CreateRoom(w) \/ JoinRoom(w) \/ RoomLogin(w) \/ Authenticate(w)
    \/ CreatePrivateExposure(w) \/ CreatePublicExposure(w)
    \/ UpdateExposure(w) \/ DeleteExposure(w) \/ CreateAccessRoute(w)
    \/ UpdateRoom(w) \/ ViewRoom(w) \/ DeleteRoom(w) \/ NewProxy(w)

Next == (\E w \in Worker : Handle(w)) \/ Restart

Spec == Init /\ [][Next]_vars

-----------------------------------------------------------------------------
(* Properties.                                                              *)

\* Types of the registry and of the requests in flight.
TypeOK ==
    /\ mem \in Data
    /\ disk \in Data
    /\ issued \subseteq Ids
    /\ req \in [Worker -> Requests]
    /\ served \in 0..MaxRequests

\* On one node no two exposures hold the same port of a protocol, nor the same
\* domain.
ClaimsUnique(d) ==
    \A e, f \in Present(d.exposures) :
        LET x == d.exposures[e]
            y == d.exposures[f]
        IN  x.node = y.node /\ x.protocol = y.protocol
            /\ \/ x.protocol = "tcp" /\ x.port = y.port
               \/ x.protocol = "http" /\ x.domain = y.domain
            => e = f

ReferencesLive(d) ==
    /\ \A x \in Present(d.devices) : d.devices[x] \in d.groups
    /\ \A e \in Present(d.exposures) :
          /\ d.devices[d.exposures[e].device] = d.exposures[e].group
          /\ d.exposures[e].node # None => d.nodes[d.exposures[e].node] # None
    /\ \A x \in Present(d.routes) :
          LET e == d.exposures[d.routes[x].exposure]
          IN  e # None /\ e.group = d.routes[x].group

\* Every room has its host, and every room device is of a room that exists.
RoomsHosted(d) ==
    /\ \A r \in Present(d.rooms) :
          d.members[d.rooms[r].host] = [room |-> r, role |-> "host"]
    /\ \A m \in Present(d.members) :
          /\ d.rooms[d.members[m].room] # None
          /\ d.members[m].role = "host" => d.rooms[d.members[m].room].host = m

Consistent(d) == ClaimsUnique(d) /\ ReferencesLive(d) /\ RoomsHosted(d)

\* In memory and in server.json, through failed saves, crashes and handlers
\* whose credentials were checked before the data changed: no port or domain
\* is allocated twice, nothing refers to what was deleted, and no device of a
\* deleted room is left.
RegistryConsistent == Consistent(mem) /\ Consistent(disk)

\* The port of a tcp proxy that frps is told to accept for a public exposure is one
\* its node hands out, and no other public exposure of the node would be granted it: a
\* handler that claims a port after its credentials were checked sees the claims,
\* and the node's deletion, of those that ran in between.
GrantsAreAllocated ==
    \A e \in Present(mem.exposures), proxy \in Proxy :
        LET node == mem.exposures[e].node IN
        node # None /\ proxy.type = "tcp" /\ ProxyGranted(e, proxy) =>
            /\ mem.nodes[node] # None /\ proxy.port \in mem.nodes[node].ports
            /\ \A f \in Present(mem.exposures) :
                  mem.exposures[f].node = node /\ ProxyGranted(f, proxy) => f = e

Performed(w) ==
    /\ req[w].pc = "authed" /\ req[w].op.kind # "newProxy"
    /\ req'[w].pc = "view" \/ req'[w].res = "ok"

\* A mutation answered with success is in server.json, with everything that
\* earlier failed saves had left in memory only.
AckedIsDurable == [][\A w \in Worker : Performed(w) => disk' = mem']_vars

\* A room or exposure that memory and server.json have both lost never returns:
\* neither a handler that authenticated before the delete nor a restart
\* brings it back.
GoneForGood ==
    [][/\ \A r \in Room \intersect issued :
             mem.rooms[r] = None /\ disk.rooms[r] = None => mem'.rooms[r] = None
       /\ \A e \in Exposure \intersect issued :
             mem.exposures[e] = None /\ disk.exposures[e] = None =>
                 mem'.exposures[e] = None]_vars

\* frps is told to accept a room's proxy only while the room is enabled and for
\* its host, whatever happened since the credentials were checked ("Disabling
\* a room makes future room authorization fail").
AcceptedIsHostOfEnabledRoom ==
    [][\A w \in Worker :
          req[w].pc = "authed" /\ req[w].op.kind = "newProxy" /\ req'[w].res = "ok" =>
              LET room == mem.rooms[req[w].op.room] IN
              room # None /\ room.enabled /\ room.host = req[w].op.member]_vars

Restarted == req' = [w \in Worker |-> Idle("none")]

\* Only the host manages a room (docs/client-server-rooms.md, PATCH).
OnlyHostManages ==
    [][\A r \in Present(mem.rooms) :
          mem'.rooms[r] # mem.rooms[r] =>
              \/ Restarted
              \/ \E w \in Worker : /\ req[w].pc = "authed"
                                   /\ req[w].op \in RoomOp
                                   /\ req[w].op.room = r
                                   /\ req[w].op.member = mem.rooms[r].host]_vars

=============================================================================
