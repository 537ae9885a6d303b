------------------------ MODULE ControlServerProofs ------------------------
(***************************************************************************)
(* The registry of the control server stays consistent for any number of    *)
(* handlers, devices, nodes, exposures and rooms, through failed saves and    *)
(* crashes.  Beside the registry the invariant keeps two things: ids in      *)
(* memory or on disk were issued, so a new id is new to both; and the device  *)
(* that a request authenticated stays registered until the request ends,     *)
(* although its work is another critical section.                           *)
(* The second half proves what the steps of the server may never do.         *)
(***************************************************************************)
EXTENDS ControlServer, TLAPS

IdsIssued(d, ids) ==
    /\ Present(d.devices) \subseteq ids
    /\ Present(d.exposures) \subseteq ids
    /\ Present(d.rooms) \subseteq ids
    /\ Present(d.members) \subseteq ids

\* A value the store may hold, in memory or on disk.
Sound(d, ids) == d \in Data /\ Consistent(d) /\ IdsIssued(d, ids)

\* What holds of the request a worker is handling while memory is d.
RequestOK(r, d) ==
    r.pc # "idle" => r.op \in Op /\ (r.op \in DeviceOp => d.devices[r.op.device] = r.op.group)

\* The inductive invariant.
IInv ==
    /\ TypeOK
    /\ Sound(mem, issued)
    /\ Sound(disk, issued)
    /\ \A w \in Worker : RequestOK(req[w], mem)

-----------------------------------------------------------------------------
(* The edits of the registry.                                               *)

\* A stored record is not the absent value.
LEMMA RecordsPresent ==
    /\ None \notin Group /\ None \notin Node /\ None \notin NodeRecord
    /\ None \notin ExposureRecord /\ None \notin RouteRecord
    /\ None \notin RoomRecord /\ None \notin MemberRecord /\ None \notin Op
    /\ NodeConfig \subseteq NodeRecord
BY RegistryAssumption

\* A new group refers to nothing and nothing referred to it.
LEMMA PutGroup ==
    ASSUME NEW d \in Data, Consistent(d), NEW g \in Group
    PROVE  LET e == [d EXCEPT !.groups = @ \union {g}] IN e \in Data /\ Consistent(e)
<1> DEFINE e == [d EXCEPT !.groups = @ \union {g}]
<1>1. e \in Data
  BY DEF Data
<1>2. /\ e.groups = d.groups \union {g} /\ e.devices = d.devices /\ e.nodes = d.nodes
      /\ e.exposures = d.exposures /\ e.routes = d.routes
      /\ e.rooms = d.rooms /\ e.members = d.members
  BY DEF Data
<1>3. Consistent(e)
  BY <1>2 DEF Consistent, ClaimsUnique, ReferencesLive, RoomsHosted
<1> QED BY <1>1, <1>3

\* A device that joins has no exposures yet.
LEMMA PutDevice ==
    ASSUME NEW d \in Data, Consistent(d), NEW x \in Device, NEW g \in d.groups,
           d.devices[x] = None
    PROVE  LET e == [d EXCEPT !.devices[x] = g] IN e \in Data /\ Consistent(e)
<1> DEFINE e == [d EXCEPT !.devices[x] = g]
<1>1. e \in Data /\ g \in Group
  BY DEF Data, Opt
<1>2. /\ e.groups = d.groups /\ e.devices = [d.devices EXCEPT ![x] = g] /\ e.nodes = d.nodes
      /\ e.exposures = d.exposures /\ e.routes = d.routes
      /\ e.rooms = d.rooms /\ e.members = d.members
  BY DEF Data
<1>3. \A y \in Device : e.devices[y] = IF y = x THEN g ELSE d.devices[y]
  BY <1>2 DEF Data
<1>4. \A f \in Present(d.exposures) : d.exposures[f] \in ExposureRecord
  BY DEF Present, Data, Opt
<1>5. \A f \in Present(d.exposures) : d.exposures[f].device # x
  BY <1>4, RecordsPresent DEF Consistent, ReferencesLive, ExposureRecord
<1>6. DOMAIN e.devices = Device /\ DOMAIN d.devices = Device
  BY <1>2 DEF Data
<1>7. ReferencesLive(e)
  <2>1. \A y \in Present(e.devices) : e.devices[y] \in e.groups
    BY <1>2, <1>3, <1>6 DEF Consistent, ReferencesLive, Present
  <2>2. \A f \in Present(e.exposures) :
          /\ e.devices[e.exposures[f].device] = e.exposures[f].group
          /\ e.exposures[f].node # None => e.nodes[e.exposures[f].node] # None
    BY <1>2, <1>3, <1>4, <1>5 DEF Consistent, ReferencesLive, ExposureRecord
  <2> QED BY <1>2, <2>1, <2>2 DEF Consistent, ReferencesLive
<1>8. Consistent(e)
  BY <1>2, <1>7 DEF Consistent, ClaimsUnique, RoomsHosted
<1> QED BY <1>1, <1>8

\* Adding a node, or deleting one that no exposure uses.
LEMMA PutNode ==
    ASSUME NEW d \in Data, Consistent(d), NEW n \in Node, NEW c \in Opt(NodeRecord),
           c = None => \A f \in Present(d.exposures) : d.exposures[f].node # n
    PROVE  LET e == [d EXCEPT !.nodes[n] = c] IN e \in Data /\ Consistent(e)
<1> DEFINE e == [d EXCEPT !.nodes[n] = c]
<1>1. e \in Data
  BY DEF Data
<1>2. /\ e.groups = d.groups /\ e.devices = d.devices
      /\ e.nodes = [d.nodes EXCEPT ![n] = c]
      /\ e.exposures = d.exposures /\ e.routes = d.routes
      /\ e.rooms = d.rooms /\ e.members = d.members
  BY DEF Data
<1>3. \A y \in Node : e.nodes[y] = IF y = n THEN c ELSE d.nodes[y]
  BY <1>2 DEF Data
<1>4. \A f \in Present(d.exposures) : d.exposures[f] \in ExposureRecord
  BY DEF Present, Data, Opt
<1>5. \A f \in Present(e.exposures) :
          /\ e.devices[e.exposures[f].device] = e.exposures[f].group
          /\ e.exposures[f].node # None => e.nodes[e.exposures[f].node] # None
  BY <1>2, <1>3, <1>4 DEF Consistent, ReferencesLive, ExposureRecord, Opt
<1>6. Consistent(e)
  BY <1>2, <1>5 DEF Consistent, ClaimsUnique, ReferencesLive, RoomsHosted
<1> QED BY <1>1, <1>6

\* A new exposure: its device and node are registered, and what it claims is
\* claimed by no other.
LEMMA PutExposure ==
    ASSUME NEW d \in Data, Consistent(d), NEW x \in Exposure, NEW c \in ExposureRecord,
           d.exposures[x] = None,
           d.devices[c.device] = c.group,
           c.node # None => d.nodes[c.node] # None,
           \A f \in Present(d.exposures) :
               d.exposures[f].node = c.node /\ d.exposures[f].protocol = c.protocol =>
                   /\ c.protocol = "tcp" => d.exposures[f].port # c.port
                   /\ c.protocol = "http" => d.exposures[f].domain # c.domain
    PROVE  LET e == [d EXCEPT !.exposures[x] = c] IN e \in Data /\ Consistent(e)
<1> DEFINE e == [d EXCEPT !.exposures[x] = c]
<1>1. e \in Data
  BY DEF Data, Opt
<1>2. /\ e.groups = d.groups /\ e.devices = d.devices /\ e.nodes = d.nodes
      /\ e.exposures = [d.exposures EXCEPT ![x] = c] /\ e.routes = d.routes
      /\ e.rooms = d.rooms /\ e.members = d.members
  BY DEF Data
<1>3. /\ \A y \in Exposure : e.exposures[y] = IF y = x THEN c ELSE d.exposures[y]
      /\ DOMAIN e.exposures = Exposure /\ DOMAIN d.exposures = Exposure
  BY <1>2 DEF Data
<1>4. \A f \in Present(e.exposures) : f \in Exposure /\ (f = x \/ f \in Present(d.exposures))
  BY <1>3 DEF Present
<1>5. ClaimsUnique(e)
  BY <1>3, <1>4 DEF Consistent, ClaimsUnique
<1>6. \A y \in Present(d.routes) :
          /\ d.routes[y].exposure \in Exposure
          /\ d.exposures[d.routes[y].exposure] # None
          /\ d.exposures[d.routes[y].exposure].group = d.routes[y].group
  BY DEF Consistent, ReferencesLive, Present, Data, Opt, RouteRecord
<1>7. ReferencesLive(e)
  <2>1. \A y \in Present(e.devices) : e.devices[y] \in e.groups
    BY <1>2 DEF Consistent, ReferencesLive
  <2>2. \A f \in Present(e.exposures) :
          /\ e.devices[e.exposures[f].device] = e.exposures[f].group
          /\ e.exposures[f].node # None => e.nodes[e.exposures[f].node] # None
    BY <1>2, <1>3, <1>4 DEF Consistent, ReferencesLive
  <2>3. \A y \in Present(e.routes) :
          /\ e.exposures[e.routes[y].exposure] # None
          /\ e.exposures[e.routes[y].exposure].group = e.routes[y].group
    BY <1>2, <1>3, <1>6
  <2> QED BY <2>1, <2>2, <2>3 DEF ReferencesLive
<1>8. Consistent(e)
  BY <1>2, <1>5, <1>7 DEF Consistent, RoomsHosted
<1> QED BY <1>1, <1>8

\* Enabling or disabling an exposure keeps what it claims.
LEMMA EnableExposure ==
    ASSUME NEW d \in Data, Consistent(d), NEW x \in Exposure, NEW b \in BOOLEAN,
           d.exposures[x] # None
    PROVE  LET e == [d EXCEPT !.exposures[x].enabled = b] IN e \in Data /\ Consistent(e)
<1> DEFINE c == [d.exposures[x] EXCEPT !.enabled = b]
           e == [d EXCEPT !.exposures[x] = c]
<1>1. d.exposures[x] \in ExposureRecord
  BY DEF Data, Opt
<1>2. c \in ExposureRecord
  BY <1>1 DEF ExposureRecord
<1>3. /\ c.group = d.exposures[x].group /\ c.device = d.exposures[x].device
      /\ c.node = d.exposures[x].node /\ c.protocol = d.exposures[x].protocol
      /\ c.port = d.exposures[x].port /\ c.domain = d.exposures[x].domain
      /\ c # None
  BY <1>1, <1>2, RecordsPresent DEF ExposureRecord
<1>4. e \in Data
  BY <1>2 DEF Data, Opt
<1>5. /\ e.groups = d.groups /\ e.devices = d.devices /\ e.nodes = d.nodes
      /\ e.exposures = [d.exposures EXCEPT ![x] = c] /\ e.routes = d.routes
      /\ e.rooms = d.rooms /\ e.members = d.members
  BY DEF Data
<1>6. /\ \A y \in Exposure : e.exposures[y] = IF y = x THEN c ELSE d.exposures[y]
      /\ DOMAIN e.exposures = Exposure /\ DOMAIN d.exposures = Exposure
  BY <1>5 DEF Data
<1>7. Present(e.exposures) = Present(d.exposures)
  BY <1>3, <1>6 DEF Present
<1>8. \A y \in Exposure :
          /\ e.exposures[y] = None <=> d.exposures[y] = None
          /\ e.exposures[y] # None =>
               /\ e.exposures[y].group = d.exposures[y].group
               /\ e.exposures[y].device = d.exposures[y].device
               /\ e.exposures[y].node = d.exposures[y].node
               /\ e.exposures[y].protocol = d.exposures[y].protocol
               /\ e.exposures[y].port = d.exposures[y].port
               /\ e.exposures[y].domain = d.exposures[y].domain
  BY <1>3, <1>6
<1>9. \A f \in Present(d.exposures) : f \in Exposure /\ e.exposures[f] # None
  BY <1>6, <1>7 DEF Present
<1>10. ClaimsUnique(e)
  BY <1>7, <1>8, <1>9 DEF Consistent, ClaimsUnique
<1>11. \A y \in Present(d.routes) : d.routes[y].exposure \in Exposure
  BY DEF Present, Data, Opt, RouteRecord
<1>12. ReferencesLive(e)
  <2>1. \A f \in Present(e.exposures) :
          /\ e.devices[e.exposures[f].device] = e.exposures[f].group
          /\ e.exposures[f].node # None => e.nodes[e.exposures[f].node] # None
    BY <1>5, <1>7, <1>8, <1>9 DEF Consistent, ReferencesLive
  <2>2. \A y \in Present(e.routes) :
          /\ e.exposures[e.routes[y].exposure] # None
          /\ e.exposures[e.routes[y].exposure].group = e.routes[y].group
    BY <1>5, <1>8, <1>11 DEF Consistent, ReferencesLive
  <2> QED BY <1>5, <2>1, <2>2 DEF Consistent, ReferencesLive
<1>13. Consistent(e)
  BY <1>5, <1>10, <1>12 DEF Consistent, RoomsHosted
<1>14. [d EXCEPT !.exposures[x].enabled = b] = e
  BY DEF Data
<1> QED BY <1>4, <1>13, <1>14

\* Deleting an exposure takes the routes to it along.
LEMMA DropExposure ==
    ASSUME NEW d \in Data, Consistent(d), NEW x \in Exposure,
           NEW routes \in [Route -> Opt(RouteRecord)],
           \A y \in Route : routes[y] =
               IF d.routes[y] # None /\ d.routes[y].exposure # x THEN d.routes[y] ELSE None
    PROVE  LET e == [d EXCEPT !.exposures[x] = None, !.routes = routes]
           IN  e \in Data /\ Consistent(e)
<1> DEFINE e == [d EXCEPT !.exposures[x] = None, !.routes = routes]
<1>1. e \in Data
  BY DEF Data, Opt
<1>2. /\ e.groups = d.groups /\ e.devices = d.devices /\ e.nodes = d.nodes
      /\ e.exposures = [d.exposures EXCEPT ![x] = None] /\ e.routes = routes
      /\ e.rooms = d.rooms /\ e.members = d.members
  BY DEF Data
<1>3. /\ \A y \in Exposure : e.exposures[y] = IF y = x THEN None ELSE d.exposures[y]
      /\ DOMAIN e.exposures = Exposure /\ DOMAIN d.exposures = Exposure
      /\ DOMAIN routes = Route /\ DOMAIN d.routes = Route
  BY <1>2 DEF Data
<1>4. \A f \in Present(e.exposures) :
          f \in Present(d.exposures) /\ e.exposures[f] = d.exposures[f]
  BY <1>3 DEF Present
<1>5. \A y \in Present(e.routes) :
          /\ y \in Present(d.routes) /\ e.routes[y] = d.routes[y]
          /\ d.routes[y].exposure # x
  BY <1>2, <1>3 DEF Present
<1>6. \A y \in Present(d.routes) : d.routes[y].exposure \in Exposure
  BY DEF Present, Data, Opt, RouteRecord
<1>7. ClaimsUnique(e)
  BY <1>4 DEF Consistent, ClaimsUnique
<1>8. ReferencesLive(e)
  <2>1. \A f \in Present(e.exposures) :
          /\ e.devices[e.exposures[f].device] = e.exposures[f].group
          /\ e.exposures[f].node # None => e.nodes[e.exposures[f].node] # None
    BY <1>2, <1>4 DEF Consistent, ReferencesLive
  <2>2. \A y \in Present(e.routes) :
          /\ e.exposures[e.routes[y].exposure] # None
          /\ e.exposures[e.routes[y].exposure].group = e.routes[y].group
    BY <1>3, <1>5, <1>6 DEF Consistent, ReferencesLive
  <2> QED BY <1>2, <2>1, <2>2 DEF Consistent, ReferencesLive
<1>9. Consistent(e)
  BY <1>2, <1>7, <1>8 DEF Consistent, RoomsHosted
<1> QED BY <1>1, <1>9

\* A route to an exposure of the same group.
LEMMA PutRoute ==
    ASSUME NEW d \in Data, Consistent(d), NEW y \in Route, NEW c \in RouteRecord,
           d.exposures[c.exposure] # None, d.exposures[c.exposure].group = c.group
    PROVE  LET e == [d EXCEPT !.routes[y] = c] IN e \in Data /\ Consistent(e)
<1> DEFINE e == [d EXCEPT !.routes[y] = c]
<1>1. e \in Data
  BY DEF Data, Opt
<1>2. /\ e.groups = d.groups /\ e.devices = d.devices /\ e.nodes = d.nodes
      /\ e.exposures = d.exposures /\ e.routes = [d.routes EXCEPT ![y] = c]
      /\ e.rooms = d.rooms /\ e.members = d.members
  BY DEF Data
<1>3. \A z \in Present(e.routes) : e.routes[z] = c \/ (z \in Present(d.routes) /\ e.routes[z] = d.routes[z])
  BY <1>2 DEF Present, Data
<1>4. Consistent(e)
  BY <1>2, <1>3 DEF Consistent, ClaimsUnique, ReferencesLive, RoomsHosted
<1> QED BY <1>1, <1>4

\* The host of a room is registered, as its host.
LEMMA HostThere ==
    ASSUME NEW d \in Data, Consistent(d), NEW q \in Present(d.rooms)
    PROVE  /\ q \in Room /\ d.rooms[q] \in RoomRecord /\ d.rooms[q].host \in Member
           /\ d.members[d.rooms[q].host] # None
           /\ d.members[d.rooms[q].host].room = q
           /\ d.members[d.rooms[q].host].role = "host"
           /\ d.members[d.rooms[q].host] = [room |-> q, role |-> "host"]
<1>1. q \in Room /\ d.rooms[q] \in RoomRecord
  BY DEF Present, Data, Opt
<1>2. d.rooms[q].host \in Member
  BY <1>1 DEF RoomRecord
<1>3. d.members[d.rooms[q].host] = [room |-> q, role |-> "host"]
  BY DEF Consistent, RoomsHosted
<1>4. [room |-> q, role |-> "host"] \in MemberRecord
  BY <1>1 DEF MemberRecord
<1> QED BY <1>1, <1>2, <1>3, <1>4, RecordsPresent

\* A new room comes with its host.
LEMMA PutRoom ==
    ASSUME NEW d \in Data, Consistent(d), NEW r \in Room, NEW m \in Member,
           d.rooms[r] = None, d.members[m] = None
    PROVE  LET e == [d EXCEPT !.rooms[r] = [host |-> m, enabled |-> TRUE],
                              !.members[m] = [room |-> r, role |-> "host"]]
           IN  e \in Data /\ Consistent(e)
<1> DEFINE room == [host |-> m, enabled |-> TRUE]
           host == [room |-> r, role |-> "host"]
           e == [d EXCEPT !.rooms[r] = room, !.members[m] = host]
<1>1. room \in RoomRecord /\ host \in MemberRecord
  BY DEF RoomRecord, MemberRecord
<1>2. e \in Data
  BY <1>1 DEF Data, Opt
<1>3. /\ e.groups = d.groups /\ e.devices = d.devices /\ e.nodes = d.nodes
      /\ e.exposures = d.exposures /\ e.routes = d.routes
      /\ e.rooms = [d.rooms EXCEPT ![r] = room]
      /\ e.members = [d.members EXCEPT ![m] = host]
  BY DEF Data
<1>4. /\ \A q \in Room : e.rooms[q] = IF q = r THEN room ELSE d.rooms[q]
      /\ \A n \in Member : e.members[n] = IF n = m THEN host ELSE d.members[n]
      /\ DOMAIN e.rooms = Room /\ DOMAIN d.rooms = Room
      /\ DOMAIN e.members = Member /\ DOMAIN d.members = Member
  BY <1>3 DEF Data
<1>5. /\ \A q \in Present(d.rooms) : d.rooms[q].host \in Member
      /\ \A n \in Present(d.members) : d.members[n].room \in Room
  BY DEF Present, Data, Opt, RoomRecord, MemberRecord
<1>6. room # None /\ host # None
  BY <1>1, RecordsPresent
<1>7. /\ \A q \in Present(d.rooms) :
             /\ q \in Room /\ d.rooms[q].host \in Member \ {m}
             /\ d.members[d.rooms[q].host] = [room |-> q, role |-> "host"]
      /\ \A n \in Present(d.members) : d.rooms[d.members[n].room] # None
  BY HostThere DEF Consistent, RoomsHosted
<1>8. RoomsHosted(e)
  <2>1. \A q \in Present(e.rooms) : e.members[e.rooms[q].host] = [room |-> q, role |-> "host"]
    <3> SUFFICES ASSUME NEW q \in Present(e.rooms)
                 PROVE  e.members[e.rooms[q].host] = [room |-> q, role |-> "host"]
      OBVIOUS
    <3>1. q = r \/ (q # r /\ q \in Present(d.rooms))
      BY <1>4 DEF Present
    <3>2. CASE q = r
      BY <1>4, <3>2
    <3>3. CASE q # r /\ q \in Present(d.rooms)
      BY <1>4, <1>7, <3>3
    <3> QED BY <3>1, <3>2, <3>3
  <2>2. \A n \in Present(e.members) :
          /\ e.rooms[e.members[n].room] # None
          /\ e.members[n].role = "host" => e.rooms[e.members[n].room].host = n
    BY <1>4, <1>5, <1>6, <1>7 DEF Consistent, RoomsHosted, Present
  <2> QED BY <2>1, <2>2 DEF RoomsHosted
<1>9. Consistent(e)
  BY <1>3, <1>8 DEF Consistent, ClaimsUnique, ReferencesLive
<1> QED BY <1>2, <1>9

\* A visitor of a room that is there.
LEMMA PutVisitor ==
    ASSUME NEW d \in Data, Consistent(d), NEW r \in Room, NEW m \in Member,
           d.rooms[r] # None, d.members[m] = None
    PROVE  LET e == [d EXCEPT !.members[m] = [room |-> r, role |-> "visitor"]]
           IN  e \in Data /\ Consistent(e)
<1> DEFINE visitor == [room |-> r, role |-> "visitor"]
           e == [d EXCEPT !.members[m] = visitor]
<1>1. visitor \in MemberRecord
  BY DEF MemberRecord
<1>2. e \in Data
  BY <1>1 DEF Data, Opt
<1>3. /\ e.groups = d.groups /\ e.devices = d.devices /\ e.nodes = d.nodes
      /\ e.exposures = d.exposures /\ e.routes = d.routes /\ e.rooms = d.rooms
      /\ e.members = [d.members EXCEPT ![m] = visitor]
  BY DEF Data
<1>4. /\ \A n \in Member : e.members[n] = IF n = m THEN visitor ELSE d.members[n]
      /\ DOMAIN e.members = Member /\ DOMAIN d.members = Member
  BY <1>3 DEF Data
<1>5. \A q \in Present(d.rooms) : d.rooms[q].host \in Member /\ d.members[d.rooms[q].host] # None
  BY HostThere
<1>6. RoomsHosted(e)
  BY <1>3, <1>4, <1>5 DEF Consistent, RoomsHosted, Present
<1>7. Consistent(e)
  BY <1>3, <1>6 DEF Consistent, ClaimsUnique, ReferencesLive
<1> QED BY <1>2, <1>7

\* Enabling or disabling a room keeps its host.
LEMMA EnableRoom ==
    ASSUME NEW d \in Data, Consistent(d), NEW r \in Room, NEW b \in BOOLEAN,
           d.rooms[r] # None
    PROVE  LET e == [d EXCEPT !.rooms[r].enabled = b]
           IN  e \in Data /\ Consistent(e) /\ Present(e.rooms) = Present(d.rooms)
<1> DEFINE c == [d.rooms[r] EXCEPT !.enabled = b]
           e == [d EXCEPT !.rooms[r] = c]
<1>1. d.rooms[r] \in RoomRecord
  BY DEF Data, Opt
<1>2. c \in RoomRecord /\ c.host = d.rooms[r].host
  BY <1>1 DEF RoomRecord
<1>3. e \in Data
  BY <1>2 DEF Data, Opt
<1>4. /\ e.groups = d.groups /\ e.devices = d.devices /\ e.nodes = d.nodes
      /\ e.exposures = d.exposures /\ e.routes = d.routes /\ e.members = d.members
      /\ e.rooms = [d.rooms EXCEPT ![r] = c]
  BY DEF Data
<1>5. /\ \A q \in Room : e.rooms[q] = IF q = r THEN c ELSE d.rooms[q]
      /\ DOMAIN e.rooms = Room /\ DOMAIN d.rooms = Room
  BY <1>4 DEF Data
<1>6. Present(e.rooms) = Present(d.rooms)
  BY <1>2, <1>5, RecordsPresent DEF Present
<1>7. \A q \in Present(d.rooms) : e.rooms[q].host = d.rooms[q].host
  BY <1>2, <1>5 DEF Present
<1>8. \A n \in Present(d.members) : d.members[n].room \in Present(d.rooms)
  BY <1>5 DEF Consistent, RoomsHosted, Present, Data, Opt, MemberRecord
<1>9. RoomsHosted(e)
  BY <1>4, <1>6, <1>7, <1>8 DEF Consistent, RoomsHosted, Present
<1>10. Consistent(e)
  BY <1>4, <1>9 DEF Consistent, ClaimsUnique, ReferencesLive
<1>11. [d EXCEPT !.rooms[r].enabled = b] = e
  BY DEF Data
<1> QED BY <1>3, <1>6, <1>10, <1>11

\* Deleting a room takes all its devices along, and no other's.
LEMMA DropRoom ==
    ASSUME NEW d \in Data, Consistent(d), NEW r \in Room,
           NEW members \in [Member -> Opt(MemberRecord)],
           \A n \in Member : members[n] =
               IF d.members[n] # None /\ d.members[n].room # r THEN d.members[n] ELSE None
    PROVE  LET e == [d EXCEPT !.rooms[r] = None, !.members = members]
           IN  e \in Data /\ Consistent(e)
<1> DEFINE e == [d EXCEPT !.rooms[r] = None, !.members = members]
<1>1. e \in Data
  BY DEF Data, Opt
<1>2. /\ e.groups = d.groups /\ e.devices = d.devices /\ e.nodes = d.nodes
      /\ e.exposures = d.exposures /\ e.routes = d.routes
      /\ e.rooms = [d.rooms EXCEPT ![r] = None] /\ e.members = members
  BY DEF Data
<1>3. /\ \A q \in Room : e.rooms[q] = IF q = r THEN None ELSE d.rooms[q]
      /\ DOMAIN e.rooms = Room /\ DOMAIN d.rooms = Room
      /\ DOMAIN members = Member /\ DOMAIN d.members = Member
  BY <1>2 DEF Data
<1>4. \A q \in Present(e.rooms) :
          /\ q \in Present(d.rooms) /\ q # r
          /\ e.rooms[q] = d.rooms[q]
  BY <1>3 DEF Present
<1>5. \A n \in Present(e.members) :
          /\ n \in Present(d.members) /\ e.members[n] = d.members[n]
          /\ d.members[n].room \in Room /\ d.members[n].room # r
  BY <1>2, <1>3 DEF Present, Data, Opt, MemberRecord
<1>6. RoomsHosted(e)
  <2>1. \A q \in Present(e.rooms) : e.members[e.rooms[q].host] = [room |-> q, role |-> "host"]
    <3> SUFFICES ASSUME NEW q \in Present(e.rooms)
                 PROVE  e.members[e.rooms[q].host] = [room |-> q, role |-> "host"]
      OBVIOUS
    <3>1. q \in Present(d.rooms) /\ q # r /\ e.rooms[q] = d.rooms[q]
      BY <1>4
    <3> DEFINE h == d.rooms[q].host
    <3>2. /\ h \in Member /\ d.members[h] # None /\ d.members[h].room = q
          /\ d.members[h] = [room |-> q, role |-> "host"]
      BY <3>1, HostThere
    <3>3. members[h] = d.members[h]
      BY <3>1, <3>2
    <3> QED BY <1>2, <3>1, <3>2, <3>3
  <2>2. \A n \in Present(e.members) :
          /\ e.rooms[e.members[n].room] # None
          /\ e.members[n].role = "host" => e.rooms[e.members[n].room].host = n
    BY <1>3, <1>5 DEF Consistent, RoomsHosted
  <2> QED BY <2>1, <2>2 DEF RoomsHosted
<1>7. Consistent(e)
  BY <1>2, <1>6 DEF Consistent, ClaimsUnique, ReferencesLive
<1> QED BY <1>1, <1>7

-----------------------------------------------------------------------------
(* How a step changes the store and the requests.                           *)

\* An edit that keeps registered devices keeps every request sound.
DevicesKept(d, e) == \A x \in Device : d.devices[x] # None => e.devices[x] = d.devices[x]

\* An answered request is sound whatever the store holds.
LEMMA AnswerOK ==
    ASSUME IInv, NEW w \in Worker, NEW res \in {"none", "ok", "err"}, Answer(w, res),
           NEW d \in Data, DevicesKept(mem, d)
    PROVE  req' \in [Worker -> Requests] /\ \A v \in Worker : RequestOK(req'[v], d)
<1>1. req \in [Worker -> Requests] /\ \A v \in Worker : RequestOK(req[v], mem)
  BY DEF IInv, TypeOK
<1>2. Idle(res) \in Requests /\ RequestOK(Idle(res), d)
  BY DEF Idle, Requests, Opt, RequestOK
<1>3. \A v \in Worker : req'[v] = IF v = w THEN Idle(res) ELSE req[v]
  BY <1>1 DEF Answer
<1>4. \A v \in Worker : RequestOK(req[v], d)
  <2> SUFFICES ASSUME NEW v \in Worker, req[v].pc # "idle"
               PROVE  req[v].op \in Op /\
                        (req[v].op \in DeviceOp => d.devices[req[v].op.device] = req[v].op.group)
    BY DEF RequestOK
  <2>1. req[v].op \in Op /\
          (req[v].op \in DeviceOp => mem.devices[req[v].op.device] = req[v].op.group)
    BY <1>1 DEF RequestOK
  <2>2. req[v].op \in DeviceOp => req[v].op.device \in Device /\ req[v].op.group \in Group
    BY DEF DeviceOp
  <2> QED BY <2>1, <2>2, RecordsPresent DEF DevicesKept
<1> QED BY <1>1, <1>2, <1>3, <1>4 DEF Answer

\* New ids do not make a value of the store unsound.
LEMMA MoreIds ==
    ASSUME NEW d, NEW ids, NEW more, Sound(d, ids), ids \subseteq more
    PROVE  Sound(d, more)
BY DEF Sound, IdsIssued

\* A handler whose store edit is sound.
LEMMA UpdateThenAnswerOK ==
    ASSUME IInv, NEW w \in Worker, NEW d, UpdateThenAnswer(w, d),
           issued \subseteq issued', issued' \subseteq Ids, Sound(d, issued'),
           DevicesKept(mem, d), served' \in 0..MaxRequests
    PROVE  IInv'
<1>1. mem' = d /\ disk' \in {disk, d}
  BY DEF UpdateThenAnswer, Saved, SaveFails
<1>2. d \in Data
  BY DEF Sound
<1>3. \E res \in {"none", "ok", "err"} : Answer(w, res)
  BY DEF UpdateThenAnswer
<1>4. req' \in [Worker -> Requests] /\ \A v \in Worker : RequestOK(req'[v], d)
  BY <1>2, <1>3, AnswerOK
<1>5. Sound(mem', issued') /\ Sound(disk', issued')
  BY <1>1, MoreIds DEF IInv
<1>6. TypeOK'
  BY <1>1, <1>4, <1>5 DEF TypeOK, Sound
<1>7. \A v \in Worker : RequestOK(req'[v], mem')
  BY <1>1, <1>4
<1> QED BY <1>5, <1>6, <1>7 DEF IInv, Sound, IdsIssued, Consistent, ClaimsUnique, ReferencesLive, RoomsHosted, Present, RequestOK

\* A handler that only answers.
LEMMA OnlyAnswerOK ==
    ASSUME IInv, NEW w \in Worker, NEW res \in {"none", "ok", "err"}, Answer(w, res),
           UNCHANGED <<mem, disk, issued, served>>
    PROVE  IInv'
<1>1. mem \in Data /\ DevicesKept(mem, mem)
  BY DEF IInv, TypeOK, DevicesKept
<1>2. req' \in [Worker -> Requests] /\ \A v \in Worker : RequestOK(req'[v], mem)
  BY <1>1, AnswerOK
<1>3. TypeOK'
  BY <1>2 DEF IInv, TypeOK
<1> QED BY <1>2, <1>3 DEF IInv, Sound, IdsIssued, Consistent, ClaimsUnique,
           ReferencesLive, RoomsHosted, Present, RequestOK

\* What holds when a request is accepted, whatever it is.
LEMMA AcceptOK ==
    ASSUME IInv, NEW w \in Worker, Accept(w)
    PROVE  served' \in 0..MaxRequests
BY RegistryAssumption DEF IInv, TypeOK, Accept

\* What holds at the second section of a handler.
LEMMA AuthedOK ==
    ASSUME IInv, NEW w \in Worker, NEW kind, Authed(w, kind)
    PROVE  /\ req[w].op \in Op /\ req[w].op.kind = kind
           /\ req[w].op \in DeviceOp => mem.devices[req[w].op.device] = req[w].op.group
           /\ served' \in 0..MaxRequests /\ UNCHANGED served
BY DEF IInv, TypeOK, Authed, RequestOK

\* A new id is new to the store.
LEMMA IssueOK ==
    ASSUME IInv, NEW ids \in SUBSET Ids, Issue(ids)
    PROVE  /\ issued' = issued \union ids /\ issued' \subseteq Ids
           /\ \A x \in Device \intersect ids : mem.devices[x] = None
           /\ \A x \in Exposure \intersect ids : mem.exposures[x] = None
           /\ \A x \in Room \intersect ids : mem.rooms[x] = None
           /\ \A x \in Member \intersect ids : mem.members[x] = None
<1>1. mem \in Data /\ IdsIssued(mem, issued) /\ issued \subseteq Ids
  BY DEF IInv, TypeOK, Sound
<1>2. /\ DOMAIN mem.devices = Device /\ DOMAIN mem.exposures = Exposure
      /\ DOMAIN mem.rooms = Room /\ DOMAIN mem.members = Member
  BY <1>1 DEF Data
<1> QED BY <1>1, <1>2 DEF Issue, IdsIssued, Present

-----------------------------------------------------------------------------
(* The handlers.                                                            *)

LEMMA CreateGroupOK == ASSUME IInv, NEW w \in Worker, CreateGroup(w) PROVE IInv'
<1>1. PICK g \in Group \ mem.groups :
          UpdateThenAnswer(w, [mem EXCEPT !.groups = @ \union {g}])
  BY DEF CreateGroup
<1> DEFINE e == [mem EXCEPT !.groups = @ \union {g}]
<1>2. Sound(mem, issued) /\ mem \in Data /\ issued' = issued /\ issued \subseteq Ids
  BY DEF IInv, TypeOK, CreateGroup
<1>3. e \in Data /\ Consistent(e)
  BY <1>2, PutGroup DEF Sound
<1>4. /\ e.devices = mem.devices /\ e.exposures = mem.exposures
      /\ e.rooms = mem.rooms /\ e.members = mem.members
  BY <1>2 DEF Data
<1>5. Sound(e, issued') /\ DevicesKept(mem, e)
  BY <1>2, <1>3, <1>4 DEF Sound, IdsIssued, DevicesKept
<1> QED BY <1>1, <1>2, <1>5, AcceptOK, UpdateThenAnswerOK DEF CreateGroup

LEMMA JoinGroupOK == ASSUME IInv, NEW w \in Worker, JoinGroup(w) PROVE IInv'
<1>1. PICK g \in mem.groups, x \in Device :
          Issue({x}) /\ UpdateThenAnswer(w, [mem EXCEPT !.devices[x] = g])
  BY DEF JoinGroup
<1> DEFINE e == [mem EXCEPT !.devices[x] = g]
<1>2. Sound(mem, issued) /\ mem \in Data /\ {x} \in SUBSET Ids
  BY DEF IInv, TypeOK, Ids
<1>3. mem.devices[x] = None /\ issued' = issued \union {x} /\ issued' \subseteq Ids
  BY <1>1, <1>2, IssueOK
<1>4. e \in Data /\ Consistent(e)
  BY <1>2, <1>3, PutDevice DEF Sound
<1>5. /\ e.devices = [mem.devices EXCEPT ![x] = g] /\ e.exposures = mem.exposures
      /\ e.rooms = mem.rooms /\ e.members = mem.members
      /\ DOMAIN mem.devices = Device
  BY <1>2 DEF Data
<1>6. DevicesKept(mem, e)
  BY <1>3, <1>5 DEF DevicesKept
<1>7. Present(e.devices) \subseteq Present(mem.devices) \union {x}
  BY <1>5 DEF Present
<1>8. Sound(e, issued')
  BY <1>2, <1>3, <1>4, <1>5, <1>7 DEF Sound, IdsIssued
<1> QED BY <1>1, <1>3, <1>6, <1>8, AcceptOK, UpdateThenAnswerOK DEF JoinGroup

LEMMA CreateNodeOK == ASSUME IInv, NEW w \in Worker, CreateNode(w) PROVE IInv'
<1>1. PICK n \in Node, c \in NodeConfig :
          Issue({n}) /\ UpdateThenAnswer(w, [mem EXCEPT !.nodes[n] = c])
  BY DEF CreateNode
<1> DEFINE e == [mem EXCEPT !.nodes[n] = c]
<1>2. Sound(mem, issued) /\ mem \in Data /\ {n} \in SUBSET Ids
      /\ c \in Opt(NodeRecord) /\ c # None
  BY RecordsPresent DEF IInv, TypeOK, Ids, Opt
<1>3. issued' = issued \union {n} /\ issued' \subseteq Ids
  BY <1>1, <1>2, IssueOK
<1>4. e \in Data /\ Consistent(e)
  BY <1>2, PutNode DEF Sound
<1>5. /\ e.devices = mem.devices /\ e.exposures = mem.exposures
      /\ e.rooms = mem.rooms /\ e.members = mem.members
  BY <1>2 DEF Data
<1>6. Sound(e, issued') /\ DevicesKept(mem, e)
  BY <1>2, <1>3, <1>4, <1>5 DEF Sound, IdsIssued, DevicesKept
<1> QED BY <1>1, <1>3, <1>6, AcceptOK, UpdateThenAnswerOK DEF CreateNode

LEMMA DeleteNodeOK == ASSUME IInv, NEW w \in Worker, DeleteNode(w) PROVE IInv'
<1>1. PICK n \in Present(mem.nodes) :
          /\ \A f \in Present(mem.exposures) : mem.exposures[f].node # n
          /\ UpdateThenAnswer(w, [mem EXCEPT !.nodes[n] = None])
  BY DEF DeleteNode
<1> DEFINE e == [mem EXCEPT !.nodes[n] = None]
<1>2. Sound(mem, issued) /\ mem \in Data /\ issued' = issued /\ issued \subseteq Ids
  BY DEF IInv, TypeOK, DeleteNode
<1>3. n \in Node
  BY <1>2 DEF Present, Data
<1>4. e \in Data /\ Consistent(e)
  BY <1>1, <1>2, <1>3, PutNode DEF Sound, Opt
<1>5. /\ e.devices = mem.devices /\ e.exposures = mem.exposures
      /\ e.rooms = mem.rooms /\ e.members = mem.members
  BY <1>2 DEF Data
<1>6. Sound(e, issued') /\ DevicesKept(mem, e)
  BY <1>2, <1>4, <1>5 DEF Sound, IdsIssued, DevicesKept
<1> QED BY <1>1, <1>2, <1>6, AcceptOK, UpdateThenAnswerOK DEF DeleteNode

LEMMA CreateRoomOK == ASSUME IInv, NEW w \in Worker, CreateRoom(w) PROVE IInv'
<1>1. PICK r \in Room, m \in Member :
          /\ Issue({r, m})
          /\ UpdateThenAnswer(w,
                [mem EXCEPT !.rooms[r] = [host |-> m, enabled |-> TRUE],
                            !.members[m] = [room |-> r, role |-> "host"]])
  BY DEF CreateRoom
<1> DEFINE e == [mem EXCEPT !.rooms[r] = [host |-> m, enabled |-> TRUE],
                            !.members[m] = [room |-> r, role |-> "host"]]
<1>2. Sound(mem, issued) /\ mem \in Data /\ {r, m} \in SUBSET Ids
  BY DEF IInv, TypeOK, Ids
<1>3. /\ mem.rooms[r] = None /\ mem.members[m] = None
      /\ issued' = issued \union {r, m} /\ issued' \subseteq Ids
  BY <1>1, <1>2, IssueOK
<1>4. e \in Data /\ Consistent(e)
  BY <1>2, <1>3, PutRoom DEF Sound
<1>5. /\ e.devices = mem.devices /\ e.exposures = mem.exposures
      /\ e.rooms = [mem.rooms EXCEPT ![r] = [host |-> m, enabled |-> TRUE]]
      /\ e.members = [mem.members EXCEPT ![m] = [room |-> r, role |-> "host"]]
  BY <1>2 DEF Data
<1>6. /\ Present(e.rooms) \subseteq Present(mem.rooms) \union {r}
      /\ Present(e.members) \subseteq Present(mem.members) \union {m}
  BY <1>5 DEF Present
<1>7. Sound(e, issued') /\ DevicesKept(mem, e)
  BY <1>2, <1>3, <1>4, <1>5, <1>6 DEF Sound, IdsIssued, DevicesKept
<1> QED BY <1>1, <1>3, <1>7, AcceptOK, UpdateThenAnswerOK DEF CreateRoom

LEMMA JoinRoomOK == ASSUME IInv, NEW w \in Worker, JoinRoom(w) PROVE IInv'
<1>1. PICK r \in Present(mem.rooms), m \in Member :
          /\ Issue({m})
          /\ UpdateThenAnswer(w, [mem EXCEPT !.members[m] = [room |-> r, role |-> "visitor"]])
  BY DEF JoinRoom
<1> DEFINE e == [mem EXCEPT !.members[m] = [room |-> r, role |-> "visitor"]]
<1>2. Sound(mem, issued) /\ mem \in Data /\ {m} \in SUBSET Ids
  BY DEF IInv, TypeOK, Ids
<1>3. /\ mem.members[m] = None /\ issued' = issued \union {m} /\ issued' \subseteq Ids
      /\ r \in Room /\ mem.rooms[r] # None
  BY <1>1, <1>2, IssueOK DEF Present, Data
<1>4. e \in Data /\ Consistent(e)
  BY <1>2, <1>3, PutVisitor DEF Sound
<1>5. /\ e.devices = mem.devices /\ e.exposures = mem.exposures /\ e.rooms = mem.rooms
      /\ e.members = [mem.members EXCEPT ![m] = [room |-> r, role |-> "visitor"]]
  BY <1>2 DEF Data
<1>6. Present(e.members) \subseteq Present(mem.members) \union {m}
  BY <1>5 DEF Present
<1>7. Sound(e, issued') /\ DevicesKept(mem, e)
  BY <1>2, <1>3, <1>4, <1>5, <1>6 DEF Sound, IdsIssued, DevicesKept
<1> QED BY <1>1, <1>3, <1>7, AcceptOK, UpdateThenAnswerOK DEF JoinRoom

\* The credentials hold at the section that checks them.
LEMMA AuthenticateOK == ASSUME IInv, NEW w \in Worker, Authenticate(w) PROVE IInv'
<1>1. PICK op \in Op :
          /\ op \in DeviceOp => ValidDevice(op)
          /\ \/ /\ Saved(mem)
                /\ req' = [req EXCEPT ![w] = [pc |-> "authed", op |-> op, res |-> "none"]]
             \/ SaveFails(mem) /\ Answer(w, "err")
  BY DEF Authenticate
<1> DEFINE r == [pc |-> "authed", op |-> op, res |-> "none"]
<1>2. /\ served' \in 0..MaxRequests /\ issued' = issued /\ issued \subseteq Ids
      /\ mem' = mem /\ disk' \in {disk, mem}
      /\ mem \in Data /\ DevicesKept(mem, mem)
      /\ Sound(mem, issued) /\ Sound(disk, issued)
  BY <1>1, AcceptOK DEF Authenticate, Saved, SaveFails, IInv, TypeOK, DevicesKept
<1>3. req' \in [Worker -> Requests] /\ \A v \in Worker : RequestOK(req'[v], mem)
  <2>1. CASE Answer(w, "err")
    BY <1>2, <2>1, AnswerOK
  <2>2. CASE req' = [req EXCEPT ![w] = r]
    <3>1. r \in Requests /\ RequestOK(r, mem)
      BY <1>1 DEF Requests, Opt, RequestOK, ValidDevice
    <3>2. req \in [Worker -> Requests] /\ \A v \in Worker : RequestOK(req[v], mem)
      BY DEF IInv, TypeOK
    <3>3. \A v \in Worker : req'[v] = IF v = w THEN r ELSE req[v]
      BY <2>2, <3>2
    <3> QED BY <2>2, <3>1, <3>2, <3>3
  <2> QED BY <1>1, <2>1, <2>2
<1>4. Sound(disk, issued)' /\ Sound(mem, issued)'
  BY <1>2 DEF Sound, IdsIssued, Consistent, ClaimsUnique, ReferencesLive, RoomsHosted, Present
<1>5. TypeOK'
  BY <1>2, <1>3 DEF IInv, TypeOK
<1> QED BY <1>2, <1>3, <1>4, <1>5 DEF IInv, RequestOK

LEMMA RoomLoginOK == ASSUME IInv, NEW w \in Worker, RoomLogin(w) PROVE IInv'
<1>1. /\ UpdateThenAnswer(w, mem) /\ issued' = issued /\ issued \subseteq Ids
      /\ Sound(mem, issued) /\ DevicesKept(mem, mem)
  BY DEF RoomLogin, IInv, TypeOK, DevicesKept
<1> QED BY <1>1, AcceptOK, UpdateThenAnswerOK DEF RoomLogin

\* A second section that refuses the request.
LEMMA RefuseOK == ASSUME IInv, NEW w \in Worker, Refuse(w), UNCHANGED served PROVE IInv'
BY OnlyAnswerOK DEF Refuse

\* A second section that stores a new exposure.
LEMMA StoreExposureOK ==
    ASSUME IInv, NEW w \in Worker, UNCHANGED served, NEW x \in Exposure, Issue({x}),
           NEW c \in ExposureRecord,
           UpdateThenAnswer(w, [mem EXCEPT !.exposures[x] = c]),
           mem.devices[c.device] = c.group,
           c.node # None => mem.nodes[c.node] # None,
           \A f \in Present(mem.exposures) :
               mem.exposures[f].node = c.node /\ mem.exposures[f].protocol = c.protocol =>
                   /\ c.protocol = "tcp" => mem.exposures[f].port # c.port
                   /\ c.protocol = "http" => mem.exposures[f].domain # c.domain
    PROVE  IInv'
<1> DEFINE e == [mem EXCEPT !.exposures[x] = c]
<1>1. Sound(mem, issued) /\ mem \in Data /\ {x} \in SUBSET Ids /\ served' \in 0..MaxRequests
  BY DEF IInv, TypeOK, Ids
<1>2. mem.exposures[x] = None /\ issued' = issued \union {x} /\ issued' \subseteq Ids
  BY <1>1, IssueOK
<1>3. e \in Data /\ Consistent(e)
  BY <1>1, <1>2, PutExposure DEF Sound
<1>4. /\ e.devices = mem.devices /\ e.rooms = mem.rooms /\ e.members = mem.members
      /\ e.exposures = [mem.exposures EXCEPT ![x] = c]
  BY <1>1 DEF Data
<1>5. Present(e.exposures) \subseteq Present(mem.exposures) \union {x}
  BY <1>4 DEF Present
<1>6. Sound(e, issued') /\ DevicesKept(mem, e)
  BY <1>1, <1>2, <1>3, <1>4, <1>5 DEF Sound, IdsIssued, DevicesKept
<1> QED BY <1>1, <1>2, <1>6, UpdateThenAnswerOK

LEMMA CreatePrivateExposureOK ==
    ASSUME IInv, NEW w \in Worker, CreatePrivateExposure(w) PROVE IInv'
<1> DEFINE op == req[w].op
           c == [group |-> op.group, device |-> op.device, node |-> None,
                 protocol |-> "xtcp", port |-> None, domain |-> None, enabled |-> TRUE]
<1>1. PICK x \in Exposure :
          Issue({x}) /\ UpdateThenAnswer(w, [mem EXCEPT !.exposures[x] = c])
  BY DEF CreatePrivateExposure
<1>2. Authed(w, "createPrivate")
  BY DEF CreatePrivateExposure
<1>3. op \in Op /\ op.kind = "createPrivate" /\ UNCHANGED served
      /\ (op \in DeviceOp => mem.devices[op.device] = op.group)
  BY <1>2, AuthedOK
<1>4. op \in DeviceOp /\ op.group \in Group /\ op.device \in Device
  BY <1>3 DEF Op, DeviceOp, RoomOp
<1>5. c \in ExposureRecord
  BY <1>4 DEF ExposureRecord, Opt
<1> QED BY <1>1, <1>3, <1>4, <1>5, StoreExposureOK

\* The node is there, and the port or domain free, when the claim is stored.
LEMMA CreatePublicExposureOK ==
    ASSUME IInv, NEW w \in Worker, CreatePublicExposure(w) PROVE IInv'
<1> DEFINE op == req[w].op
           c == [group |-> op.group, device |-> op.device, node |-> op.node,
                 protocol |-> op.protocol, port |-> op.port,
                 domain |-> op.domain, enabled |-> TRUE]
<1>1. Authed(w, "createPublic")
  BY DEF CreatePublicExposure
<1>2. op \in Op /\ op.kind = "createPublic" /\ UNCHANGED served
      /\ (op \in DeviceOp => mem.devices[op.device] = op.group)
  BY <1>1, AuthedOK
<1>3. /\ op \in DeviceOp /\ op.group \in Group /\ op.device \in Device /\ op.node \in Node
      /\ op.protocol \in {"tcp", "http"} /\ op.port \in Opt(Port) /\ op.domain \in Opt(Domain)
  BY <1>2 DEF Op, DeviceOp, RoomOp
<1>4. c \in ExposureRecord
  BY <1>3 DEF ExposureRecord, Opt
<1>5. CASE Refuse(w)
  BY <1>2, <1>5, RefuseOK
<1>6. CASE /\ Allocatable(op)
           /\ \E x \in Exposure :
                 Issue({x}) /\ UpdateThenAnswer(w, [mem EXCEPT !.exposures[x] = c])
  <2>1. mem.nodes[c.node] # None
    BY <1>6 DEF Allocatable
  <2>2. \A f \in Present(mem.exposures) :
            mem.exposures[f].node = c.node /\ mem.exposures[f].protocol = c.protocol =>
                /\ c.protocol = "tcp" => mem.exposures[f].port # c.port
                /\ c.protocol = "http" => mem.exposures[f].domain # c.domain
    BY <1>6 DEF Allocatable, PortInUse, DomainInUse
  <2> QED BY <1>2, <1>3, <1>4, <1>6, <2>1, <2>2, StoreExposureOK
<1> QED BY <1>5, <1>6 DEF CreatePublicExposure

\* A second section that changes no id: what it stores is consistent.
LEMMA StoreEditOK ==
    ASSUME IInv, NEW w \in Worker, UNCHANGED <<served, issued>>,
           NEW e \in Data, Consistent(e), UpdateThenAnswer(w, e),
           e.devices = mem.devices,
           Present(e.exposures) \subseteq Present(mem.exposures),
           Present(e.rooms) \subseteq Present(mem.rooms),
           Present(e.members) \subseteq Present(mem.members)
    PROVE  IInv'
<1>1. /\ Sound(mem, issued) /\ served' \in 0..MaxRequests
      /\ issued' = issued /\ issued \subseteq Ids
  BY DEF IInv, TypeOK
<1>2. Sound(e, issued') /\ DevicesKept(mem, e)
  BY <1>1 DEF Sound, IdsIssued, DevicesKept
<1> QED BY <1>1, <1>2, UpdateThenAnswerOK

LEMMA UpdateExposureOK ==
    ASSUME IInv, NEW w \in Worker, UpdateExposure(w) PROVE IInv'
<1> DEFINE op == req[w].op
           e == [mem EXCEPT !.exposures[op.exposure].enabled = op.enabled]
<1>1. Authed(w, "updateExposure")
  BY DEF UpdateExposure
<1>2. op \in Op /\ op.kind = "updateExposure" /\ UNCHANGED served
  BY <1>1, AuthedOK
<1>3. op.exposure \in Exposure /\ op.enabled \in BOOLEAN
  BY <1>2 DEF Op, DeviceOp, RoomOp
<1>4. mem \in Data /\ Consistent(mem)
  BY DEF IInv, TypeOK, Sound
<1>5. CASE Refuse(w)
  BY <1>2, <1>5, RefuseOK
<1>6. CASE Owned(op) /\ UpdateThenAnswer(w, e) /\ UNCHANGED issued
  <2>1. mem.exposures[op.exposure] # None
    BY <1>6 DEF Owned
  <2>2. e \in Data /\ Consistent(e)
    BY <1>3, <1>4, <2>1, EnableExposure
  <2>3. e.devices = mem.devices /\ e.rooms = mem.rooms /\ e.members = mem.members
    BY <1>4 DEF Data
  <2>4. /\ DOMAIN e.exposures = Exposure /\ DOMAIN mem.exposures = Exposure
        /\ \A y \in Exposure : y # op.exposure => e.exposures[y] = mem.exposures[y]
    BY <1>4 DEF Data
  <2>5. Present(e.exposures) \subseteq Present(mem.exposures)
    BY <2>1, <2>4 DEF Present
  <2> QED BY <1>2, <1>6, <2>2, <2>3, <2>5, StoreEditOK
<1> QED BY <1>5, <1>6 DEF UpdateExposure

LEMMA DeleteExposureOK ==
    ASSUME IInv, NEW w \in Worker, DeleteExposure(w) PROVE IInv'
<1> DEFINE op == req[w].op
           routes == [x \in Route |->
                        IF mem.routes[x] # None /\ mem.routes[x].exposure # op.exposure
                        THEN mem.routes[x] ELSE None]
           e == [mem EXCEPT !.exposures[op.exposure] = None, !.routes = routes]
<1>1. Authed(w, "deleteExposure")
  BY DEF DeleteExposure
<1>2. op \in Op /\ op.kind = "deleteExposure" /\ UNCHANGED served
  BY <1>1, AuthedOK
<1>3. op.exposure \in Exposure
  BY <1>2 DEF Op, DeviceOp, RoomOp
<1>4. mem \in Data /\ Consistent(mem)
  BY DEF IInv, TypeOK, Sound
<1>5. CASE Refuse(w)
  BY <1>2, <1>5, RefuseOK
<1>6. CASE UpdateThenAnswer(w, e) /\ UNCHANGED issued
  <2>1. routes \in [Route -> Opt(RouteRecord)]
    BY <1>4 DEF Data, Opt
  <2>2. \A y \in Route : routes[y] =
            IF mem.routes[y] # None /\ mem.routes[y].exposure # op.exposure
            THEN mem.routes[y] ELSE None
    OBVIOUS
  <2> HIDE DEF routes
  <2>3. e \in Data /\ Consistent(e)
    BY <1>3, <1>4, <2>1, <2>2, DropExposure
  <2>4. /\ e.devices = mem.devices /\ e.rooms = mem.rooms /\ e.members = mem.members
        /\ e.exposures = [mem.exposures EXCEPT ![op.exposure] = None]
    BY <1>4 DEF Data
  <2>5. Present(e.exposures) \subseteq Present(mem.exposures)
    BY <2>4 DEF Present
  <2> QED BY <1>2, <1>6, <2>3, <2>4, <2>5, StoreEditOK
<1> QED BY <1>5, <1>6 DEF DeleteExposure

LEMMA CreateAccessRouteOK ==
    ASSUME IInv, NEW w \in Worker, CreateAccessRoute(w) PROVE IInv'
<1> DEFINE op == req[w].op
           c == [group |-> op.group, device |-> op.device, exposure |-> op.exposure]
<1>1. Authed(w, "createRoute")
  BY DEF CreateAccessRoute
<1>2. op \in Op /\ op.kind = "createRoute" /\ served' \in 0..MaxRequests /\ UNCHANGED served
  BY <1>1, AuthedOK
<1>3. op.exposure \in Exposure /\ op.group \in Group /\ op.device \in Device
  BY <1>2 DEF Op, DeviceOp, RoomOp
<1>4. c \in RouteRecord
  BY <1>3 DEF RouteRecord
<1>5. CASE Refuse(w)
  BY <1>2, <1>5, RefuseOK
<1>6. CASE /\ mem.exposures[op.exposure] # None
           /\ mem.exposures[op.exposure].group = op.group
           /\ \E x \in Route : Issue({x}) /\ UpdateThenAnswer(w, [mem EXCEPT !.routes[x] = c])
  <2>1. PICK x \in Route : Issue({x}) /\ UpdateThenAnswer(w, [mem EXCEPT !.routes[x] = c])
    BY <1>6
  <2> DEFINE e == [mem EXCEPT !.routes[x] = c]
  <2>2. Sound(mem, issued) /\ mem \in Data /\ {x} \in SUBSET Ids
    BY DEF IInv, TypeOK, Ids
  <2>3. issued' = issued \union {x} /\ issued' \subseteq Ids
    BY <2>1, <2>2, IssueOK
  <2>4. e \in Data /\ Consistent(e)
    BY <1>4, <1>6, <2>2, PutRoute DEF Sound
  <2>5. /\ e.devices = mem.devices /\ e.exposures = mem.exposures
        /\ e.rooms = mem.rooms /\ e.members = mem.members
    BY <2>2 DEF Data
  <2>6. Sound(e, issued') /\ DevicesKept(mem, e)
    BY <2>2, <2>3, <2>4, <2>5 DEF Sound, IdsIssued, DevicesKept
  <2> QED BY <1>2, <2>1, <2>3, <2>6, UpdateThenAnswerOK
<1> QED BY <1>5, <1>6 DEF CreateAccessRoute

\* An update of a room keeps its host, and leaves its answer to be built.
LEMMA UpdateRoomOK ==
    ASSUME IInv, NEW w \in Worker, UpdateRoom(w) PROVE IInv'
<1> DEFINE op == req[w].op
           e == [mem EXCEPT !.rooms[op.room].enabled = op.enabled]
           r == [req[w] EXCEPT !.pc = "view"]
<1>1. Authed(w, "updateRoom")
  BY DEF UpdateRoom
<1>2. op \in Op /\ op.kind = "updateRoom" /\ UNCHANGED served
  BY <1>1, AuthedOK
<1>3. op.room \in Room /\ op.enabled \in BOOLEAN
  BY <1>2 DEF Op, DeviceOp, RoomOp
<1>4. /\ mem \in Data /\ Consistent(mem)
      /\ req \in [Worker -> Requests] /\ \A v \in Worker : RequestOK(req[v], mem)
      /\ Sound(mem, issued) /\ Sound(disk, issued)
  BY DEF IInv, TypeOK, Sound
<1>5. CASE Refuse(w)
  BY <1>2, <1>5, RefuseOK
<1>6. CASE mem.rooms[op.room] # None /\ ~ Refuse(w)
  <2>1. e \in Data /\ Consistent(e) /\ Present(e.rooms) = Present(mem.rooms)
    BY <1>3, <1>4, <1>6, EnableRoom
  <2>2. /\ e.devices = mem.devices /\ e.exposures = mem.exposures
        /\ e.members = mem.members
    BY <1>4 DEF Data
  <2>3. CASE UpdateThenAnswer(w, e) /\ UNCHANGED issued
    BY <1>2, <2>1, <2>2, <2>3, StoreEditOK
  <2>4. CASE Saved(e) /\ req' = [req EXCEPT ![w] = r] /\ UNCHANGED issued
    <3>1. r \in Requests /\ r.pc = "view" /\ r.op = req[w].op
      BY <1>4 DEF Requests
    <3>2. RequestOK(r, e)
      BY <1>1, <1>4, <2>2, <3>1 DEF RequestOK, Authed
    <3>3. \A v \in Worker : RequestOK(req[v], e)
      BY <1>4, <2>2 DEF RequestOK
    <3>4. \A v \in Worker : req'[v] = IF v = w THEN r ELSE req[v]
      BY <1>4, <2>4
    <3>5. req' \in [Worker -> Requests] /\ \A v \in Worker : RequestOK(req'[v], e)
      BY <1>4, <2>4, <3>1, <3>2, <3>3, <3>4
    <3>6. Sound(e, issued)
      BY <1>4, <2>1, <2>2 DEF Sound, IdsIssued
    <3>7. mem' = e /\ disk' = e /\ issued' = issued
      BY <2>4 DEF Saved
    <3>8. TypeOK'
      BY <1>2, <2>1, <3>5, <3>7 DEF IInv, TypeOK
    <3> HIDE DEF e
    <3>9. Sound(mem', issued') /\ Sound(disk', issued')
      BY <3>6, <3>7
    <3>10. \A v \in Worker : RequestOK(req'[v], mem')
      BY <3>5, <3>7
    <3> QED BY <3>8, <3>9, <3>10 DEF IInv, Sound, IdsIssued, Consistent,
               ClaimsUnique, ReferencesLive, RoomsHosted, Present, RequestOK
  <2> QED BY <1>6, <2>3, <2>4 DEF UpdateRoom, UpdateThenAnswer
<1> QED BY <1>5, <1>6 DEF UpdateRoom

LEMMA DeleteRoomOK ==
    ASSUME IInv, NEW w \in Worker, DeleteRoom(w) PROVE IInv'
<1> DEFINE op == req[w].op
           members == [m \in Member |->
                         IF mem.members[m] # None /\ mem.members[m].room # op.room
                         THEN mem.members[m] ELSE None]
           e == [mem EXCEPT !.rooms[op.room] = None, !.members = members]
<1>1. Authed(w, "deleteRoom")
  BY DEF DeleteRoom
<1>2. op \in Op /\ op.kind = "deleteRoom" /\ UNCHANGED served
  BY <1>1, AuthedOK
<1>3. op.room \in Room
  BY <1>2 DEF Op, DeviceOp, RoomOp
<1>4. mem \in Data /\ Consistent(mem)
  BY DEF IInv, TypeOK, Sound
<1>5. CASE Refuse(w)
  BY <1>2, <1>5, RefuseOK
<1>6. CASE UpdateThenAnswer(w, e) /\ UNCHANGED issued
  <2>1. members \in [Member -> Opt(MemberRecord)]
    BY <1>4 DEF Data, Opt
  <2>2. \A n \in Member : members[n] =
            IF mem.members[n] # None /\ mem.members[n].room # op.room
            THEN mem.members[n] ELSE None
    OBVIOUS
  <2> HIDE DEF members
  <2>3. e \in Data /\ Consistent(e)
    BY <1>3, <1>4, <2>1, <2>2, DropRoom
  <2>4. /\ e.devices = mem.devices /\ e.exposures = mem.exposures
        /\ e.rooms = [mem.rooms EXCEPT ![op.room] = None] /\ e.members = members
        /\ DOMAIN mem.members = Member /\ DOMAIN members = Member
    BY <1>4, <2>1 DEF Data
  <2>5. /\ Present(e.rooms) \subseteq Present(mem.rooms)
        /\ Present(e.members) \subseteq Present(mem.members)
    BY <2>2, <2>4 DEF Present
  <2> QED BY <1>2, <1>6, <2>3, <2>4, <2>5, StoreEditOK
<1> QED BY <1>5, <1>6 DEF DeleteRoom

LEMMA ReadersOK ==
    ASSUME IInv, NEW w \in Worker, ViewRoom(w) \/ NewProxy(w) PROVE IInv'
BY OnlyAnswerOK DEF ViewRoom, NewProxy, Authed

\* A crash makes memory what is on disk, and ends every request.
LEMMA RestartOK == ASSUME IInv, Restart PROVE IInv'
<1>1. /\ mem' = disk /\ disk' = disk /\ issued' = issued
      /\ disk \in Data /\ Sound(disk, issued) /\ issued \subseteq Ids
  BY DEF Restart, Saved, IInv, TypeOK
<1>2. Idle("none") \in Requests /\ RequestOK(Idle("none"), disk)
  BY DEF Idle, Requests, Opt, RequestOK
<1>3. req' \in [Worker -> Requests] /\ \A v \in Worker : RequestOK(req'[v], disk)
  BY <1>2 DEF Restart
<1>4. served' \in 0..MaxRequests
  BY RegistryAssumption DEF Restart, IInv, TypeOK
<1>5. TypeOK'
  BY <1>1, <1>3, <1>4 DEF TypeOK
<1> QED BY <1>1, <1>3, <1>5 DEF IInv, Sound, IdsIssued, Consistent, ClaimsUnique,
           ReferencesLive, RoomsHosted, Present, RequestOK

-----------------------------------------------------------------------------
(* The theorems.                                                            *)

\* The empty registry is consistent.
LEMMA InitOK == ASSUME Init PROVE IInv
<1>1. Empty \in Data
  BY DEF Empty, Data, Opt
<1>2. /\ Present(Empty.devices) = {} /\ Present(Empty.exposures) = {}
      /\ Present(Empty.routes) = {} /\ Present(Empty.rooms) = {}
      /\ Present(Empty.members) = {}
  BY DEF Empty, Present
<1>3. Sound(Empty, {})
  BY <1>1, <1>2 DEF Sound, IdsIssued, Consistent, ClaimsUnique, ReferencesLive, RoomsHosted
<1>4. \A w \in Worker : Idle("none") \in Requests /\ RequestOK(Idle("none"), Empty)
  BY DEF Idle, Requests, Opt, RequestOK
<1>5. req \in [Worker -> Requests] /\ \A w \in Worker : req[w] = Idle("none")
  BY <1>4 DEF Init
<1>6. 0 \in 0..MaxRequests
  BY RegistryAssumption
<1> QED BY <1>1, <1>3, <1>4, <1>5, <1>6 DEF Init, IInv, TypeOK

\* Every step keeps the invariant.
LEMMA NextOK == ASSUME IInv, [Next]_vars PROVE IInv'
<1>1. CASE UNCHANGED vars
  BY <1>1 DEF vars, IInv, TypeOK, Sound, IdsIssued, Consistent, ClaimsUnique,
     ReferencesLive, RoomsHosted, Present, RequestOK
<1>2. CASE Restart
  BY <1>2, RestartOK
<1>3. ASSUME NEW w \in Worker, Handle(w) PROVE IInv'
  BY <1>3, CreateGroupOK, JoinGroupOK, CreateNodeOK, DeleteNodeOK, CreateRoomOK,
     JoinRoomOK, RoomLoginOK, AuthenticateOK, CreatePrivateExposureOK,
     CreatePublicExposureOK, UpdateExposureOK, DeleteExposureOK,
     CreateAccessRouteOK, UpdateRoomOK, DeleteRoomOK, ReadersOK DEF Handle
<1> QED BY <1>1, <1>2, <1>3 DEF Next

\* The invariant holds in every reachable state.
THEOREM RegistryInvariance == Spec => []IInv
<1>1. Init => IInv
  BY InitOK
<1>2. IInv /\ [Next]_vars => IInv'
  BY NextOK
<1> QED BY <1>1, <1>2, PTL DEF Spec

\* The registry and the requests in flight are well typed.
THEOREM RegistryTyped == Spec => []TypeOK
<1>1. IInv => TypeOK
  BY DEF IInv
<1> QED BY <1>1, RegistryInvariance, PTL

\* No port or domain is allocated twice, nothing refers to what was deleted and
\* every room has its host, in memory and in server.json, whatever handlers
\* interleave, whichever saves fail and whenever the server dies.
THEOREM RegistryStaysConsistent == Spec => []RegistryConsistent
<1>1. IInv => RegistryConsistent
  BY DEF IInv, Sound, RegistryConsistent
<1> QED BY <1>1, RegistryInvariance, PTL

-----------------------------------------------------------------------------
(* What no step of the server may do: the action properties.  They concern    *)
(* handlers whose credentials were checked in an earlier section, so the       *)
(* invariant says what is left of that check in the later one: the room may be *)
(* gone, but its id is never issued again and its host never changes.  The     *)
(* last section proves that what the plugin grants is what was allocated.      *)

\* What a request r past its first section may rely on when memory is d.
Pending(r, d, ids) ==
    r.pc # "idle" =>
        /\ r.res = "none"
        /\ r.op \in RoomOp =>
              /\ r.op.auth \in ids
              /\ d.rooms[r.op.auth] # None => d.rooms[r.op.auth].host = r.op.member

AllPending == \A w \in Worker : Pending(req[w], mem, issued)

-----------------------------------------------------------------------------
(* What the steps of a handler do to rooms, exposures and requests.          *)

\* An operation on rooms is recognised by its kind.
LEMMA RoomKinds ==
  ASSUME NEW op \in Op
  PROVE  /\ op \in RoomOp <=> op.kind \in {"deleteRoom", "newProxy", "updateRoom"}
         /\ op \in RoomOp => op.auth \in Room /\ op.room \in Room /\ op.member \in Member
BY DEF Op, DeviceOp, RoomOp

\* The handler manages room r with credentials for it.
Manages(w, r) ==
    /\ req[w].pc = "authed" /\ req[w].op.kind \in {"updateRoom", "deleteRoom"}
    /\ req[w].op.auth = r /\ req[w].op.room = r
    /\ mem.rooms[r] # None

NewRoom(r) ==
    \E x \in Member : mem'.rooms = [mem.rooms EXCEPT ![r] = [host |-> x, enabled |-> TRUE]]

EditedRoom(r) ==
    \/ \E b \in BOOLEAN : mem'.rooms = [mem.rooms EXCEPT ![r].enabled = b]
    \/ mem'.rooms = [mem.rooms EXCEPT ![r] = None]

\* Rooms appear under new ids and are edited only by handlers that manage them.
LEMMA StepOnRooms ==
  ASSUME IInv, NEW w \in Worker, Handle(w)
  PROVE  \/ mem'.rooms = mem.rooms
         \/ \E r \in Room \ issued : NewRoom(r)
         \/ \E r \in Room : Manages(w, r) /\ EditedRoom(r)
<1> USE DEF UpdateThenAnswer, Saved, SaveFails
<1>1. mem \in Data
  BY DEF IInv, TypeOK
<1>2. CASE CreateRoom(w)
  <2>1. PICK r \in Room, x \in Member :
          /\ r \notin issued
          /\ mem' = [mem EXCEPT !.rooms[r] = [host |-> x, enabled |-> TRUE],
                                !.members[x] = [room |-> r, role |-> "host"]]
    BY <1>2 DEF CreateRoom, Issue
  <2> QED BY <1>1, <2>1 DEF Data, NewRoom
<1>3. CASE UpdateRoom(w)
  <2>1. req[w].pc = "authed" /\ req[w].op.kind = "updateRoom" /\ req[w].op \in Op
    BY <1>3 DEF UpdateRoom, Authed, IInv, RequestOK
  <2>2. req[w].op.room \in Room /\ req[w].op.enabled \in BOOLEAN
    BY <2>1 DEF Op, DeviceOp, RoomOp
  <2>3. CASE mem' = mem
    BY <2>3
  <2>4. CASE /\ mem.rooms[req[w].op.room] # None /\ req[w].op.room = req[w].op.auth
             /\ mem' = [mem EXCEPT !.rooms[req[w].op.room].enabled = req[w].op.enabled]
    BY <1>1, <2>1, <2>2, <2>4 DEF Data, Manages, EditedRoom
  <2> QED BY <1>3, <2>3, <2>4 DEF UpdateRoom, Refuse
<1>4. CASE DeleteRoom(w)
  <2>1. req[w].pc = "authed" /\ req[w].op.kind = "deleteRoom" /\ req[w].op \in Op
    BY <1>4 DEF DeleteRoom, Authed, IInv, RequestOK
  <2>2. req[w].op.room \in Room
    BY <2>1 DEF Op, DeviceOp, RoomOp
  <2>3. CASE mem' = mem
    BY <2>3
  <2>4. CASE /\ mem.rooms[req[w].op.room] # None /\ req[w].op.room = req[w].op.auth
             /\ \E kept : mem' = [mem EXCEPT !.rooms[req[w].op.room] = None, !.members = kept]
    BY <1>1, <2>1, <2>2, <2>4 DEF Data, Manages, EditedRoom
  <2> QED BY <1>4, <2>3, <2>4 DEF DeleteRoom, Refuse
<1>5. CASE CreateGroup(w) \/ JoinGroup(w) \/ CreateNode(w) \/ DeleteNode(w) \/ JoinRoom(w)
  BY <1>1, <1>5 DEF CreateGroup, JoinGroup, CreateNode, DeleteNode, JoinRoom, Data
<1>6. CASE RoomLogin(w) \/ Authenticate(w) \/ ViewRoom(w) \/ NewProxy(w)
  BY <1>6 DEF RoomLogin, Authenticate, ViewRoom, NewProxy
<1>7. CASE \/ CreatePrivateExposure(w) \/ CreatePublicExposure(w) \/ UpdateExposure(w)
           \/ DeleteExposure(w) \/ CreateAccessRoute(w)
  BY <1>1, <1>7 DEF CreatePrivateExposure, CreatePublicExposure, UpdateExposure,
     DeleteExposure, CreateAccessRoute, Refuse, Data
<1> QED BY <1>2, <1>3, <1>4, <1>5, <1>6, <1>7 DEF Handle

\* Whatever happens to exposure e, one that is gone and was issued stays gone.
StepOnExposure(e) ==
    \/ mem'.exposures[e] = mem.exposures[e]
    \/ e \notin issued
    \/ mem.exposures[e] # None

\* An exposure that is gone is not put back.
LEMMA StepOnExposures ==
  ASSUME IInv, NEW w \in Worker, Handle(w), NEW e \in Exposure
  PROVE  StepOnExposure(e)
<1> USE DEF UpdateThenAnswer, Saved, SaveFails, StepOnExposure
<1>1. mem \in Data
  BY DEF IInv, TypeOK
<1>2. CASE CreatePrivateExposure(w)
  BY <1>1, <1>2 DEF CreatePrivateExposure, Issue, Data
<1>3. CASE CreatePublicExposure(w)
  BY <1>1, <1>3 DEF CreatePublicExposure, Issue, Refuse, Data
<1>4. CASE UpdateExposure(w) \/ DeleteExposure(w)
  BY <1>1, <1>4 DEF UpdateExposure, DeleteExposure, Owned, Refuse, Data
<1>5. CASE \/ CreateGroup(w) \/ JoinGroup(w) \/ CreateNode(w) \/ DeleteNode(w)
           \/ CreateRoom(w) \/ JoinRoom(w) \/ CreateAccessRoute(w)
  BY <1>1, <1>5 DEF CreateGroup, JoinGroup, CreateNode, DeleteNode, CreateRoom, JoinRoom,
     CreateAccessRoute, Refuse, Data
<1>6. CASE UpdateRoom(w) \/ DeleteRoom(w)
  BY <1>1, <1>6 DEF UpdateRoom, DeleteRoom, Refuse, Data
<1>7. CASE RoomLogin(w) \/ Authenticate(w) \/ ViewRoom(w) \/ NewProxy(w)
  BY <1>7 DEF RoomLogin, Authenticate, ViewRoom, NewProxy
<1> QED BY <1>2, <1>3, <1>4, <1>5, <1>6, <1>7 DEF Handle

\* The credentials that were checked, in the request as they are stored.
Checked(w) ==
    /\ req[w].pc = "idle"
    /\ \E op \in Op :
          /\ req' = [req EXCEPT ![w] = [pc |-> "authed", op |-> op, res |-> "none"]]
          /\ op \in RoomOp => ValidMember(op.auth, op.member, {"host"})
          /\ UNCHANGED <<mem, issued>>

\* A step answers its request, accepts one, or leaves its room to be viewed.
LEMMA StepOnRequests ==
  ASSUME IInv, NEW w \in Worker, Handle(w)
  PROVE  \/ \E res \in {"ok", "err"} : Answer(w, res)
         \/ Checked(w)
         \/ req[w].pc = "authed" /\ req' = [req EXCEPT ![w].pc = "view"]
<1> USE DEF UpdateThenAnswer, Saved, SaveFails
<1>1. CASE Authenticate(w)
  BY <1>1 DEF Authenticate, Accept, Checked
<1>2. CASE UpdateRoom(w)
  BY <1>2 DEF UpdateRoom, Refuse, Authed
<1>3. CASE \/ CreateGroup(w) \/ JoinGroup(w) \/ CreateNode(w) \/ DeleteNode(w)
           \/ CreateRoom(w) \/ JoinRoom(w) \/ RoomLogin(w)
  BY <1>3 DEF CreateGroup, JoinGroup, CreateNode, DeleteNode, CreateRoom, JoinRoom, RoomLogin
<1>4. CASE \/ CreatePrivateExposure(w) \/ CreatePublicExposure(w) \/ UpdateExposure(w)
           \/ DeleteExposure(w) \/ CreateAccessRoute(w) \/ DeleteRoom(w)
  BY <1>4 DEF CreatePrivateExposure, CreatePublicExposure, UpdateExposure, DeleteExposure,
     CreateAccessRoute, DeleteRoom, Refuse
<1>5. CASE ViewRoom(w) \/ NewProxy(w)
  BY <1>5 DEF ViewRoom, NewProxy
<1> QED BY <1>1, <1>2, <1>3, <1>4, <1>5 DEF Handle

\* No id is taken back.
LEMMA IssuedGrows == ASSUME NEW w \in Worker, Handle(w) PROVE issued \subseteq issued'
BY DEF Handle, CreateGroup, JoinGroup, CreateNode, DeleteNode, CreateRoom, JoinRoom, RoomLogin,
   Authenticate, CreatePrivateExposure, CreatePublicExposure, UpdateExposure, DeleteExposure,
   CreateAccessRoute, UpdateRoom, ViewRoom, DeleteRoom, NewProxy, Refuse, Issue

-----------------------------------------------------------------------------
(* The invariant of the requests in flight.                                  *)

\* A room that was issued keeps its host for as long as it is there.
LEMMA HostsStay ==
  ASSUME IInv, NEW w \in Worker, Handle(w), NEW r \in Room \intersect issued, mem'.rooms[r] # None
  PROVE  mem.rooms[r] # None /\ mem'.rooms[r].host = mem.rooms[r].host
<1>1. mem.rooms \in [Room -> Opt(RoomRecord)]
  BY DEF IInv, TypeOK, Data
<1>2. ASSUME NEW s \in Room, Manages(w, s), EditedRoom(s)
      PROVE  mem.rooms[r] # None /\ mem'.rooms[r].host = mem.rooms[r].host
  <2>1. mem.rooms[s] \in RoomRecord
    BY <1>1, <1>2 DEF Manages, Opt
  <2>2. CASE r = s
    BY <1>1, <1>2, <2>1, <2>2 DEF EditedRoom, RoomRecord, Manages
  <2>3. CASE r # s
    BY <1>1, <1>2, <2>3 DEF EditedRoom
  <2> QED BY <2>2, <2>3
<1>3. ASSUME NEW s \in Room \ issued, NewRoom(s)
      PROVE  mem.rooms[r] # None /\ mem'.rooms[r].host = mem.rooms[r].host
  BY <1>1, <1>3 DEF NewRoom
<1> QED BY <1>2, <1>3, StepOnRooms

\* A request accepted now has its credentials; those in flight keep theirs.
LEMMA HandleKeepsPending ==
  ASSUME IInv, AllPending, NEW w \in Worker, Handle(w)
  PROVE  AllPending'
<1>1. req \in [Worker -> Requests]
  BY DEF IInv, TypeOK
<1>2. ASSUME NEW v \in Worker, Pending(req[v], mem, issued) PROVE Pending(req[v], mem', issued')
  <2>1. ASSUME req[v].pc # "idle", req[v].op \in RoomOp PROVE req[v].op.auth \in Room
    BY <2>1, RoomKinds DEF Op
  <2> QED BY <1>2, <2>1, HostsStay, IssuedGrows DEF Pending
<1>3. CASE \E res \in {"ok", "err"} : Answer(w, res)
  BY <1>1, <1>2, <1>3 DEF AllPending, Answer, Idle, Pending
<1>4. CASE Checked(w)
  <2>1. PICK op \in Op :
          /\ req' = [req EXCEPT ![w] = [pc |-> "authed", op |-> op, res |-> "none"]]
          /\ op \in RoomOp => ValidMember(op.auth, op.member, {"host"})
          /\ UNCHANGED <<mem, issued>>
    BY <1>4 DEF Checked
  <2>2. ASSUME op \in RoomOp PROVE op.auth \in issued /\ mem.rooms[op.auth].host = op.member
    <3>1. op.auth \in Room /\ op.member \in Member
      BY <2>2, RoomKinds
    <3>2. mem.rooms[op.auth] # None /\ mem.members[op.member] # None
          /\ mem.members[op.member].room = op.auth /\ mem.members[op.member].role = "host"
      BY <2>1, <2>2 DEF ValidMember
    <3> QED BY <3>1, <3>2 DEF IInv, TypeOK, Sound, Data, IdsIssued, Present, Consistent, RoomsHosted
  <2>3. Pending([pc |-> "authed", op |-> op, res |-> "none"], mem, issued)
    BY <2>2 DEF Pending
  <2> QED BY <1>1, <2>1, <2>3 DEF AllPending
<1>5. CASE req[w].pc = "authed" /\ req' = [req EXCEPT ![w].pc = "view"]
  <2>1. Pending(req'[w], mem', issued')
    BY <1>1, <1>2, <1>5 DEF AllPending, Pending, Requests
  <2>2. \A v \in Worker \ {w} : req'[v] = req[v]
    BY <1>1, <1>5
  <2> QED BY <1>2, <2>1, <2>2 DEF AllPending
<1> QED BY <1>3, <1>4, <1>5, StepOnRequests

\* Nothing is in flight after the server died.
LEMMA RestartKeepsPending == ASSUME IInv, Restart PROVE AllPending'
BY DEF Restart, AllPending, Pending, Idle

\* The requests in flight keep what they rely on.
LEMMA PendingInductive == ASSUME IInv, AllPending, [Next]_vars PROVE AllPending'
<1>1. CASE UNCHANGED vars
  BY <1>1 DEF vars, AllPending, Pending
<1> QED BY <1>1, HandleKeepsPending, RestartKeepsPending DEF Next

\* ... in every reachable state.
LEMMA PendingAlways == Spec => []AllPending
<1>1. Init => AllPending
  BY DEF Init, AllPending, Pending, Idle
<1>2. IInv /\ AllPending /\ [Next]_vars => AllPending'
  BY PendingInductive
<1> QED BY <1>1, <1>2, RegistryInvariance, PTL DEF Spec

-----------------------------------------------------------------------------
(* The theorems.                                                            *)

\* A handler's answer is its own: the requests of the others stay as they are.
LEMMA OthersUnanswered ==
  ASSUME IInv, NEW w \in Worker, Handle(w), NEW v \in Worker \ {w}
  PROVE  req'[v] = req[v]
<1>1. req \in [Worker -> Requests]
  BY DEF IInv, TypeOK
<1> QED BY <1>1, StepOnRequests DEF Answer, Checked

\* The step of a handler that performs a mutation saves it.
LEMMA PerformedSaves ==
  ASSUME IInv, AllPending, NEW w \in Worker, Handle(w), Performed(w)
  PROVE  disk' = mem'
<1>1. req \in [Worker -> Requests] /\ req[w].pc = "authed" /\ req[w].op.kind # "newProxy"
  BY DEF IInv, TypeOK, Performed
<1>2. ~ Answer(w, "err")
  BY <1>1 DEF Performed, Answer, Idle
<1>3. \A d : UpdateThenAnswer(w, d) => disk' = mem'
  BY <1>2 DEF UpdateThenAnswer, Saved
<1>4. CASE \/ CreateGroup(w) \/ JoinGroup(w) \/ CreateNode(w) \/ DeleteNode(w)
           \/ CreateRoom(w) \/ JoinRoom(w) \/ RoomLogin(w) \/ Authenticate(w)
  BY <1>1, <1>4 DEF CreateGroup, JoinGroup, CreateNode, DeleteNode, CreateRoom, JoinRoom,
     RoomLogin, Authenticate, Accept
<1>5. CASE \/ CreatePrivateExposure(w) \/ CreatePublicExposure(w) \/ UpdateExposure(w)
           \/ DeleteExposure(w) \/ CreateAccessRoute(w) \/ DeleteRoom(w)
  BY <1>2, <1>3, <1>5, Zenon DEF CreatePrivateExposure, CreatePublicExposure, UpdateExposure,
     DeleteExposure, CreateAccessRoute, DeleteRoom, Refuse
<1>6. CASE UpdateRoom(w)
  BY <1>2, <1>6 DEF UpdateRoom, Refuse, Saved, SaveFails
<1>7. CASE ViewRoom(w) \/ NewProxy(w)
  BY <1>1, <1>7 DEF ViewRoom, NewProxy, Authed
<1> QED BY <1>4, <1>5, <1>6, <1>7 DEF Handle

\* A mutation answered with success is in server.json, and with it everything
\* that earlier failed saves had left in memory only.
THEOREM AckedMutationsAreDurable == Spec => AckedIsDurable
<1>1. ASSUME IInv, AllPending, [Next]_vars
      PROVE  [\A w \in Worker : Performed(w) => disk' = mem']_vars
  <2>1. ASSUME NEW v \in Worker, Handle(v), NEW w \in Worker, Performed(w) PROVE disk' = mem'
    <3>1. CASE v = w
      BY <1>1, <2>1, <3>1, PerformedSaves
    <3>2. CASE v # w
      BY <1>1, <2>1, <3>2, OthersUnanswered DEF Performed, AllPending, Pending
    <3> QED BY <3>1, <3>2
  <2>2. CASE Restart
    BY <2>2 DEF Restart, Performed, Idle
  <2> QED BY <1>1, <2>1, <2>2 DEF Next
<1> QED BY <1>1, RegistryInvariance, PendingAlways, PTL DEF Spec, AckedIsDurable

\* What memory and server.json have both lost never returns.
THEOREM DeletedIsGoneForGood == Spec => GoneForGood
<1>1. ASSUME IInv, [Next]_vars
      PROVE  [/\ \A r \in Room \intersect issued :
                    mem.rooms[r] = None /\ disk.rooms[r] = None => mem'.rooms[r] = None
              /\ \A e \in Exposure \intersect issued :
                    mem.exposures[e] = None /\ disk.exposures[e] = None =>
                        mem'.exposures[e] = None]_vars
  <2>1. ASSUME NEW w \in Worker, Handle(w), NEW r \in Room \intersect issued,
               mem.rooms[r] = None
        PROVE  mem'.rooms[r] = None
    BY <1>1, <2>1, HostsStay
  <2>2. ASSUME NEW w \in Worker, Handle(w), NEW e \in Exposure \intersect issued,
               mem.exposures[e] = None
        PROVE  mem'.exposures[e] = None
    BY <1>1, <2>2, StepOnExposures DEF StepOnExposure
  <2>3. CASE Restart
    BY <2>3 DEF Restart, Saved
  <2> QED BY <1>1, <2>1, <2>2, <2>3 DEF Next
<1> QED BY <1>1, RegistryInvariance, PTL DEF Spec, GoneForGood

\* frps is told to accept the proxy of a room only while the room is enabled, and
\* for its host.
THEOREM OnlyEnabledRoomsAreAccepted == Spec => AcceptedIsHostOfEnabledRoom
<1> DEFINE Accepted(w) == req[w].pc = "authed" /\ req[w].op.kind = "newProxy" /\ req'[w].res = "ok"
           Granted(w) == LET room == mem.rooms[req[w].op.room]
                         IN  room # None /\ room.enabled /\ room.host = req[w].op.member
<1>1. ASSUME IInv, AllPending, [Next]_vars
      PROVE  [\A w \in Worker : Accepted(w) => Granted(w)]_vars
  <2>1. ASSUME NEW v \in Worker, Handle(v), NEW w \in Worker, Accepted(w) PROVE Granted(w)
    <3>1. v = w
      BY <1>1, <2>1, OthersUnanswered DEF AllPending, Pending
    <3>2. req \in [Worker -> Requests] /\ req[w].op \in Op
      BY <1>1, <2>1 DEF IInv, TypeOK, RequestOK
    <3>3. req[w].op \in RoomOp
      BY <2>1, <3>2, RoomKinds
    <3>4. NewProxy(w)
      BY <2>1, <3>1 DEF Handle, CreateGroup, JoinGroup, CreateNode, DeleteNode, CreateRoom,
         JoinRoom, RoomLogin, Authenticate, CreatePrivateExposure, CreatePublicExposure,
         UpdateExposure, DeleteExposure, CreateAccessRoute, UpdateRoom, ViewRoom, DeleteRoom,
         Accept, Authed
    <3>5. /\ mem.rooms[req[w].op.auth] # None /\ mem.rooms[req[w].op.auth].enabled
          /\ req[w].op.room = req[w].op.auth
      BY <2>1, <3>2, <3>4 DEF NewProxy, Answer, Idle
    <3> QED BY <1>1, <2>1, <3>3, <3>5 DEF AllPending, Pending
  <2>2. CASE Restart
    BY <2>2 DEF Restart, Idle
  <2> QED BY <1>1, <2>1, <2>2 DEF Next
<1> QED BY <1>1, RegistryInvariance, PendingAlways, PTL DEF Spec, AcceptedIsHostOfEnabledRoom

\* Only the host of a room changes or deletes it.
THEOREM RoomsAreManagedByTheirHost == Spec => OnlyHostManages
<1>1. ASSUME IInv, AllPending, [Next]_vars
      PROVE  [\A r \in Present(mem.rooms) :
                  mem'.rooms[r] # mem.rooms[r] =>
                      \/ Restarted
                      \/ \E w \in Worker : /\ req[w].pc = "authed"
                                           /\ req[w].op \in RoomOp
                                           /\ req[w].op.room = r
                                           /\ req[w].op.member = mem.rooms[r].host]_vars
  <2>1. ASSUME NEW w \in Worker, Handle(w), NEW r \in Present(mem.rooms),
               mem'.rooms[r] # mem.rooms[r]
        PROVE  /\ req[w].pc = "authed" /\ req[w].op \in RoomOp
               /\ req[w].op.room = r /\ req[w].op.member = mem.rooms[r].host
    <3>1. mem.rooms \in [Room -> Opt(RoomRecord)] /\ r \in Room \intersect issued
          /\ mem.rooms[r] # None
      BY <1>1, <2>1 DEF IInv, TypeOK, Data, Sound, IdsIssued, Present
    <3>2. \A s \in Room \ issued : NewRoom(s) => mem'.rooms[r] = mem.rooms[r]
      BY <3>1 DEF NewRoom
    <3>3. \A s \in Room : EditedRoom(s) /\ s # r => mem'.rooms[r] = mem.rooms[r]
      BY <3>1 DEF EditedRoom
    <3>4. Manages(w, r)
      BY <1>1, <2>1, <3>2, <3>3, StepOnRooms
    <3>5. req[w].op \in Op /\ req[w].pc = "authed" /\ req[w].op.room = r /\ req[w].op.auth = r
          /\ req[w].op.kind \in {"updateRoom", "deleteRoom"}
      BY <1>1, <3>4 DEF Manages, IInv, RequestOK
    <3>6. req[w].op \in RoomOp
      BY <3>5, RoomKinds
    <3> QED BY <1>1, <3>1, <3>5, <3>6 DEF AllPending, Pending
  <2>2. CASE Restart
    BY <2>2 DEF Restart, Restarted
  <2> QED BY <1>1, <2>1, <2>2 DEF Next
<1> QED BY <1>1, RegistryInvariance, PendingAlways, PTL DEF Spec, OnlyHostManages

-----------------------------------------------------------------------------
(* What the plugin grants for exposures.                                     *)

\* Every claimed port is one its node hands out.
HandedOut(d, ids) ==
    /\ Present(d.nodes) \subseteq ids
    /\ \A e \in Present(d.exposures) :
          LET x == d.exposures[e] IN
          x.node # None /\ x.protocol = "tcp" => x.port \in d.nodes[x.node].ports

PortsHandedOut == HandedOut(mem, issued) /\ HandedOut(disk, issued)

\* The edit of a handler that saves, or fails to.
LEMMA SavedHandedOut ==
  ASSUME NEW w \in Worker, PortsHandedOut, NEW d, UpdateThenAnswer(w, d),
         issued \subseteq issued', HandedOut(d, issued')
  PROVE  PortsHandedOut'
<1>1. HandedOut(disk, issued')
  BY DEF PortsHandedOut, HandedOut
<1>2. mem' = d /\ disk' \in {d, disk}
  BY DEF UpdateThenAnswer, Saved, SaveFails
<1> QED BY <1>1, <1>2 DEF PortsHandedOut, HandedOut

\* Where neither nodes nor exposures change.
LEMMA SameHandedOut ==
  ASSUME NEW d, NEW e, NEW ids, NEW more, HandedOut(d, ids), ids \subseteq more,
         e.nodes = d.nodes, e.exposures = d.exposures
  PROVE  HandedOut(e, more)
BY DEF HandedOut

\* An exposure replaced by one whose port its node hands out, or by none.
LEMMA PutHandedOut ==
  ASSUME NEW d \in Data, NEW e, NEW x \in Exposure, NEW new, NEW ids, NEW more,
         HandedOut(d, ids), ids \subseteq more,
         e.nodes = d.nodes, e.exposures = [d.exposures EXCEPT ![x] = new],
         new # None /\ new.node # None /\ new.protocol = "tcp" =>
             new.port \in d.nodes[new.node].ports
  PROVE  HandedOut(e, more)
<1>1. \A y \in Exposure : e.exposures[y] = IF y = x THEN new ELSE d.exposures[y]
  BY DEF Data
<1>2. DOMAIN e.exposures = Exposure /\ DOMAIN d.exposures = Exposure
  BY DEF Data
<1> QED BY <1>1, <1>2 DEF HandedOut, Present

\* A new node is no exposure's, and a deleted one is no exposure's any more.
LEMMA NodeHandedOut ==
  ASSUME NEW d \in Data, NEW e, NEW n \in Node, NEW new \in Opt(NodeRecord), NEW ids, NEW more,
         HandedOut(d, ids), ids \subseteq more, new # None => n \in more,
         e.exposures = d.exposures, e.nodes = [d.nodes EXCEPT ![n] = new],
         \A f \in Present(d.exposures) : d.exposures[f].node # n
  PROVE  HandedOut(e, more)
<1>1. \A m \in Node : e.nodes[m] = IF m = n THEN new ELSE d.nodes[m]
  BY DEF Data
<1>2. DOMAIN e.nodes = Node /\ DOMAIN d.nodes = Node
  BY DEF Data
<1>3. Present(e.nodes) \subseteq more
  BY <1>1, <1>2 DEF HandedOut, Present
<1>4. \A f \in Present(d.exposures) : d.exposures[f].node \in Opt(Node)
  BY DEF Present, Data, Opt, ExposureRecord
<1>5. ASSUME NEW f \in Present(e.exposures),
             e.exposures[f].node # None, e.exposures[f].protocol = "tcp"
      PROVE  e.exposures[f].port \in e.nodes[e.exposures[f].node].ports
  <2>1. d.exposures[f].node \in Node /\ d.exposures[f].node # n
    BY <1>4, <1>5 DEF Opt
  <2> QED BY <1>1, <1>5, <2>1 DEF HandedOut
<1> QED BY <1>3, <1>5 DEF HandedOut

\* The handlers that touch neither nodes nor exposures.
LEMMA OthersKeepPorts ==
  ASSUME IInv, PortsHandedOut, NEW w \in Worker,
         \/ CreateGroup(w) \/ JoinGroup(w) \/ CreateRoom(w) \/ JoinRoom(w) \/ RoomLogin(w)
         \/ CreateAccessRoute(w) \/ DeleteRoom(w)
  PROVE  PortsHandedOut'
<1>1. mem \in Data /\ issued \subseteq issued'
  BY IssuedGrows DEF IInv, TypeOK, Handle
<1>2. ASSUME NEW d, UpdateThenAnswer(w, d), d.nodes = mem.nodes, d.exposures = mem.exposures
      PROVE  PortsHandedOut'
  BY <1>1, <1>2, SavedHandedOut, SameHandedOut DEF PortsHandedOut
<1>3. CASE Refuse(w)
  BY <1>3 DEF Refuse, PortsHandedOut, HandedOut
<1>4. CASE CreateGroup(w) \/ JoinGroup(w)
  BY <1>1, <1>2, <1>4 DEF CreateGroup, JoinGroup, Data
<1>5. CASE CreateRoom(w)
  BY <1>1, <1>2, <1>5 DEF CreateRoom, Data
<1>6. CASE JoinRoom(w) \/ RoomLogin(w)
  BY <1>1, <1>2, <1>6 DEF JoinRoom, RoomLogin, Data
<1>7. CASE CreateAccessRoute(w)
  BY <1>1, <1>2, <1>3, <1>7 DEF CreateAccessRoute, Data
<1>8. CASE DeleteRoom(w)
  BY <1>1, <1>2, <1>3, <1>8 DEF DeleteRoom, Data
<1> QED BY <1>4, <1>5, <1>6, <1>7, <1>8

\* The handlers that do not edit the store with UpdateThenAnswer.
LEMMA ReadersKeepPorts ==
  ASSUME IInv, PortsHandedOut, NEW w \in Worker,
         Authenticate(w) \/ UpdateRoom(w) \/ ViewRoom(w) \/ NewProxy(w)
  PROVE  PortsHandedOut'
<1>1. mem \in Data
  BY DEF IInv, TypeOK
<1>2. /\ issued' = issued /\ mem'.nodes = mem.nodes /\ mem'.exposures = mem.exposures
      /\ disk' \in {disk, mem'}
  <2>1. CASE UpdateRoom(w)
    BY <1>1, <2>1 DEF UpdateRoom, Refuse, Saved, SaveFails, Data
  <2> QED BY <2>1 DEF Authenticate, ViewRoom, NewProxy, Saved, SaveFails
<1> QED BY <1>2 DEF PortsHandedOut, HandedOut

\* The handlers that add and delete nodes.
LEMMA NodesKeepPorts ==
  ASSUME IInv, PortsHandedOut, NEW w \in Worker, CreateNode(w) \/ DeleteNode(w)
  PROVE  PortsHandedOut'
<1>1. mem \in Data /\ issued \subseteq issued' /\ ReferencesLive(mem) /\ HandedOut(mem, issued)
      /\ DOMAIN mem.nodes = Node
  BY IssuedGrows DEF IInv, TypeOK, Sound, Consistent, Handle, PortsHandedOut, Data
<1>2. CASE CreateNode(w)
  <2>1. PICK n \in Node, c \in NodeConfig :
            Issue({n}) /\ UpdateThenAnswer(w, [mem EXCEPT !.nodes[n] = c])
    BY <1>2 DEF CreateNode
  <2> DEFINE e == [mem EXCEPT !.nodes[n] = c]
  <2>2. n \notin issued /\ n \in issued' /\ c \in Opt(NodeRecord)
    BY <2>1, RecordsPresent DEF Issue, Opt
  <2>3. ASSUME NEW f \in Present(mem.exposures) PROVE mem.exposures[f].node # n
    <3>1. mem.nodes[n] = None
      BY <1>1, <2>2 DEF HandedOut, Present
    <3> QED BY <1>1, <3>1, RecordsPresent DEF ReferencesLive
  <2>4. e.exposures = mem.exposures /\ e.nodes = [mem.nodes EXCEPT ![n] = c]
    BY <1>1 DEF Data
  <2>5. HandedOut(e, issued')
    BY <1>1, <2>2, <2>3, <2>4, NodeHandedOut
  <2> QED BY <1>1, <2>1, <2>5, SavedHandedOut
<1>3. CASE DeleteNode(w)
  <2>1. PICK n \in Present(mem.nodes) :
            /\ \A f \in Present(mem.exposures) : mem.exposures[f].node # n
            /\ UpdateThenAnswer(w, [mem EXCEPT !.nodes[n] = None])
    BY <1>3 DEF DeleteNode
  <2> DEFINE e == [mem EXCEPT !.nodes[n] = None]
  <2>2. n \in Node /\ None \in Opt(NodeRecord)
    BY <1>1 DEF Present, Opt
  <2>3. e.exposures = mem.exposures /\ e.nodes = [mem.nodes EXCEPT ![n] = None]
    BY <1>1 DEF Data
  <2>4. HandedOut(e, issued')
    BY <1>1, <2>1, <2>2, <2>3, NodeHandedOut
  <2> QED BY <1>1, <2>1, <2>4, SavedHandedOut
<1> QED BY <1>2, <1>3

\* The handlers that claim and free ports.
LEMMA ExposuresKeepPorts ==
  ASSUME IInv, PortsHandedOut, NEW w \in Worker,
         \/ CreatePrivateExposure(w) \/ CreatePublicExposure(w)
         \/ UpdateExposure(w) \/ DeleteExposure(w)
  PROVE  PortsHandedOut'
<1> DEFINE op == req[w].op
<1>1. mem \in Data /\ issued \subseteq issued' /\ HandedOut(mem, issued)
  BY IssuedGrows DEF IInv, TypeOK, Handle, PortsHandedOut
<1>2. CASE Refuse(w)
  BY <1>2 DEF Refuse, PortsHandedOut, HandedOut
<1>3. ASSUME NEW d, UpdateThenAnswer(w, d), NEW x \in Exposure, NEW new,
             d.nodes = mem.nodes, d.exposures = [mem.exposures EXCEPT ![x] = new],
             new # None /\ new.node # None /\ new.protocol = "tcp" =>
                 new.port \in mem.nodes[new.node].ports
      PROVE  PortsHandedOut'
  <2>1. HandedOut(d, issued')
    BY <1>1, <1>3, PutHandedOut
  <2> QED BY <1>1, <1>3, <2>1, SavedHandedOut
<1>4. CASE CreatePrivateExposure(w)
  <2> DEFINE c == [group |-> op.group, device |-> op.device, node |-> None,
                   protocol |-> "xtcp", port |-> None, domain |-> None, enabled |-> TRUE]
  <2>1. PICK x \in Exposure : UpdateThenAnswer(w, [mem EXCEPT !.exposures[x] = c])
    BY <1>4 DEF CreatePrivateExposure
  <2>2. /\ [mem EXCEPT !.exposures[x] = c].nodes = mem.nodes
        /\ [mem EXCEPT !.exposures[x] = c].exposures = [mem.exposures EXCEPT ![x] = c]
    BY <1>1 DEF Data
  <2>3. c.node = None
    OBVIOUS
  <2> QED BY <1>3, <2>1, <2>2, <2>3
<1>5. CASE CreatePublicExposure(w) /\ ~ Refuse(w)
  <2> DEFINE c == [group |-> op.group, device |-> op.device, node |-> op.node,
                   protocol |-> op.protocol, port |-> op.port,
                   domain |-> op.domain, enabled |-> TRUE]
  <2>1. Allocatable(op)
        /\ \E x \in Exposure : UpdateThenAnswer(w, [mem EXCEPT !.exposures[x] = c])
    BY <1>5 DEF CreatePublicExposure
  <2>2. PICK x \in Exposure : UpdateThenAnswer(w, [mem EXCEPT !.exposures[x] = c])
    BY <2>1
  <2>3. /\ [mem EXCEPT !.exposures[x] = c].nodes = mem.nodes
        /\ [mem EXCEPT !.exposures[x] = c].exposures = [mem.exposures EXCEPT ![x] = c]
    BY <1>1 DEF Data
  <2>4. c.protocol = "tcp" => c.port \in mem.nodes[c.node].ports
    BY <2>1 DEF Allocatable
  <2> HIDE DEF c
  <2> QED BY <1>3, <2>2, <2>3, <2>4
<1>6. ASSUME UpdateExposure(w) \/ DeleteExposure(w), ~ Refuse(w)
      PROVE  op.exposure \in Exposure /\ mem.exposures[op.exposure] # None
  <2>1. Owned(op) /\ req[w].pc = "authed" /\ op.kind \in {"updateExposure", "deleteExposure"}
    BY <1>6 DEF UpdateExposure, DeleteExposure, Authed
  <2>2. op \in Op
    BY <2>1 DEF IInv, RequestOK
  <2> QED BY <2>1, <2>2 DEF Owned, Op, DeviceOp, RoomOp
<1>7. CASE UpdateExposure(w) /\ ~ Refuse(w)
  <2> DEFINE x == op.exposure
             c == [mem.exposures[x] EXCEPT !.enabled = op.enabled]
             e == [mem EXCEPT !.exposures[x].enabled = op.enabled]
  <2>1. UpdateThenAnswer(w, e)
    BY <1>7 DEF UpdateExposure
  <2>2. e.nodes = mem.nodes /\ e.exposures = [mem.exposures EXCEPT ![x] = c]
    BY <1>1 DEF Data
  <2>3. mem.exposures[x] \in ExposureRecord /\ x \in Present(mem.exposures) /\ x \in Exposure
    BY <1>1, <1>6, <1>7 DEF Data, Opt, Present
  <2>4. c.node = mem.exposures[x].node /\ c.protocol = mem.exposures[x].protocol
        /\ c.port = mem.exposures[x].port
    BY <2>3 DEF ExposureRecord
  <2>5. c.node # None /\ c.protocol = "tcp" => c.port \in mem.nodes[c.node].ports
    BY <1>1, <2>3, <2>4 DEF HandedOut
  <2> HIDE DEF c, e
  <2> QED BY <1>3, <2>1, <2>2, <2>3, <2>5
<1>8. CASE DeleteExposure(w) /\ ~ Refuse(w)
  <2> DEFINE kept(route) == route # None /\ route.exposure # op.exposure
             e == [mem EXCEPT !.exposures[op.exposure] = None,
                              !.routes = [x \in Route |->
                                  IF kept(mem.routes[x]) THEN mem.routes[x] ELSE None]]
  <2>1. UpdateThenAnswer(w, e)
    BY <1>8 DEF DeleteExposure
  <2>2. e.nodes = mem.nodes /\ e.exposures = [mem.exposures EXCEPT ![op.exposure] = None]
    BY <1>1 DEF Data
  <2> HIDE DEF e
  <2> QED BY <1>3, <1>6, <1>8, <2>1, <2>2
<1> QED BY <1>2, <1>4, <1>5, <1>7, <1>8

\* Every step keeps claimed ports among those handed out.
LEMMA PortsInductive == ASSUME IInv, PortsHandedOut, [Next]_vars PROVE PortsHandedOut'
<1>1. CASE UNCHANGED vars
  BY <1>1 DEF vars, PortsHandedOut, HandedOut
<1>2. CASE Restart
  BY <1>2 DEF Restart, Saved, PortsHandedOut, HandedOut
<1>3. ASSUME NEW w \in Worker, Handle(w) PROVE PortsHandedOut'
  BY <1>3, OthersKeepPorts, ReadersKeepPorts, NodesKeepPorts, ExposuresKeepPorts DEF Handle
<1> QED BY <1>1, <1>2, <1>3 DEF Next

\* ... in every reachable state.
LEMMA PortsAlways == Spec => []PortsHandedOut
<1>1. Init => PortsHandedOut
  BY DEF Init, PortsHandedOut, HandedOut, Empty, Present
<1>2. IInv /\ PortsHandedOut /\ [Next]_vars => PortsHandedOut'
  BY PortsInductive
<1> QED BY <1>1, <1>2, RegistryInvariance, PTL DEF Spec

\* A tcp proxy is granted to one public exposure of a node, on a port the node hands
\* out.  (A private exposure has no node, and may be granted any proxy.)
THEOREM GrantsFollowTheAllocation == Spec => []GrantsAreAllocated
<1>1. ASSUME IInv, PortsHandedOut, NEW e \in Present(mem.exposures), NEW proxy \in Proxy,
             mem.exposures[e].node # None, proxy.type = "tcp", ProxyGranted(e, proxy)
      PROVE  LET node == mem.exposures[e].node IN
             /\ mem.nodes[node] # None /\ proxy.port \in mem.nodes[node].ports
             /\ \A f \in Present(mem.exposures) :
                   mem.exposures[f].node = node /\ ProxyGranted(f, proxy) => f = e
  <2>1. mem \in Data /\ ReferencesLive(mem) /\ ClaimsUnique(mem) /\ HandedOut(mem, issued)
    BY <1>1 DEF IInv, TypeOK, Sound, Consistent, PortsHandedOut
  <2>2. mem.exposures[e].protocol = "tcp" /\ mem.nodes[mem.exposures[e].node] # None
    BY <1>1, <2>1 DEF ProxyGranted, ReferencesLive
  <2>3. mem.nodes[mem.exposures[e].node] \in NodeRecord
    BY <1>1, <2>1, <2>2 DEF Data, Opt, Present, ExposureRecord
  <2>4. ASSUME NEW f \in Present(mem.exposures), mem.exposures[f].protocol = "tcp",
               mem.exposures[f].node # None, ProxyGranted(f, proxy)
        PROVE  mem.exposures[f].port = proxy.port
    <3>1. mem.exposures[f].port \in mem.nodes[mem.exposures[f].node].ports
      BY <2>1, <2>4 DEF HandedOut
    <3>2. mem.nodes[mem.exposures[f].node] # None
      BY <2>1, <2>4 DEF ReferencesLive
    <3>3. mem.nodes[mem.exposures[f].node] \in NodeRecord
      BY <2>1, <2>4, <3>2 DEF Data, Opt, Present, ExposureRecord
    <3>4. mem.exposures[f].port # None
      BY <3>1, <3>3, RegistryAssumption DEF NodeRecord
    <3> QED BY <2>4, <3>4 DEF ProxyGranted
  <2>5. proxy.port = mem.exposures[e].port /\ proxy.port \in mem.nodes[mem.exposures[e].node].ports
    BY <1>1, <2>1, <2>2, <2>4 DEF HandedOut
  <2>6. ASSUME NEW f \in Present(mem.exposures), mem.exposures[f].node = mem.exposures[e].node,
               ProxyGranted(f, proxy)
        PROVE  f = e
    <3>1. mem.exposures[f].protocol = "tcp"
      BY <1>1, <2>6 DEF ProxyGranted
    <3>2. mem.exposures[f].port = mem.exposures[e].port
      BY <1>1, <2>4, <2>5, <2>6, <3>1
    <3> QED BY <2>1, <2>2, <2>6, <3>1, <3>2 DEF ClaimsUnique
  <2> QED BY <2>2, <2>5, <2>6
<1>2. IInv /\ PortsHandedOut => GrantsAreAllocated
  BY <1>1 DEF GrantsAreAllocated
<1> QED BY <1>2, RegistryInvariance, PortsAlways, PTL
=============================================================================
