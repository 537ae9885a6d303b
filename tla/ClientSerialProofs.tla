------------------------- MODULE ClientSerialProofs -------------------------
(***************************************************************************)
(* What the configuration pipeline promises while one handler is at work at a  *)
(* time: an edit is durable and served when it is answered with success,     *)
(* restored when it fails, and atomic, for any nodes, rules and requests.    *)
(* Each theorem names the failures it allows.  With two handlers every one of *)
(* these promises can be broken, because no lock spans a request.            *)
(***************************************************************************)
EXTENDS ClientApplyProofs

-----------------------------------------------------------------------------
(* One handler at a time.  Its snapshot is then the store until it commits,  *)
(* and its clone is the store from there to the answer.                     *)

\* What an edit in place does to the store.
EditsInPlace(d, e) ==
    /\ Store!Edit(d, e)
    /\ Renderable(d) => Renderable(e)

\* What storing an answer of the control server does to it.
AnswersInPlace(d, e) ==
    \E x \in Device \union {d.device}, t \in SUBSET Exposure :
        /\ e = [d EXCEPT !.device = x, !.exposures = t]
        /\ x # d.device => d.server # "none"

\* The ways to begin a request.
BeginCase(w) ==
    \/ \E new \in Data : BeginApply(w, new) /\ Consistent(new) /\ Store!Edit(mem, new)
    \/ \E n \in Present(mem.nodes), c \in NodeConfig :
          /\ ~ EnabledRuleUsesNode(mem, n)
          /\ Begin(w, "inplace", "inplace", n, [mem EXCEPT !.nodes[n] = c])
    \/ Begin(w, "reload", "snapshot", DefaultNode, None)
    \/ \E new \in Data : UpdateStore(w, new) /\ Consistent(new) /\ EditsInPlace(mem, new)
    \/ \E new \in Data : StoreAnswer(w, new) /\ Consistent(new) /\ AnswersInPlace(mem, new)

\* Where a request in flight stands.
Phase(r) ==
    /\ r.pc = "idle" => r.kind = "none"
    /\ r.pc = "snapshot" => r.kind \in {"config", "reload"}
    /\ r.pc = "resnap" => r.kind = "reload"
    /\ r.pc = "write" => r.kind \in {"apply", "config", "reload"}
    /\ r.pc \in {"stop", "apply"} => r.kind \in {"apply", "reload"}
    /\ r.pc = "inplace" => r.kind = "inplace"

\* How the store relates to what the handler read and will write.
SnapshotIsStore(r) ==
    /\ r.pc = "inplace" => r.old = mem
    /\ r.pc = "write" /\ r.kind # "apply" => r.new = mem
    /\ r.pc \in {"stop", "apply"} => r.new = mem
    /\ r.pc \in {"stop", "apply"} /\ r.kind = "apply" => disk = mem
    /\ /\ r.kind = "apply"
       /\ r.pc \in {"verify", "write", "commit", "rewrite", "undostop", "undoapply"}
       => r.old = mem

\* The handler's request is undisturbed.
Alone(h) == Phase(req[h]) /\ SnapshotIsStore(req[h])

\* Putting one value in place is an edit of the abstract store.
LEMMA PutIsEdit ==
    ASSUME NEW d \in Data, NEW x
    PROVE  /\ \A n \in Node : Store!Edit(d, [d EXCEPT !.nodes[n] = x])
           /\ \A i \in RuleId : Store!Edit(d, [d EXCEPT !.rules[i] = x])
           /\ \A i \in RoomId : Store!Edit(d, [d EXCEPT !.rooms[i] = x])
           /\ Store!Edit(d, [d EXCEPT !.server = x])
<1>1. ASSUME NEW n \in Node PROVE Store!Edit(d, [d EXCEPT !.nodes[n] = x])
  <2> DEFINE e == [d EXCEPT !.nodes[n] = x]
  <2>1. e.nodes[n] = x
    BY DEF Data
  <2> QED BY <2>1 DEF Store!Edit
<1>2. ASSUME NEW i \in RuleId PROVE Store!Edit(d, [d EXCEPT !.rules[i] = x])
  <2> DEFINE e == [d EXCEPT !.rules[i] = x]
  <2>1. e.rules[i] = x
    BY DEF Data
  <2> QED BY <2>1 DEF Store!Edit
<1>3. ASSUME NEW i \in RoomId PROVE Store!Edit(d, [d EXCEPT !.rooms[i] = x])
  <2> DEFINE e == [d EXCEPT !.rooms[i] = x]
  <2>1. e.rooms[i] = x
    BY DEF Data
  <2> QED BY <2>1 DEF Store!Edit
<1>4. Store!Edit(d, [d EXCEPT !.server = x])
  <2> DEFINE e == [d EXCEPT !.server = x]
  <2>1. e.server = x
    BY DEF Data
  <2> QED BY <2>1 DEF Store!Edit
<1> QED BY <1>1, <1>2, <1>3, <1>4

\* Data that differ only in nodes no enabled rule uses render alike.
LEMMA UnusedNodesRender ==
    ASSUME NEW d \in Data, NEW e \in Data, Consistent(d), Consistent(e),
           e.rules = d.rules, e.rooms = d.rooms,
           e.server = d.server \/ e.server = "frps", e.device = d.device,
           \A i \in EnabledRules(d) : e.nodes[d.rules[i].node] = d.nodes[d.rules[i].node],
           Renderable(d)
    PROVE  Renderable(e)
<1>1. /\ EnabledRules(e) = EnabledRules(d)
      /\ EnabledRooms(e) = EnabledRooms(d)
      /\ UsesDirectMode(e) => UsesDirectMode(d)
  BY DEF EnabledRules, EnabledRooms, UsesDirectMode, Present
<1>2. ASSUME NEW i \in EnabledRules(d), ValidPortRule(d, i, d.rules[i])
      PROVE  ValidPortRule(e, i, e.rules[i])
  BY <1>2 DEF ValidPortRule, Present
<1>3. ASSUME NEW i \in EnabledRooms(d), ValidRoomRule(d, i, d.rooms[i])
      PROVE  ValidRoomRule(e, i, e.rooms[i])
  BY <1>1, <1>3 DEF ValidRoomRule
<1>4. e.nodes[DefaultNode] # None
  BY DEF Consistent
<1> QED BY <1>1, <1>2, <1>3, <1>4 DEF Renderable

\* Setting a node no enabled rule uses is an edit in place.
LEMMA SetNodeInPlace ==
    ASSUME NEW d \in Data, NEW n \in Node, NEW x \in Opt(NodeRecord), Consistent(d),
           ~ EnabledRuleUsesNode(d, n) \/ d.nodes[n] = None,
           [d EXCEPT !.nodes[n] = x] \in Data,
           Consistent([d EXCEPT !.nodes[n] = x])
    PROVE  EditsInPlace(d, [d EXCEPT !.nodes[n] = x])
<1> DEFINE e == [d EXCEPT !.nodes[n] = x]
<1>1. /\ e.rules = d.rules /\ e.rooms = d.rooms /\ e.server = d.server /\ e.device = d.device
      /\ \A m \in Node \ {n} : e.nodes[m] = d.nodes[m]
  BY DEF Data
<1>2. EnabledRules(d) \subseteq Present(d.rules) /\ Present(d.rules) \subseteq RuleId
  BY DEF EnabledRules, Present, Data
<1>3. \A i \in EnabledRules(d) : d.rules[i].node \in Node \ {n}
  BY <1>2 DEF EnabledRuleUsesNode, Consistent, RulesHaveNodes, Present, Data, Opt, PortRule
<1>4. Renderable(d) => Renderable(e)
  <2>1. e \in Data /\ Consistent(e)
    OBVIOUS
  <2>2. \A i \in EnabledRules(d) : e.nodes[d.rules[i].node] = d.nodes[d.rules[i].node]
    BY <1>1, <1>3
  <2> HIDE DEF e
  <2> QED BY <1>1, <2>1, <2>2, UnusedNodesRender
<1> QED BY <1>4, PutIsEdit DEF EditsInPlace

\* A request begins in one of five ways.
LEMMA BeginCases ==
    ASSUME IInv, NEW w \in Worker, BeginRequest(w)
    PROVE  BeginCase(w)
<1>1. mem \in Data /\ Consistent(mem)
  BY DEF IInv, TypeOK, StoreConsistent
<1>2. /\ \A i \in Present(mem.rules) : i \in RuleId /\ mem.rules[i] \in PortRule
      /\ \A i \in Present(mem.rooms) : i \in RoomId /\ mem.rooms[i] \in RoomRule
      /\ Present(mem.nodes) \subseteq Node
  BY <1>1 DEF Present, Data, Opt
<1>3. CASE CreatePortRule(w)
  BY <1>1, <1>3, PutRuleConsistent, PutIsEdit DEF CreatePortRule, BeginCase
<1>4. CASE UpdatePortRule(w)
  BY <1>1, <1>2, <1>4, PutRuleConsistent, PutIsEdit DEF UpdatePortRule, BeginCase
<1>5. CASE PatchPortRule(w)
  <2>1. PICK i \in Present(mem.rules), enabled \in BOOLEAN :
           LET rule == [mem.rules[i] EXCEPT !.enabled = enabled] IN
           /\ ValidPortRule(mem, i, rule)
           /\ BeginApply(w, [mem EXCEPT !.rules[i] = rule])
    BY <1>5 DEF PatchPortRule
  <2>2. [mem.rules[i] EXCEPT !.enabled = enabled] \in PortRule
    BY <1>2 DEF PortRule
  <2> DEFINE new == [mem EXCEPT !.rules[i] = [mem.rules[i] EXCEPT !.enabled = enabled]]
  <2>3. new \in Data /\ Consistent(new) /\ Store!Edit(mem, new)
    BY <1>1, <1>2, <2>1, <2>2, PutRuleConsistent, PutIsEdit
  <2> QED BY <2>1, <2>3 DEF BeginCase
<1>6. CASE DeletePortRule(w)
  BY <1>1, <1>2, <1>6, DropRuleConsistent, PutIsEdit DEF DeletePortRule, BeginCase
<1>7. CASE SaveRoomRule(w)
  BY <1>1, <1>7, PutRoomConsistent, PutIsEdit DEF SaveRoomRule, BeginCase
<1>8. CASE PatchRoomRule(w)
  <2>1. PICK i \in Present(mem.rooms), enabled \in BOOLEAN :
           LET room == [mem.rooms[i] EXCEPT !.enabled = enabled] IN
           /\ ValidRoomRule(mem, i, room)
           /\ BeginApply(w, [mem EXCEPT !.rooms[i] = room])
    BY <1>8 DEF PatchRoomRule
  <2>2. [mem.rooms[i] EXCEPT !.enabled = enabled] \in RoomRule
    BY <1>2 DEF RoomRule
  <2> DEFINE new == [mem EXCEPT !.rooms[i] = [mem.rooms[i] EXCEPT !.enabled = enabled]]
  <2>3. new \in Data /\ Consistent(new) /\ Store!Edit(mem, new)
    BY <1>1, <1>2, <2>1, <2>2, PutRoomConsistent, PutIsEdit
  <2> QED BY <2>1, <2>3 DEF BeginCase
<1>9. CASE DeleteRoomRule(w)
  BY <1>1, <1>2, <1>9, DropRoomConsistent, PutIsEdit DEF DeleteRoomRule, BeginCase
<1>10. CASE UpdateNode(w)
  <2>1. PICK n \in Present(mem.nodes), c \in NodeConfig :
           LET new == [mem EXCEPT !.nodes[n] = c] IN
           IF EnabledRuleUsesNode(mem, n)
           THEN BeginApply(w, new)
           ELSE Begin(w, "inplace", "inplace", n, new)
    BY <1>10 DEF UpdateNode
  <2>2. n \in Node /\ c \in NodeRecord
    BY <1>2, WorldAssumption
  <2>3. /\ [mem EXCEPT !.nodes[n] = c] \in Data /\ Consistent([mem EXCEPT !.nodes[n] = c])
        /\ Store!Edit(mem, [mem EXCEPT !.nodes[n] = c])
    BY <1>1, <2>2, PutNodeConsistent, PutIsEdit
  <2> QED BY <2>1, <2>3 DEF BeginCase
<1>11. CASE Reload(w)
  BY <1>11 DEF Reload, BeginCase
<1>12. CASE CreateExposure(w) \/ DeleteExposure(w) \/ JoinGroup(w)
  <2>1. PICK x \in Device \union {mem.device}, t \in SUBSET Exposure :
           /\ StoreAnswer(w, [mem EXCEPT !.device = x, !.exposures = t])
           /\ x # mem.device => mem.server # "none"
    <3>1. CASE CreateExposure(w) \/ DeleteExposure(w)
      <4>1. PICK t \in SUBSET Exposure : StoreAnswer(w, [mem EXCEPT !.exposures = t])
        BY <1>1, <3>1, AnswersOfExposures DEF CreateExposure, DeleteExposure
      <4>2. [mem EXCEPT !.exposures = t] = [mem EXCEPT !.device = mem.device, !.exposures = t]
        BY <1>1 DEF Data
      <4> QED BY <4>1, <4>2
    <3>2. CASE JoinGroup(w)
      <4>1. PICK x \in Device : StoreAnswer(w, [mem EXCEPT !.device = x]) /\ mem.server # "none"
        BY <3>2 DEF JoinGroup
      <4>2. /\ [mem EXCEPT !.device = x] = [mem EXCEPT !.device = x, !.exposures = mem.exposures]
            /\ mem.exposures \in SUBSET Exposure
        BY <1>1 DEF Data
      <4> QED BY <4>1, <4>2
    <3> QED BY <1>12, <3>1, <3>2
  <2> DEFINE new == [mem EXCEPT !.device = x, !.exposures = t]
  <2>2. x \in Opt(Device)
    BY <1>1 DEF Data, Opt
  <2>3. new \in Data /\ Consistent(new)
    <3> DEFINE joined == [mem EXCEPT !.device = x]
    <3>1. joined \in Data /\ Consistent(joined)
      BY <1>1, <2>2, LegacyConsistent
    <3>2. [joined EXCEPT !.exposures = t] \in Data /\ Consistent([joined EXCEPT !.exposures = t])
      BY <3>1, LegacyConsistent
    <3>3. [joined EXCEPT !.exposures = t] = new
      BY <1>1 DEF Data
    <3> QED BY <3>2, <3>3
  <2>4. AnswersInPlace(mem, new)
    BY <2>1 DEF AnswersInPlace
  <2> QED BY <2>1, <2>3, <2>4 DEF BeginCase
<1>13. CASE CreateNode(w)
  <2>1. PICK n \in Node \ Present(mem.nodes), c \in NodeConfig :
           UpdateStore(w, [mem EXCEPT !.nodes[n] = c])
    BY <1>13 DEF CreateNode
  <2>2. mem.nodes[n] = None /\ c \in NodeRecord /\ c \in Opt(NodeRecord)
    BY <1>1, WorldAssumption DEF Present, Data, Opt
  <2>3. [mem EXCEPT !.nodes[n] = c] \in Data /\ Consistent([mem EXCEPT !.nodes[n] = c])
    BY <1>1, <2>2, PutNodeConsistent
  <2>4. EditsInPlace(mem, [mem EXCEPT !.nodes[n] = c])
    BY <1>1, <2>2, <2>3, SetNodeInPlace
  <2> QED BY <2>1, <2>3, <2>4 DEF BeginCase
<1>14. CASE DeleteNode(w)
  <2>1. PICK n \in Present(mem.nodes) \ {DefaultNode} :
           /\ \A i \in Present(mem.rules) : mem.rules[i].node # n
           /\ UpdateStore(w, [mem EXCEPT !.nodes[n] = None])
    BY <1>14 DEF DeleteNode
  <2>2. n \in Node \ {DefaultNode} /\ ~ EnabledRuleUsesNode(mem, n) /\ None \in Opt(NodeRecord)
    BY <1>2, <2>1 DEF EnabledRuleUsesNode, EnabledRules, Opt
  <2>3. [mem EXCEPT !.nodes[n] = None] \in Data /\ Consistent([mem EXCEPT !.nodes[n] = None])
    BY <1>1, <2>1, <2>2, DropNodeConsistent
  <2>4. EditsInPlace(mem, [mem EXCEPT !.nodes[n] = None])
    BY <1>1, <2>2, <2>3, SetNodeInPlace
  <2> QED BY <2>1, <2>3, <2>4 DEF BeginCase
<1>15. CASE ConfigureServer(w)
  <2>1. PICK mode \in ServerModes : UpdateStore(w, [mem EXCEPT !.server = mode])
    BY <1>15 DEF ConfigureServer
  <2> DEFINE e == [mem EXCEPT !.server = mode]
  <2>2. mode = "frps"
    BY WorldAssumption
  <2>3. e \in Data /\ Consistent(e)
    BY <1>1, <2>2, LegacyConsistent
  <2>4. /\ e.rules = mem.rules /\ e.rooms = mem.rooms /\ e.nodes = mem.nodes
        /\ e.server = "frps" /\ e.device = mem.device
    BY <1>1, <2>2 DEF Data
  <2>5. EditsInPlace(mem, e)
    BY <1>1, <2>3, <2>4, UnusedNodesRender, PutIsEdit DEF EditsInPlace
  <2> QED BY <2>1, <2>3, <2>5 DEF BeginCase
<1> QED
  BY <1>3, <1>4, <1>5, <1>6, <1>7, <1>8, <1>9, <1>10, <1>11, <1>12, <1>13, <1>14, <1>15
  DEF BeginRequest

-----------------------------------------------------------------------------
(* A handler that is alone.                                                 *)

\* What a handler holds after moving on, and after answering.
LEMMA HandlerMoves ==
    ASSUME IInv, NEW h \in Worker
    PROVE  /\ req[h] \in Requests /\ RequestOK(req[h])
           /\ \A pc, todo : Goto(h, pc, todo) =>
                 /\ req'[h].pc = pc /\ req'[h].todo = todo
                 /\ req'[h].kind = req[h].kind /\ req'[h].node = req[h].node
                 /\ req'[h].old = req[h].old /\ req'[h].new = req[h].new
                 /\ req'[h].res = req[h].res
           /\ \A res : Finish(h, res) =>
                 /\ req'[h].pc = "idle" /\ req'[h].kind = "none" /\ req'[h].res = res
           /\ \A kind, pc, node, new : Begin(h, kind, pc, node, new) =>
                 /\ req[h].pc = "idle"
                 /\ req'[h].pc = pc /\ req'[h].kind = kind /\ req'[h].node = node
                 /\ req'[h].old = mem /\ req'[h].new = new /\ req'[h].res = "none"
                 /\ UNCHANGED <<mem, disk, files, running>>
<1>1. req \in [Worker -> Requests] /\ RequestOK(req[h])
  BY DEF IInv, TypeOK
<1>2. req[h] \in Requests
  BY <1>1
<1>3. ASSUME NEW pc, NEW todo, Goto(h, pc, todo)
      PROVE  /\ req'[h].pc = pc /\ req'[h].todo = todo
             /\ req'[h].kind = req[h].kind /\ req'[h].node = req[h].node
             /\ req'[h].old = req[h].old /\ req'[h].new = req[h].new
             /\ req'[h].res = req[h].res
  <2> DEFINE r == [req[h] EXCEPT !.pc = pc, !.todo = todo]
  <2>1. req'[h] = r
    BY <1>1, <1>3 DEF Goto
  <2>2. /\ r.pc = pc /\ r.todo = todo /\ r.kind = req[h].kind /\ r.node = req[h].node
        /\ r.old = req[h].old /\ r.new = req[h].new /\ r.res = req[h].res
    BY <1>2 DEF Requests
  <2> QED BY <2>1, <2>2
<1>4. ASSUME NEW res, Finish(h, res)
      PROVE  req'[h].pc = "idle" /\ req'[h].kind = "none" /\ req'[h].res = res
  BY <1>1, <1>4 DEF Finish, Idle
<1>5. ASSUME NEW kind, NEW pc, NEW node, NEW new, Begin(h, kind, pc, node, new)
      PROVE  /\ req[h].pc = "idle"
             /\ req'[h].pc = pc /\ req'[h].kind = kind /\ req'[h].node = node
             /\ req'[h].old = mem /\ req'[h].new = new /\ req'[h].res = "none"
             /\ UNCHANGED <<mem, disk, files, running>>
  BY <1>1, <1>5 DEF Begin, Accept
<1> QED BY <1>1, <1>2, <1>3, <1>4, <1>5

\* At first no handler holds anything.
LEMMA AloneInit ==
    ASSUME Init, NEW h \in Worker
    PROVE  Alone(h)
BY DEF Init, Alone, Phase, SnapshotIsStore, Idle

\* Starting a request.
LEMMA AloneBegins ==
    ASSUME IInv, NEW h \in Worker, BeginRequest(h), Alone(h)
    PROVE  Alone(h)'
<1>1. BeginCase(h)
  BY BeginCases
<1>2. CASE \E new : BeginApply(h, new)
  BY <1>2, HandlerMoves DEF BeginApply, Alone, Phase, SnapshotIsStore
<1>3. CASE \E n, new : Begin(h, "inplace", "inplace", n, new)
  BY <1>3, HandlerMoves DEF Alone, Phase, SnapshotIsStore
<1>4. CASE Begin(h, "reload", "snapshot", DefaultNode, None)
  BY <1>4, HandlerMoves DEF Alone, Phase, SnapshotIsStore
<1>5. CASE \E res : Finish(h, res)
  BY <1>5, HandlerMoves DEF Alone, Phase, SnapshotIsStore
<1>6. CASE \E new : StoreAnswer(h, new)
  <2>1. CASE req' = [req EXCEPT ![h] = [Idle("none") EXCEPT !.pc = "snapshot", !.kind = "config"]]
    <3>1. req'[h].pc = "snapshot" /\ req'[h].kind = "config"
      BY <2>1 DEF Idle, IInv, TypeOK
    <3> QED BY <3>1 DEF Alone, Phase, SnapshotIsStore
  <2> QED BY <1>5, <1>6, <2>1 DEF StoreAnswer
<1> QED BY <1>1, <1>2, <1>3, <1>4, <1>5, <1>6 DEF BeginCase, UpdateStore

\* Going on with it.
LEMMA AloneSteps ==
    ASSUME IInv, NEW h \in Worker, RequestStep(h), Alone(h)
    PROVE  Alone(h)'
<1>1. req[h] \in Requests /\ RequestOK(req[h])
  BY HandlerMoves
<1>2. CASE \E res : Finish(h, res)
  BY <1>2, HandlerMoves DEF Alone, Phase, SnapshotIsStore
<1>3. CASE UpdateNodeInPlace(h)
  BY <1>2, <1>3 DEF UpdateNodeInPlace
<1>4. CASE SnapshotConfig(h)
  <2>1. CASE req' = [req EXCEPT ![h] = [@ EXCEPT !.new = mem,
                       !.pc = IF req[h].pc = "snapshot" THEN "write" ELSE "stop",
                       !.todo = ActiveKeys(mem)]]
    <3>1. /\ req'[h].pc = IF req[h].pc = "snapshot" THEN "write" ELSE "stop"
          /\ req'[h].new = mem /\ req'[h].kind = req[h].kind
      BY <1>1, <2>1 DEF IInv, TypeOK, Requests
    <3> QED BY <1>4, <3>1 DEF SnapshotConfig, Alone, Phase, SnapshotIsStore
  <2> QED BY <1>2, <1>4, <2>1 DEF SnapshotConfig
<1>5. CASE Verify(h)
  BY <1>1, <1>2, <1>5, HandlerMoves DEF Verify, Alone, Phase, SnapshotIsStore, RequestOK
<1>6. ASSUME LoopEnds(h), UNCHANGED <<mem, disk>>, req[h].pc \in LoopPhases
      PROVE  Alone(h)'
  BY <1>1, <1>2, <1>6, HandlerMoves
  DEF LoopEnds, Alone, Phase, SnapshotIsStore, RequestOK, UndoPhases, LoopPhases
<1>7. ASSUME NEW k, LoopGoesOn(h, k), UNCHANGED <<mem, disk>>, req[h].pc \in LoopPhases
      PROVE  Alone(h)'
  BY <1>6, <1>7, HandlerMoves DEF LoopGoesOn, Alone, Phase, SnapshotIsStore
<1>8. CASE WriteFile(h)
  BY <1>2, <1>6, <1>7, <1>8 DEF WriteFile, LoopPhases
<1>9. CASE Commit(h)
  BY <1>1, <1>2, <1>9, HandlerMoves
  DEF Commit, Saved, SaveFails, Alone, Phase, SnapshotIsStore, RequestOK
<1>10. CASE StopStale(h)
  BY <1>1, <1>10, HandlerMoves DEF StopStale, Alone, Phase, SnapshotIsStore, RequestOK, UndoPhases
<1>11. CASE ReloadKey(h)
  <2>1. CASE Goto(h, "rollback", {})
    BY <1>11, <2>1, HandlerMoves DEF ReloadKey, Alone, Phase, SnapshotIsStore
  <2> QED BY <1>2, <1>7, <1>11, <2>1 DEF ReloadKey, LoopPhases
<1>12. CASE Rollback(h)
  BY <1>1, <1>2, <1>12, HandlerMoves
  DEF Rollback, Saved, SaveFails, Alone, Phase, SnapshotIsStore, RequestOK, UndoPhases
<1> QED BY <1>3, <1>4, <1>5, <1>8, <1>9, <1>10, <1>11, <1>12 DEF RequestStep

\* With one handler nobody else changes the store under a request.
LEMMA AloneNext ==
    ASSUME NEW h, Worker = {h}, IInv, Alone(h), [Next]_vars
    PROVE  Alone(h)'
<1>1. CASE \E w \in Worker : BeginRequest(w) \/ RequestStep(w)
  BY <1>1, AloneBegins, AloneSteps
<1>2. CASE Restart
  BY <1>2 DEF Restart, Idle, Alone, Phase, SnapshotIsStore
<1>3. CASE \E k \in Key : FrpcExits(k)
  BY <1>3 DEF FrpcExits, Alone, Phase, SnapshotIsStore
<1>4. CASE UNCHANGED vars
  BY <1>4 DEF vars, Alone, Phase, SnapshotIsStore
<1> QED BY <1>1, <1>2, <1>3, <1>4 DEF Next

\* A lone handler's snapshot is the store until it commits, always.
LEMMA AloneAlways ==
    ASSUME NEW h, Worker = {h}
    PROVE  Spec => []Alone(h)
<1>1. Init => Alone(h)
  BY AloneInit
<1>2. IInv /\ Alone(h) /\ [Next]_vars => Alone(h)'
  BY AloneNext
<1> QED BY <1>1, <1>2, Invariance, PTL DEF Spec

\* The process manager deals with a key without an error.
KeyApplies(h, k) ==
    \/ /\ Keeps(h, k) /\ Readable(k)
       /\ running' = [running EXCEPT ![k] = Reloaded(k)]
    \/ /\ MayRestart(h, k)
       /\ \/ running' = [running EXCEPT ![k] = Started(k, RenderKey(Goal(h), k).server)]
          \/ "ports" \in Faults /\ running' = [running EXCEPT ![k] = None]

\* A request that applied a configuration ends with success only after the last
\* key: its process was reloaded or started from the file.
LEMMA AnswerOfApply ==
    ASSUME NEW h, Worker = {h}, IInv, Alone(h), Next, Acked(h), Applies(h)
    PROVE  /\ req[h].pc = "apply" /\ UNCHANGED <<mem, disk, files>>
           /\ \E k \in req[h].todo : req[h].todo = {k} /\ KeyApplies(h, k)
<1>1. req[h] \in Requests /\ RequestOK(req[h])
  BY HandlerMoves
<1>2. Phase(req[h]) /\ req[h].pc # "idle" /\ req'[h].pc = "idle" /\ req'[h].res = "ok"
  BY DEF Alone, Acked
<1>3. req[h].kind \in {"apply", "reload"}
  BY DEF Applies
<1>4. ~ BeginRequest(h)
  <2> SUFFICES ASSUME BeginRequest(h) PROVE FALSE
    OBVIOUS
  <2>1. BeginCase(h)
    BY BeginCases
  <2> QED BY <1>2, <2>1, HandlerMoves DEF BeginCase, BeginApply, Begin, UpdateStore, StoreAnswer, Accept
<1>5. RequestStep(h)
  <2>1. ~ Restart
    BY <1>2 DEF Restart, Idle
  <2>2. ~ \E k \in Key : FrpcExits(k)
    BY <1>2 DEF FrpcExits
  <2> QED BY <1>4, <2>1, <2>2 DEF Next
<1>6. ASSUME LoopEnds(h), req[h].pc \in LoopPhases PROVE req[h].pc = "apply"
  BY <1>2, <1>3, <1>6, HandlerMoves DEF LoopEnds, LoopPhases, Phase
<1>7. ASSUME NEW k, LoopGoesOn(h, k), req[h].pc \in LoopPhases
      PROVE  req[h].pc = "apply" /\ req[h].todo = {k}
  BY <1>2, <1>6, <1>7, HandlerMoves DEF LoopGoesOn, LoopPhases
<1>8. ~ UpdateNodeInPlace(h)
  BY <1>2, <1>3 DEF UpdateNodeInPlace, Phase
<1>9. ~ SnapshotConfig(h)
  <2> SUFFICES ASSUME SnapshotConfig(h) PROVE FALSE
    OBVIOUS
  <2>1. ~ Finish(h, "err")
    BY <1>2, HandlerMoves
  <2>2. req' = [req EXCEPT ![h] = [@ EXCEPT !.new = mem,
                  !.pc = IF req[h].pc = "snapshot" THEN "write" ELSE "stop",
                  !.todo = ActiveKeys(mem)]]
    BY <2>1 DEF SnapshotConfig
  <2>3. req'[h].pc = IF req[h].pc = "snapshot" THEN "write" ELSE "stop"
    BY <1>1, <2>2 DEF IInv, TypeOK, Requests
  <2> QED BY <1>2, <2>3
<1>10. ~ Verify(h)
  BY <1>2, HandlerMoves DEF Verify
<1>11. ~ WriteFile(h)
  BY <1>2, <1>6, <1>7, HandlerMoves DEF WriteFile, LoopPhases
<1>12. ~ Commit(h) /\ ~ StopStale(h) /\ ~ Rollback(h)
  BY <1>2, HandlerMoves DEF Commit, StopStale, Rollback
<1>13. ReloadKey(h)
  BY <1>5, <1>8, <1>9, <1>10, <1>11, <1>12 DEF RequestStep
<1>14. ~ Goto(h, "rollback", {}) /\ ~ Finish(h, "err")
  BY <1>2, HandlerMoves
<1>15. PICK k \in req[h].todo : KeyApplies(h, k) /\ LoopGoesOn(h, k)
  BY <1>13, <1>14 DEF ReloadKey, KeyApplies
<1>16. req[h].pc = "apply" /\ req[h].todo = {k}
  BY <1>7, <1>13, <1>15 DEF ReloadKey, LoopPhases
<1> QED BY <1>13, <1>15, <1>16 DEF ReloadKey

\* A lone handler's successful edit is in client.json, whatever fails.
THEOREM SerialEditsAreDurable ==
    ASSUME NEW h, Worker = {h}
    PROVE  Spec => AckedIsDurable
<1> DEFINE Durable == \A w \in Worker : Acked(w) /\ req[w].kind = "apply" => disk' = mem'
<1>1. IInv /\ Alone(h) /\ [Next]_vars => [Durable]_vars
  <2> SUFFICES ASSUME IInv, Alone(h), Next, Acked(h), req[h].kind = "apply" PROVE disk' = mem'
    OBVIOUS
  <2>1. req \in [Worker -> Requests] /\ RequestOK(req[h]) /\ h \in Worker
    BY DEF IInv, TypeOK
  <2>2. req[h].pc = "apply" /\ UNCHANGED <<mem, disk>>
    BY AnswerOfApply DEF Applies
  <2> QED BY <2>2 DEF Alone, SnapshotIsStore
<1> QED BY <1>1, AloneAlways, Invariance, PTL DEF Spec, AckedIsDurable

-----------------------------------------------------------------------------
(* What a lone handler has made of the files and processes so far.           *)

\* The manager knows which server each frpc logged in to.
LoggedIn == \A k \in Key : running[k] # None => running[k].server = running[k].restartKey

\* The files of keys S are those of data d.
Prepared(d, S) == \A k \in S : files[k] = RenderKey(d, k)

\* The files a handler is done with.
FilesReady(r) ==
    /\ r.pc = "write" => Prepared(r.new, ActiveKeys(r.new) \ r.todo)
    /\ r.pc \in {"commit", "stop", "apply"} => Prepared(r.new, ActiveKeys(r.new))
    /\ r.pc = "resnap" => Prepared(mem, ActiveKeys(mem))
    /\ r.pc = "rewrite" => Prepared(r.old, ActiveKeys(r.old) \ r.todo)
    /\ r.pc \in {"undostop", "undoapply"} => Prepared(r.old, ActiveKeys(r.old))

\* The keys a handler is done with.
KeysReady(r) ==
    /\ r.pc = "apply" => \A k \in Key \ r.todo : Served(running[k], r.new, k)
    /\ r.pc = "undoapply" => \A k \in Key \ r.todo : Served(running[k], r.old, k)

\* Files and processes follow the handler.
Follows(h) == LoggedIn /\ FilesReady(req[h]) /\ KeysReady(req[h])

\* The file of an active key can be loaded by frpc.
LEMMA RenderedLoads ==
    ASSUME NEW d \in Data, Consistent(d), NEW k \in ActiveKeys(d)
    PROVE  /\ RenderKey(d, k) \in Config
           /\ RenderKey(d, k) \notin {None, Torn}
<1>1. k \in Key /\ RenderKey(d, k) \in Config
  BY RenderTyped
<1>2. CASE ~ UsesDirectMode(d)
  BY <1>1, <1>2, DataAssumption DEF RenderKey, LegacyConfig, Torn
<1>3. CASE UsesDirectMode(d) /\ k \in RoomId
  BY <1>1, <1>3, DataAssumption DEF RenderKey, RoomConfig, Torn
<1>4. CASE UsesDirectMode(d) /\ k \notin RoomId
  <2>1. d.nodes[k] \in NodeRecord
    <3>1. k \in Node /\ (k \in ActiveNodes(d) \/ k = DefaultNode)
      BY <1>1, <1>4 DEF ActiveKeys, Key, EnabledRooms, Present, Data
    <3>2. d.nodes[k] # None
      BY <3>1 DEF ActiveNodes, EnabledRules, Consistent, RulesHaveNodes
    <3> QED BY <3>1, <3>2 DEF Data, Opt
  <2>2. d.nodes[k].addr # "torn"
    BY <2>1, DataAssumption DEF NodeRecord
  <2> QED BY <1>1, <1>4, <2>2, DataAssumption DEF RenderKey, DirectConfig, Torn
<1> QED BY <1>2, <1>3, <1>4

\* A key that is reloaded, restarted or started from its file serves the data, or
\* has lost its port.
LEMMA KeyApplied ==
    ASSUME NEW h, NEW k \in ActiveKeys(Goal(h)), Goal(h) \in Data, Consistent(Goal(h)),
           running \in [Key -> Opt(Process)], LoggedIn,
           files[k] = RenderKey(Goal(h), k), KeyApplies(h, k)
    PROVE  /\ Served(running'[k], Goal(h), k)
           /\ running'[k] # None => running'[k].server = running'[k].restartKey
           /\ \A j \in Key \ {k} : running'[j] = running[j]
<1> DEFINE c == RenderKey(Goal(h), k)
           p == [restartKey |-> c.server, server |-> c.server,
                 login |-> c.login, proxies |-> c.proxies]
<1>1. k \in Key /\ c \in Config /\ Readable(k)
  BY RenderTyped, RenderedLoads DEF Readable
<1>2. p \in Process /\ p # None
  BY <1>1, DataAssumption DEF Config, Process
<1>3. Started(k, c.server) = p
  BY <1>1 DEF Started
<1>4. ASSUME Keeps(h, k)
      PROVE  /\ Reloaded(k) \in Process /\ Reloaded(k) # None
             /\ Reloaded(k).server = c.server /\ Reloaded(k).restartKey = c.server
             /\ Reloaded(k).proxies = c.proxies
  <2>1. running[k] \in Process /\ running[k].server = c.server /\ running[k].restartKey = c.server
    BY <1>1, <1>4 DEF LoggedIn, Keeps, Opt
  <2>2. Reloaded(k) \in Process
    BY <1>1, <2>1 DEF Reloaded, Process, Config
  <2> QED BY <2>1, <2>2, DataAssumption DEF Reloaded, Process
<1>5. /\ \/ Keeps(h, k) /\ running'[k] = Reloaded(k)
         \/ running'[k] = p
         \/ "ports" \in Faults /\ running'[k] = None
      /\ \A j \in Key \ {k} : running'[j] = running[j]
  BY <1>1, <1>3 DEF KeyApplies
<1>6. CASE Keeps(h, k) /\ running'[k] = Reloaded(k)
  BY <1>4, <1>5, <1>6 DEF Served, Serves
<1>7. CASE running'[k] = p
  BY <1>2, <1>5, <1>7 DEF Served, Serves
<1>8. CASE "ports" \in Faults /\ running'[k] = None
  BY <1>5, <1>8 DEF Served
<1> QED BY <1>5, <1>6, <1>7, <1>8

\* Files and processes that stay are ready where a handler begins or gives up.
LEMMA FollowsQuietly ==
    ASSUME NEW h \in Worker, Follows(h), UNCHANGED running,
           req'[h].pc \in {"idle", "snapshot", "verify", "inplace", "restore", "rollback"}
    PROVE  Follows(h)'
BY DEF Follows, LoggedIn, FilesReady, KeysReady

\* Writing a file.
LEMMA FollowsWrite ==
    ASSUME IInv, NEW h \in Worker, Alone(h), Follows(h), WriteFile(h), "rewrite" \notin Faults
    PROVE  Follows(h)'
<1>1. /\ req[h].pc \in LoopPhases /\ UNCHANGED <<mem, running>>
      /\ req[h].pc \in {"write", "restore", "rewrite"}
  BY DEF WriteFile, LoopPhases
<1>2. CASE Finish(h, "err")
  BY <1>1, <1>2, FollowsQuietly, HandlerMoves
<1>3. CASE ~ Finish(h, "err")
  <2> DEFINE todo == req[h].todo
             d == Goal(h)
  <2>1. PICK k \in todo : files' = [files EXCEPT ![k] = RenderKey(d, k)] /\ LoopGoesOn(h, k)
    BY <1>3 DEF WriteFile
  <2>2. ActiveKeys(d) \subseteq Key /\ todo \subseteq ActiveKeys(d)
    BY <1>1, GoalOK DEF IInv, TypeOK, ReqsOK
  <2>3. files'[k] = RenderKey(d, k) /\ \A j \in Key \ {k} : files'[j] = files[j]
    BY <2>1, <2>2 DEF IInv, TypeOK
  <2>4. LoggedIn'
    BY <1>1 DEF Follows, LoggedIn
  <2>5. req[h].pc \in {"write", "rewrite"} =>
            \A j \in ActiveKeys(d) \ (todo \ {k}) : files'[j] = RenderKey(d, j)
    <3>1. req[h].pc \in {"write", "rewrite"} => Prepared(d, ActiveKeys(d) \ todo)
      BY DEF Follows, FilesReady, Goal
    <3>2. \A j \in ActiveKeys(d) \ (todo \ {k}) : j = k \/ j \in ActiveKeys(d) \ todo
      OBVIOUS
    <3> QED BY <2>2, <2>3, <3>1, <3>2 DEF Prepared
  <2>6. CASE todo # {k}
    BY <1>1, <2>1, <2>4, <2>5, <2>6, HandlerMoves
    DEF LoopGoesOn, Follows, FilesReady, KeysReady, Prepared, Goal
  <2>7. CASE todo = {k}
    BY <1>1, <2>1, <2>4, <2>5, <2>7, HandlerMoves
    DEF LoopGoesOn, LoopEnds, Follows, FilesReady, KeysReady, Prepared, Goal, Alone, SnapshotIsStore
  <2> QED BY <2>6, <2>7
<1> QED BY <1>2, <1>3

\* Reloading, restarting or starting the process of a key.
LEMMA FollowsReload ==
    ASSUME IInv, NEW h \in Worker, Follows(h), ReloadKey(h)
    PROVE  Follows(h)'
<1> DEFINE todo == req[h].todo
           d == Goal(h)
<1>1. /\ req[h].pc \in LoopPhases /\ UNCHANGED <<mem, files>>
      /\ req[h].pc \in {"apply", "undoapply"}
  BY DEF ReloadKey, LoopPhases
<1>2. /\ d \in Data /\ Consistent(d)
      /\ ActiveKeys(d) \subseteq Key /\ todo \subseteq ActiveKeys(d)
  BY <1>1, GoalOK DEF IInv, TypeOK, ReqsOK
<1>3. /\ \A j \in ActiveKeys(d) : files[j] = RenderKey(d, j)
      /\ \A j \in Key \ todo : Served(running[j], d, j)
  BY <1>1 DEF Follows, FilesReady, KeysReady, Prepared, Goal
<1>4. LoggedIn /\ running \in [Key -> Opt(Process)]
  BY DEF Follows, IInv, TypeOK
<1>5. PICK k \in todo :
          \/ KeyApplies(h, k) /\ LoopGoesOn(h, k)
          \/ /\ \/ UNCHANGED running
                \/ running[k] # None /\ running' = [running EXCEPT ![k] = Reloaded(k)]
                \/ running' = [running EXCEPT ![k] = None]
             /\ Goto(h, "rollback", {}) \/ Finish(h, "err")
  BY DEF ReloadKey, KeyApplies, Keeps
<1>6. k \in Key /\ k \in ActiveKeys(d)
  BY <1>2
<1>7. CASE /\ \/ UNCHANGED running
              \/ running[k] # None /\ running' = [running EXCEPT ![k] = Reloaded(k)]
              \/ running' = [running EXCEPT ![k] = None]
           /\ Goto(h, "rollback", {}) \/ Finish(h, "err")
  <2>1. req'[h].pc \in {"rollback", "idle"}
    BY <1>7, HandlerMoves
  <2>2. running[k] # None =>
          Reloaded(k).server = running[k].server /\ Reloaded(k).restartKey = running[k].restartKey
    BY <1>4, <1>6 DEF Reloaded, Opt, Process
  <2>3. LoggedIn'
    BY <1>4, <1>6, <1>7, <2>2 DEF LoggedIn
  <2> QED BY <2>1, <2>3 DEF Follows, FilesReady, KeysReady
<1>8. CASE KeyApplies(h, k) /\ LoopGoesOn(h, k)
  <2>1. /\ Served(running'[k], d, k)
        /\ running'[k] # None => running'[k].server = running'[k].restartKey
        /\ \A j \in Key \ {k} : running'[j] = running[j]
    BY <1>2, <1>3, <1>4, <1>6, <1>8, KeyApplied
  <2>2. LoggedIn'
    BY <1>4, <2>1 DEF LoggedIn
  <2>3. \A j \in Key \ (todo \ {k}) : Served(running'[j], d, j)
    BY <1>3, <2>1
  <2>4. CASE todo # {k}
    BY <1>1, <1>3, <1>8, <2>2, <2>3, <2>4, HandlerMoves
    DEF LoopGoesOn, Follows, FilesReady, KeysReady, Prepared, Goal
  <2>5. CASE todo = {k}
    BY <1>1, <1>8, <2>2, <2>5, HandlerMoves
    DEF LoopGoesOn, LoopEnds, Follows, FilesReady, KeysReady, Prepared, Goal
  <2> QED BY <2>4, <2>5
<1> QED BY <1>5, <1>7, <1>8

\* The other steps of a request.
LEMMA FollowsSteps ==
    ASSUME IInv, NEW h \in Worker, Alone(h), Follows(h), RequestStep(h), "rewrite" \notin Faults
    PROVE  Follows(h)'
<1>1. req[h] \in Requests /\ RequestOK(req[h])
  BY HandlerMoves
<1>2. ASSUME UNCHANGED running, NEW res, Finish(h, res) PROVE Follows(h)'
  BY <1>2, FollowsQuietly, HandlerMoves
<1>3. CASE UpdateNodeInPlace(h)
  BY <1>2, <1>3 DEF UpdateNodeInPlace
<1>4. CASE SnapshotConfig(h)
  <2>1. CASE req' = [req EXCEPT ![h] = [@ EXCEPT !.new = mem,
                       !.pc = IF req[h].pc = "snapshot" THEN "write" ELSE "stop",
                       !.todo = ActiveKeys(mem)]]
    <3>1. /\ req'[h].pc = IF req[h].pc = "snapshot" THEN "write" ELSE "stop"
          /\ req'[h].new = mem /\ req'[h].todo = ActiveKeys(mem)
      BY <1>1, <2>1 DEF IInv, TypeOK, Requests
    <3> QED BY <1>4, <3>1 DEF SnapshotConfig, Follows, LoggedIn, FilesReady, KeysReady, Prepared
  <2> QED BY <1>2, <1>4, <2>1 DEF SnapshotConfig
<1>5. CASE Verify(h)
  <2>1. CASE Goto(h, "write", ActiveKeys(req[h].new))
    BY <1>5, <2>1, HandlerMoves DEF Verify, Follows, LoggedIn, FilesReady, KeysReady, Prepared
  <2> QED BY <1>2, <1>5, <2>1 DEF Verify
<1>6. CASE Commit(h)
  <2>1. CASE Goto(h, "stop", {})
    BY <1>6, <2>1, HandlerMoves DEF Commit, Follows, LoggedIn, FilesReady, KeysReady, Prepared
  <2> QED BY <1>2, <1>6, <2>1, FollowsQuietly, HandlerMoves DEF Commit
<1>7. CASE StopStale(h)
  <2> DEFINE d == Goal(h)
  <2>1. /\ req'[h].pc = IF req[h].pc = "stop" THEN "apply" ELSE "undoapply"
        /\ req'[h].new = req[h].new /\ req'[h].old = req[h].old
        /\ req'[h].todo = ActiveKeys(d)
        /\ req[h].pc \in {"stop", "undostop"}
        /\ UNCHANGED <<mem, files>>
    BY <1>7, HandlerMoves DEF StopStale
  <2>2. \A k \in Key : running'[k] = IF k \in ActiveKeys(d) THEN running[k] ELSE None
    BY <1>7 DEF StopStale
  <2>3. LoggedIn'
    BY <2>2 DEF Follows, LoggedIn
  <2>4. \A k \in Key \ ActiveKeys(d) : Served(running'[k], d, k)
    BY <2>2 DEF Served, Serves
  <2> QED BY <2>1, <2>3, <2>4 DEF Follows, FilesReady, KeysReady, Prepared, Goal
<1>8. CASE Rollback(h)
  <2>1. CASE Goto(h, "rewrite", ActiveKeys(req[h].old))
    BY <1>8, <2>1, HandlerMoves DEF Rollback, Follows, LoggedIn, FilesReady, KeysReady, Prepared
  <2> QED BY <1>2, <1>8, <2>1 DEF Rollback
<1> QED BY <1>3, <1>4, <1>5, <1>6, <1>7, <1>8, FollowsWrite, FollowsReload DEF RequestStep

\* Files and processes follow the loops of the one handler.
LEMMA FollowsNext ==
    ASSUME NEW h, Worker = {h}, Faults \intersect {"exit", "rewrite"} = {},
           IInv, Alone(h), Follows(h), [Next]_vars
    PROVE  Follows(h)'
<1>1. CASE BeginRequest(h)
  <2>1. BeginCase(h)
    BY <1>1, BeginCases
  <2>2. UNCHANGED running
    BY <2>1 DEF BeginCase, BeginApply, Begin, UpdateStore, StoreAnswer
  <2>3. req'[h].pc \in {"idle", "snapshot", "verify", "inplace"}
    <3>1. CASE req' = [req EXCEPT ![h] = [Idle("none") EXCEPT !.pc = "snapshot", !.kind = "config"]]
      BY <3>1 DEF Idle, IInv, TypeOK
    <3> QED BY <2>1, <3>1, HandlerMoves DEF BeginCase, BeginApply, UpdateStore, StoreAnswer
  <2> QED BY <2>2, <2>3, FollowsQuietly
<1>2. CASE RequestStep(h)
  BY <1>2, FollowsSteps
<1>3. CASE Restart
  BY <1>3 DEF Restart, NoneRunning, Idle, Follows, LoggedIn, FilesReady, KeysReady
<1>4. CASE \E k \in Key : FrpcExits(k)
  BY <1>4 DEF FrpcExits
<1>5. CASE UNCHANGED vars
  BY <1>5 DEF vars, Follows, LoggedIn, FilesReady, KeysReady, Prepared
<1> QED BY <1>1, <1>2, <1>3, <1>4, <1>5 DEF Next

\* They do so in every reachable state, if no frpc exits by itself and no rollback
\* fails to write a file.
LEMMA FollowsAlways ==
    ASSUME NEW h, Worker = {h}, Faults \intersect {"exit", "rewrite"} = {}
    PROVE  Spec => []Follows(h)
<1>1. Init => Follows(h)
  BY DEF Init, Serving, NoneRunning, Idle, Follows, LoggedIn, FilesReady, KeysReady
<1>2. IInv /\ Alone(h) /\ Follows(h) /\ [Next]_vars => Follows(h)'
  BY FollowsNext
<1> QED BY <1>1, <1>2, AloneAlways, Invariance, PTL DEF Spec

\* A lone handler that applied a configuration with success is served.
THEOREM SerialSuccessIsServed ==
    ASSUME NEW h, Worker = {h}, Faults \intersect {"exit", "rewrite"} = {}
    PROVE  Spec => AckedIsServed
<1>1. IInv /\ Alone(h) /\ Follows(h) /\ [Next]_vars =>
        [\A w \in Worker : Acked(w) /\ Applies(w) =>
            \A k \in Key : Served(running'[k], mem', k)]_vars
  <2> SUFFICES ASSUME IInv, Alone(h), Follows(h), Next, Acked(h), Applies(h)
               PROVE  \A j \in Key : Served(running'[j], mem', j)
    OBVIOUS
  <2> DEFINE d == req[h].new
  <2>1. req[h].pc = "apply" /\ UNCHANGED mem /\ d = mem
    BY AnswerOfApply DEF Alone, SnapshotIsStore
  <2>2. d \in Data /\ Consistent(d) /\ req[h].todo \subseteq ActiveKeys(d) /\ ActiveKeys(d) \subseteq Key
    BY <2>1, GoalOK DEF IInv, TypeOK, ReqsOK, Goal, LoopPhases
  <2>3. /\ \A j \in ActiveKeys(d) : files[j] = RenderKey(d, j)
        /\ \A j \in Key \ req[h].todo : Served(running[j], d, j)
        /\ LoggedIn /\ running \in [Key -> Opt(Process)]
        /\ Goal(h) = d
    BY <2>1 DEF Follows, FilesReady, KeysReady, Prepared, IInv, TypeOK, Goal
  <2>4. PICK k \in req[h].todo : req[h].todo = {k} /\ KeyApplies(h, k)
    BY AnswerOfApply
  <2>5. /\ Served(running'[k], d, k)
        /\ \A j \in Key \ {k} : running'[j] = running[j]
    BY <2>2, <2>3, <2>4, KeyApplied
  <2>6. \A j \in Key : Served(running'[j], d, j)
    BY <2>3, <2>4, <2>5
  <2> QED BY <2>1, <2>6
<1> QED BY <1>1, AloneAlways, FollowsAlways, Invariance, PTL DEF Spec, AckedIsServed

-----------------------------------------------------------------------------
(* What a lone handler's edits keep of the store.                           *)

\* Every request in flight will leave the store renderable.
Renders(r) ==
    /\ r.kind = "apply" => Renderable(r.old) /\ Renderable(r.new) /\ Store!Edit(r.old, r.new)
    /\ r.pc = "inplace" => EditsInPlace(mem, [mem EXCEPT !.nodes[r.node] = r.new.nodes[r.node]])

\* The store, and every request in flight.
StaysRenderable(h) == Renderable(mem) /\ Renders(req[h])

\* Exposures are rendered whatever they are, and so is the device.
LEMMA AnswersRender ==
    ASSUME NEW d \in Data, NEW e, AnswersInPlace(d, e), Renderable(d)
    PROVE  Renderable(e)
<1>1. /\ e.nodes = d.nodes /\ e.rules = d.rules /\ e.rooms = d.rooms /\ e.server = d.server
      /\ e.device = d.device \/ d.server # "none"
  BY DEF AnswersInPlace, Data
<1> QED BY <1>1 DEF Renderable, UsesDirectMode, EnabledRules, EnabledRooms, ValidPortRule, ValidRoomRule

\* A request that begins holds data that can be rendered.
LEMMA RenderableBegins ==
    ASSUME IInv, NEW h \in Worker, Alone(h), StaysRenderable(h), BeginRequest(h)
    PROVE  StaysRenderable(h)'
<1>1. BeginCase(h) /\ mem \in Data /\ Consistent(mem)
  BY BeginCases DEF IInv, TypeOK, StoreConsistent
<1>2. CASE \E new \in Data : BeginApply(h, new) /\ Consistent(new) /\ Store!Edit(mem, new)
  BY <1>2, HandlerMoves DEF BeginApply, StaysRenderable, Renders
<1>3. CASE \E n \in Present(mem.nodes), c \in NodeConfig :
              /\ ~ EnabledRuleUsesNode(mem, n)
              /\ Begin(h, "inplace", "inplace", n, [mem EXCEPT !.nodes[n] = c])
  <2>1. PICK n \in Present(mem.nodes), c \in NodeConfig :
              /\ ~ EnabledRuleUsesNode(mem, n)
              /\ Begin(h, "inplace", "inplace", n, [mem EXCEPT !.nodes[n] = c])
    BY <1>3
  <2>2. n \in Node /\ c \in NodeRecord /\ c \in Opt(NodeRecord)
    BY <1>1, WorldAssumption DEF Present, Data, Opt
  <2>3. EditsInPlace(mem, [mem EXCEPT !.nodes[n] = c])
    BY <1>1, <2>1, <2>2, PutNodeConsistent, SetNodeInPlace
  <2>4. [mem EXCEPT !.nodes[n] = c].nodes[n] = c
    BY <1>1, <2>2 DEF Data
  <2> QED BY <2>1, <2>3, <2>4, HandlerMoves DEF StaysRenderable, Renders
<1>4. CASE Begin(h, "reload", "snapshot", DefaultNode, None)
  BY <1>4, HandlerMoves DEF StaysRenderable, Renders
<1>5. CASE \E new \in Data : UpdateStore(h, new) /\ EditsInPlace(mem, new)
  BY <1>5, HandlerMoves DEF UpdateStore, Saved, SaveFails, EditsInPlace, StaysRenderable, Renders
<1>6. CASE \E new \in Data : StoreAnswer(h, new) /\ AnswersInPlace(mem, new)
  <2>1. Renderable(mem')
    BY <1>1, <1>6, AnswersRender DEF StoreAnswer, Saved, SaveFails, StaysRenderable
  <2>2. CASE req' = [req EXCEPT ![h] = [Idle("none") EXCEPT !.pc = "snapshot", !.kind = "config"]]
    <3>1. req'[h].pc = "snapshot" /\ req'[h].kind = "config"
      BY <2>2 DEF Idle, IInv, TypeOK
    <3> QED BY <2>1, <3>1 DEF StaysRenderable, Renders
  <2> QED BY <1>6, <2>1, <2>2, HandlerMoves DEF StoreAnswer, StaysRenderable, Renders
<1> QED BY <1>1, <1>2, <1>3, <1>4, <1>5, <1>6 DEF BeginCase

\* Whatever a step stores can be rendered.
LEMMA RenderableSteps ==
    ASSUME IInv, NEW h \in Worker, Alone(h), StaysRenderable(h), RequestStep(h)
    PROVE  StaysRenderable(h)'
<1>1. req[h] \in Requests /\ RequestOK(req[h])
  BY HandlerMoves
<1>2. ASSUME NEW res, Finish(h, res), Renderable(mem') PROVE StaysRenderable(h)'
  BY <1>2, HandlerMoves DEF StaysRenderable, Renders
<1>3. ASSUME NEW pc, NEW todo, Goto(h, pc, todo), pc # "inplace", Renderable(mem')
      PROVE  StaysRenderable(h)'
  BY <1>3, HandlerMoves DEF StaysRenderable, Renders
<1>4. CASE UpdateNodeInPlace(h)
  BY <1>2, <1>4 DEF UpdateNodeInPlace, Saved, SaveFails, StaysRenderable, Renders, EditsInPlace
<1>5. CASE SnapshotConfig(h)
  <2>1. CASE req' = [req EXCEPT ![h] = [@ EXCEPT !.new = mem,
                       !.pc = IF req[h].pc = "snapshot" THEN "write" ELSE "stop",
                       !.todo = ActiveKeys(mem)]]
    <3>1. req'[h].pc \in {"write", "stop"} /\ req'[h].kind = req[h].kind
      BY <1>1, <2>1 DEF IInv, TypeOK, Requests
    <3>2. req[h].kind # "apply"
      BY <1>5 DEF SnapshotConfig, Alone, Phase
    <3> QED BY <1>5, <3>1, <3>2 DEF SnapshotConfig, StaysRenderable, Renders
  <2> QED BY <1>2, <1>5, <2>1 DEF SnapshotConfig, StaysRenderable
<1>6. ASSUME NEW k, LoopEnds(h) \/ LoopGoesOn(h, k), Renderable(mem'), req[h].pc \in LoopPhases
      PROVE  StaysRenderable(h)'
  BY <1>2, <1>3, <1>6 DEF LoopEnds, LoopGoesOn, LoopPhases
<1>7. CASE Verify(h) \/ StopStale(h)
  BY <1>2, <1>3, <1>7 DEF Verify, StopStale, StaysRenderable
<1>8. CASE WriteFile(h) \/ ReloadKey(h)
  <2>1. Renderable(mem') /\ req[h].pc \in LoopPhases
    BY <1>8 DEF WriteFile, ReloadKey, StaysRenderable, LoopPhases
  <2> QED BY <1>2, <1>3, <1>6, <1>8, <2>1 DEF WriteFile, ReloadKey
<1>9. CASE Commit(h)
  <2>1. Renderable(mem')
    BY <1>1, <1>9 DEF Commit, Saved, SaveFails, RequestOK, StaysRenderable, Renders
  <2> QED BY <1>2, <1>3, <1>9, <2>1 DEF Commit
<1>10. CASE Rollback(h)
  <2>1. Renderable(mem')
    BY <1>1, <1>10 DEF Rollback, Saved, SaveFails, RequestOK, UndoPhases, StaysRenderable, Renders
  <2> QED BY <1>2, <1>3, <1>10, <2>1 DEF Rollback
<1> QED BY <1>4, <1>5, <1>7, <1>8, <1>9, <1>10 DEF RequestStep

\* The store and what requests hold can be rendered in every reachable state.
LEMMA RenderableAlways ==
    ASSUME NEW h, Worker = {h}, "crash" \notin Faults
    PROVE  Spec => []StaysRenderable(h)
<1>1. Init => StaysRenderable(h)
  BY WorldAssumption DEF Init, Idle, StaysRenderable, Renders
<1>2. IInv /\ Alone(h) /\ StaysRenderable(h) /\ [Next]_vars => StaysRenderable(h)'
  <2> SUFFICES ASSUME IInv, Alone(h), StaysRenderable(h), [Next]_vars
               PROVE  StaysRenderable(h)'
    OBVIOUS
  <2>1. CASE \E w \in Worker : BeginRequest(w) \/ RequestStep(w)
    BY <2>1, RenderableBegins, RenderableSteps
  <2>2. CASE Restart
    BY <2>2 DEF Restart
  <2>3. CASE \E k \in Key : FrpcExits(k)
    BY <2>3 DEF FrpcExits, StaysRenderable, Renders
  <2>4. CASE UNCHANGED vars
    BY <2>4 DEF vars, StaysRenderable, Renders
  <2> QED BY <2>1, <2>2, <2>3, <2>4 DEF Next
<1> QED BY <1>1, <1>2, AloneAlways, Invariance, PTL DEF Spec

\* With one handler, and while the backend is not started with other settings,
\* what is stored can be rendered.
THEOREM SerialStoreIsRenderable ==
    ASSUME NEW h, Worker = {h}, "crash" \notin Faults
    PROVE  Spec => []StoreRenderable
<1>1. StaysRenderable(h) => StoreRenderable
  BY DEF StaysRenderable, StoreRenderable
<1> QED BY <1>1, RenderableAlways, PTL

-----------------------------------------------------------------------------
(* While saves succeed.                                                     *)

\* Nothing leaves memory ahead of client.json, and no commit is undone halfway.
Settled(h) == disk = mem /\ req[h].pc # "restore"

\* Memory and client.json agree while saves succeed.
LEMMA SettledAlways ==
    ASSUME NEW h, Worker = {h}, Faults \intersect {"save", "crash"} = {}
    PROVE  Spec => []Settled(h)
<1>1. Init => Settled(h)
  BY DEF Init, Idle, Settled
<1>2. IInv /\ Settled(h) /\ [Next]_vars => Settled(h)'
  <2> SUFFICES ASSUME IInv, Settled(h), [Next]_vars PROVE Settled(h)'
    OBVIOUS
  <2>1. CASE BeginRequest(h)
    <3>1. BeginCase(h)
      BY <2>1, BeginCases
    <3>2. CASE \E new \in Data : StoreAnswer(h, new)
      <4>1. CASE req' = [req EXCEPT ![h] = [Idle("none") EXCEPT !.pc = "snapshot", !.kind = "config"]]
        <5>1. req'[h].pc = "snapshot"
          BY <4>1 DEF Idle, IInv, TypeOK
        <5> QED BY <3>2, <5>1 DEF StoreAnswer, Saved, SaveFails, Settled
      <4> QED BY <3>2, <4>1, HandlerMoves DEF StoreAnswer, Saved, SaveFails, Settled
    <3>3. CASE \E new \in Data : UpdateStore(h, new)
      BY <3>3, HandlerMoves DEF UpdateStore, Saved, SaveFails, Settled
    <3>4. CASE \E new : BeginApply(h, new)
      BY <3>4, HandlerMoves DEF BeginApply, Settled
    <3>5. CASE \E kind, node, new : \/ Begin(h, kind, "inplace", node, new)
                                    \/ Begin(h, kind, "snapshot", node, new)
      BY <3>5, HandlerMoves DEF Settled
    <3> QED BY <3>1, <3>2, <3>3, <3>4, <3>5 DEF BeginCase
  <2>2. CASE RequestStep(h)
    <3>1. CASE UpdateNodeInPlace(h)
      BY <3>1, HandlerMoves DEF UpdateNodeInPlace, Saved, SaveFails, Settled
    <3>2. CASE SnapshotConfig(h)
      <4>1. req[h] \in Requests
        BY HandlerMoves
      <4>2. CASE req' = [req EXCEPT ![h] = [@ EXCEPT !.new = mem,
                           !.pc = IF req[h].pc = "snapshot" THEN "write" ELSE "stop",
                           !.todo = ActiveKeys(mem)]]
        BY <3>2, <4>1, <4>2 DEF SnapshotConfig, Settled, IInv, TypeOK, Requests
      <4> QED BY <3>2, <4>2, HandlerMoves DEF SnapshotConfig, Settled
    <3>3. CASE Verify(h) \/ StopStale(h)
      BY <3>3, HandlerMoves DEF Verify, StopStale, Settled
    <3>4. CASE WriteFile(h) \/ ReloadKey(h)
      <4>1. ASSUME NEW k, LoopEnds(h) \/ LoopGoesOn(h, k) PROVE req'[h].pc # "restore"
        BY <4>1, HandlerMoves DEF LoopEnds, LoopGoesOn, Settled
      <4>2. UNCHANGED <<mem, disk>>
        BY <3>4 DEF WriteFile, ReloadKey
      <4>3. req'[h].pc # "restore"
        BY <3>4, <4>1, HandlerMoves DEF WriteFile, ReloadKey
      <4> QED BY <4>2, <4>3 DEF Settled
    <3>5. CASE Commit(h) \/ Rollback(h)
      BY <3>5, HandlerMoves DEF Commit, Rollback, Saved, SaveFails, Settled
    <3> QED BY <2>2, <3>1, <3>2, <3>3, <3>4, <3>5 DEF RequestStep
  <2>3. CASE Restart
    BY <2>3 DEF Restart
  <2>4. CASE UNCHANGED vars \/ \E k \in Key : FrpcExits(k)
    BY <2>4 DEF vars, FrpcExits, Settled
  <2> QED BY <2>1, <2>2, <2>3, <2>4 DEF Next
<1> QED BY <1>1, <1>2, Invariance, PTL DEF Spec

\* Where a lone handler's edit fails when only verification and apply do.
LEMMA FailedEdit ==
    ASSUME NEW h, Worker = {h}, Faults \subseteq {"verify", "apply"},
           IInv, Alone(h), Follows(h), StaysRenderable(h), Settled(h),
           Next, Failed(h), req[h].kind = "apply"
    PROVE  /\ UNCHANGED <<mem, disk, files>>
           /\ \/ req[h].pc = "verify"
              \/ /\ req[h].pc = "undoapply"
                 /\ \E k \in req[h].todo : req[h].todo = {k} /\ KeyApplies(h, k)
<1>1. req[h] \in Requests /\ RequestOK(req[h])
  BY HandlerMoves
<1>2. Phase(req[h]) /\ req[h].pc # "idle" /\ req'[h].pc = "idle" /\ req'[h].res = "err"
  BY DEF Alone, Failed
<1>3. ~ BeginRequest(h)
  <2> SUFFICES ASSUME BeginRequest(h) PROVE FALSE
    OBVIOUS
  <2>1. BeginCase(h)
    BY BeginCases
  <2> QED BY <1>2, <2>1, HandlerMoves DEF BeginCase, BeginApply, Begin, UpdateStore, StoreAnswer, Accept
<1>4. RequestStep(h)
  BY <1>2, <1>3 DEF Next, Restart, FrpcExits
<1>5. ~ UpdateNodeInPlace(h) /\ ~ SnapshotConfig(h)
  BY <1>2 DEF UpdateNodeInPlace, SnapshotConfig, Phase
<1>6. ~ Commit(h) /\ ~ StopStale(h)
  BY <1>2, HandlerMoves DEF Commit, StopStale, SaveFails
<1>7. ~ Rollback(h)
  BY <1>2, HandlerMoves DEF Rollback, StaysRenderable, Renders
<1>8. ~ WriteFile(h)
  <2> SUFFICES ASSUME WriteFile(h) PROVE FALSE
    OBVIOUS
  <2>1. req[h].pc \in {"write", "rewrite"}
    BY DEF WriteFile, Settled
  <2>2. PICK k \in req[h].todo : LoopGoesOn(h, k)
    BY <2>1 DEF WriteFile
  <2> QED BY <1>2, <2>1, <2>2, HandlerMoves DEF LoopGoesOn, LoopEnds
<1>9. CASE Verify(h)
  BY <1>9 DEF Verify
<1>10. CASE ReloadKey(h)
  <2>1. \A k \in req[h].todo : Readable(k)
    <3>1. req[h].pc \in {"apply", "undoapply"}
      BY <1>10 DEF ReloadKey
    <3>2. /\ Goal(h) \in Data /\ Consistent(Goal(h))
          /\ req[h].todo \subseteq ActiveKeys(Goal(h))
      BY <3>1, GoalOK DEF IInv, TypeOK, ReqsOK, LoopPhases
    <3>3. \A k \in ActiveKeys(Goal(h)) : files[k] = RenderKey(Goal(h), k)
      BY <3>1 DEF Follows, FilesReady, Prepared, Goal
    <3> QED BY <3>2, <3>3, RenderedLoads DEF Readable
  <2>2. PICK k \in req[h].todo :
          \/ KeyApplies(h, k) /\ LoopGoesOn(h, k)
          \/ req[h].pc = "apply" /\ Goto(h, "rollback", {})
    <3>1. PICK k \in req[h].todo :
            \/ KeyApplies(h, k) /\ LoopGoesOn(h, k)
            \/ /\ "apply" \in Faults /\ req[h].pc = "apply"
               /\ IF req[h].kind = "apply" THEN Goto(h, "rollback", {}) ELSE Finish(h, "err")
      BY <1>10, <2>1 DEF ReloadKey, KeyApplies
    <3> QED BY <3>1
  <2>3. LoopGoesOn(h, k) /\ KeyApplies(h, k) /\ UNCHANGED <<mem, disk, files>>
    BY <1>2, <1>10, <2>2, HandlerMoves DEF ReloadKey
  <2>4. req[h].todo = {k} /\ req[h].pc = "undoapply"
    BY <1>2, <1>10, <2>3, HandlerMoves DEF ReloadKey, LoopGoesOn, LoopEnds
  <2> QED BY <2>3, <2>4
<1> QED BY <1>4, <1>5, <1>6, <1>7, <1>8, <1>9, <1>10 DEF RequestStep

\* A lone handler's edit that fails to verify or to apply leaves the store, the
\* files and the processes of the data it started from.
THEOREM SerialFailureRestores ==
    ASSUME NEW h, Worker = {h}, Faults \subseteq {"verify", "apply"}
    PROVE  Spec => FailureRestores
<1>1. IInv /\ Alone(h) /\ Follows(h) /\ StaysRenderable(h) /\ Settled(h) /\ [Next]_vars =>
        [\A w \in Worker : Failed(w) /\ req[w].kind = "apply" =>
          LET old == req[w].old IN
          /\ mem' = old /\ disk' = old
          /\ req[w].pc # "verify" =>
                /\ \A k \in Key : Served(running'[k], old, k)
                /\ \A k \in ActiveKeys(old) : files'[k] = RenderKey(old, k)]_vars
  <2> SUFFICES ASSUME IInv, Alone(h), Follows(h), StaysRenderable(h), Settled(h), Next,
                      Failed(h), req[h].kind = "apply"
               PROVE  /\ mem' = req[h].old /\ disk' = req[h].old
                      /\ req[h].pc # "verify" =>
                            /\ \A k \in Key : Served(running'[k], req[h].old, k)
                            /\ \A k \in ActiveKeys(req[h].old) :
                                   files'[k] = RenderKey(req[h].old, k)
    OBVIOUS
  <2> DEFINE d == req[h].old
  <2>1. req[h].pc \in {"verify", "undoapply"} /\ UNCHANGED <<mem, disk, files>>
    BY FailedEdit
  <2>2. mem = d /\ disk = d
    BY <2>1 DEF Alone, SnapshotIsStore, Settled
  <2>3. CASE req[h].pc = "verify"
    BY <2>1, <2>2, <2>3
  <2>4. CASE req[h].pc = "undoapply"
    <3>1. d \in Data /\ Consistent(d) /\ req[h].todo \subseteq ActiveKeys(d) /\ ActiveKeys(d) \subseteq Key
      BY <2>4, GoalOK DEF IInv, TypeOK, ReqsOK, Goal, LoopPhases
    <3>2. /\ \A j \in ActiveKeys(d) : files[j] = RenderKey(d, j)
          /\ \A j \in Key \ req[h].todo : Served(running[j], d, j)
          /\ LoggedIn /\ running \in [Key -> Opt(Process)]
          /\ Goal(h) = d
      BY <2>4 DEF Follows, FilesReady, KeysReady, Prepared, IInv, TypeOK, Goal
    <3>3. PICK k \in req[h].todo : req[h].todo = {k} /\ KeyApplies(h, k)
      BY <2>4, FailedEdit
    <3>4. /\ Served(running'[k], d, k)
          /\ \A j \in Key \ {k} : running'[j] = running[j]
      BY <3>1, <3>2, <3>3, KeyApplied
    <3>5. \A j \in Key : Served(running'[j], d, j)
      BY <3>2, <3>3, <3>4
    <3> QED BY <2>1, <2>2, <3>2, <3>5
  <2> QED BY <2>1, <2>3, <2>4
<1>2. /\ Faults \intersect {"exit", "rewrite"} = {} /\ "crash" \notin Faults
      /\ Faults \intersect {"save", "crash"} = {}
  OBVIOUS
<1> QED
  BY <1>1, <1>2, AloneAlways, FollowsAlways, RenderableAlways, SettledAlways, Invariance, PTL
  DEF Spec, FailureRestores

-----------------------------------------------------------------------------
(* The refinement of the abstract edit store.                               *)

\* Before its answer a lone handler's edit has not happened.
LEMMA VisibleStore ==
    ASSUME NEW h, Worker = {h}
    PROVE  /\ Visible = IF req[h].kind = "apply" THEN req[h].old ELSE mem
           /\ Visible' = IF req'[h].kind = "apply" THEN req'[h].old ELSE mem'
<1>1. (\E w \in Worker : req[w].kind = "apply") <=> req[h].kind = "apply"
  OBVIOUS
<1>2. req[h].kind = "apply" => (CHOOSE w \in Worker : req[w].kind = "apply") = h
  OBVIOUS
<1>3. (\E w \in Worker : req'[w].kind = "apply") <=> req'[h].kind = "apply"
  OBVIOUS
<1>4. req'[h].kind = "apply" => (CHOOSE w \in Worker : req'[w].kind = "apply") = h
  OBVIOUS
<1> QED BY <1>1, <1>2, <1>3, <1>4 DEF Visible

\* The answer of the one handler.
LEMMA AnswerOfOne ==
    ASSUME NEW h, Worker = {h}, NEW res, req'[h].res = res
    PROVE  Answers' = [Answers EXCEPT ![h] = res]
BY DEF Answers

\* A step the abstract store may take.
AbstractStep == [Store!Next]_<<Visible, Answers>>

\* What the refinement rests on.
Hidden(h) == IInv /\ Alone(h) /\ StaysRenderable(h) /\ Settled(h)

\* Steps of the implementation as steps of the abstract store: a request goes on,
LEMMA Stutters ==
    ASSUME NEW h, Worker = {h}, Visible' = Visible, req'[h].res = req[h].res
    PROVE  AbstractStep
<1>1. Answers' = Answers
  BY DEF Answers
<1> QED BY <1>1 DEF AbstractStep

\* begins,
LEMMA Takes ==
    ASSUME NEW h, Worker = {h}, Visible' = Visible, req'[h].res = "none"
    PROVE  AbstractStep
BY AnswerOfOne DEF AbstractStep, Store!Next, Store!Take

\* is answered with an error,
LEMMA Refuses ==
    ASSUME NEW h, Worker = {h}, IInv, Finish(h, "err"), mem' = Visible
    PROVE  AbstractStep
<1>1. Visible' = Visible /\ req'[h].res = "err"
  BY VisibleStore, HandlerMoves
<1> QED BY <1>1, AnswerOfOne DEF AbstractStep, Store!Next, Store!Refused

\* The abstract store judges data as the backend does.
LEMMA SameJudgement ==
    ASSUME NEW d, Consistent(d), Renderable(d)
    PROVE  Store!Acceptable(d)
<1>1. /\ Store!Present(d.rules) = Present(d.rules)
      /\ Store!Present(d.rooms) = Present(d.rooms)
  BY DEF Store!Present, Present
<1>2. /\ Store!EnabledRules(d) = EnabledRules(d)
      /\ Store!EnabledRooms(d) = EnabledRooms(d)
  BY <1>1 DEF Store!EnabledRules, EnabledRules, Store!EnabledRooms, EnabledRooms
<1>3. Store!Consistent(d)
  BY <1>1, <1>2
  DEF Store!Consistent, Consistent, Store!RulesHaveNodes, RulesHaveNodes,
      Store!BindingsUnique, BindingsUnique, Store!VisitorBindsUnique, VisitorBindsUnique
<1>4. Store!Renderable(d)
  BY <1>1, <1>2
  DEF Store!Renderable, Renderable, Store!UsesDirectMode, UsesDirectMode,
      Store!ValidPortRule, ValidPortRule, Store!ValidRoomRule, ValidRoomRule
<1> QED BY <1>3, <1>4 DEF Store!Acceptable

\* or with success.
LEMMA Accepts ==
    ASSUME NEW h, Worker = {h}, IInv, Finish(h, "ok"), Store!Edit(Visible, mem'),
           Consistent(mem'), Renderable(mem')
    PROVE  AbstractStep
<1>1. Visible' = mem' /\ req'[h].res = "ok"
  BY VisibleStore, HandlerMoves
<1>2. Store!Edit(Visible, Visible')
  BY <1>1
<1>3. Store!Acceptable(Visible')
  <2>1. Store!Acceptable(mem')
    BY SameJudgement
  <2> QED BY <1>1, <2>1
<1>4. Answers' = [Answers EXCEPT ![h] = "ok"]
  BY <1>1, AnswerOfOne
<1>5. Store!Accepted(h)
  BY <1>2, <1>3, <1>4 DEF Store!Accepted
<1> QED BY <1>5 DEF AbstractStep, Store!Next

\* Doing nothing is an edit.
LEMMA NoEdit ==
    ASSUME NEW d \in Data
    PROVE  Store!Edit(d, d)
BY DEF Store!Edit, Data

\* Beginning a request is taking it, or an edit in place.
LEMMA AbstractBegins ==
    ASSUME NEW h, Worker = {h}, Faults \intersect {"save", "crash"} = {},
           Exposure = {}, Device = {}, Hidden(h), BeginRequest(h)
    PROVE  AbstractStep
<1>1. BeginCase(h) /\ IInv /\ mem \in Data /\ Consistent(mem)
  BY BeginCases DEF Hidden, IInv, TypeOK, StoreConsistent
<1>2. Visible = mem
  <2>1. req[h].pc = "idle"
    BY <1>1, HandlerMoves DEF BeginCase, BeginApply, UpdateStore, StoreAnswer, Accept
  <2> QED BY <2>1, VisibleStore DEF Hidden, Alone, Phase
<1>3. CASE \E kind, pc, node, new : Begin(h, kind, pc, node, new)
  BY <1>1, <1>2, <1>3, HandlerMoves, VisibleStore, Takes
<1>4. CASE \E new \in Data : UpdateStore(h, new) /\ Consistent(new) /\ EditsInPlace(mem, new)
  <2>1. /\ Finish(h, "ok") /\ Consistent(mem') /\ EditsInPlace(mem, mem')
    BY <1>4 DEF UpdateStore, Saved, SaveFails
  <2>2. Renderable(mem')
    BY <2>1 DEF EditsInPlace, Hidden, StaysRenderable
  <2> QED BY <1>1, <1>2, <2>1, <2>2, Accepts DEF EditsInPlace
<1>5. CASE \E new \in Data : StoreAnswer(h, new) /\ AnswersInPlace(mem, new)
  <2>1. /\ mem' \in Data /\ AnswersInPlace(mem, mem')
        /\ req' = [req EXCEPT ![h] = [Idle("none") EXCEPT !.pc = "snapshot", !.kind = "config"]]
    BY <1>5 DEF StoreAnswer, Saved, SaveFails
  <2>2. mem' = mem
    <3>1. PICK x \in Device \union {mem.device}, t \in SUBSET Exposure :
             mem' = [mem EXCEPT !.device = x, !.exposures = t]
      BY <2>1 DEF AnswersInPlace
    <3>2. x = mem.device /\ t = mem.exposures
      <4>1. mem.exposures \in SUBSET Exposure
        BY <1>1 DEF Data
      <4> QED BY <4>1, <3>1
    <3>3. [mem EXCEPT !.device = mem.device, !.exposures = mem.exposures] = mem
      BY <1>1 DEF Data
    <3> QED BY <3>1, <3>2, <3>3
  <2>3. req'[h].kind = "config" /\ req'[h].res = "none"
    BY <1>1, <2>1 DEF Idle, IInv, TypeOK
  <2> QED BY <1>2, <2>2, <2>3, VisibleStore, Takes
<1> QED BY <1>1, <1>3, <1>4, <1>5 DEF BeginCase, BeginApply

\* A step of a request changes nothing visible until it is answered.
LEMMA AbstractSteps ==
    ASSUME NEW h, Worker = {h}, Faults \intersect {"save", "crash"} = {},
           Hidden(h), RequestStep(h)
    PROVE  AbstractStep
<1>1. IInv /\ req[h] \in Requests /\ RequestOK(req[h]) /\ mem \in Data /\ Consistent(mem)
  BY HandlerMoves DEF Hidden, IInv, TypeOK, StoreConsistent
<1>2. Consistent(mem')
  BY <1>1, NextOK DEF Next, IInv, StoreConsistent
<1>3. Alone(h) /\ StaysRenderable(h) /\ Settled(h) /\ Visible \in Data
  BY <1>1, VisibleStore DEF Hidden, Requests, Opt, RequestOK
<1>4. ASSUME NEW pc, NEW todo, Goto(h, pc, todo), req[h].kind = "apply" \/ mem' = mem
      PROVE  AbstractStep
  BY <1>1, <1>4, HandlerMoves, VisibleStore, Stutters
<1>5. ASSUME Finish(h, "ok"), UNCHANGED mem, req[h].kind = "apply" => mem = req[h].new
      PROVE  AbstractStep
  <2>1. Store!Edit(Visible, mem')
    BY <1>1, <1>3, <1>5, VisibleStore, NoEdit DEF StaysRenderable, Renders
  <2>2. Renderable(mem')
    BY <1>3, <1>5 DEF StaysRenderable
  <2> QED BY <1>1, <1>2, <1>5, <2>1, <2>2, Accepts
<1>6. ASSUME Finish(h, "err"), UNCHANGED mem, req[h].kind = "apply" => mem = req[h].old
      PROVE  AbstractStep
  BY <1>1, <1>6, VisibleStore, Refuses
<1>7. CASE UpdateNodeInPlace(h)
  <2> DEFINE new == [mem EXCEPT !.nodes[req[h].node] = req[h].new.nodes[req[h].node]]
  <2>1. req[h].kind = "inplace" /\ EditsInPlace(mem, new)
    BY <1>3, <1>7 DEF UpdateNodeInPlace, Alone, Phase, StaysRenderable, Renders
  <2>2. CASE Finish(h, "err") /\ UNCHANGED mem
    BY <1>6, <2>1, <2>2
  <2>3. CASE Finish(h, "ok") /\ mem' = new
    <3>1. Renderable(mem') /\ Store!Edit(Visible, mem')
      BY <1>3, <2>1, <2>3, VisibleStore DEF StaysRenderable, EditsInPlace
    <3> QED BY <1>1, <1>2, <2>3, <3>1, Accepts
  <2> QED BY <1>7, <2>2, <2>3 DEF UpdateNodeInPlace, Saved, SaveFails
<1>8. CASE SnapshotConfig(h)
  <2>1. req[h].kind # "apply" /\ UNCHANGED mem
    BY <1>3, <1>8 DEF SnapshotConfig, Alone, Phase
  <2>2. CASE req' = [req EXCEPT ![h] = [@ EXCEPT !.new = mem,
                       !.pc = IF req[h].pc = "snapshot" THEN "write" ELSE "stop",
                       !.todo = ActiveKeys(mem)]]
    <3>1. req'[h].kind = req[h].kind /\ req'[h].res = req[h].res
      BY <1>1, <2>2 DEF IInv, TypeOK, Requests
    <3> QED BY <2>1, <3>1, VisibleStore, Stutters
  <2> QED BY <1>6, <1>8, <2>1, <2>2 DEF SnapshotConfig
<1>9. CASE Verify(h)
  BY <1>3, <1>4, <1>6, <1>9 DEF Verify, Alone, SnapshotIsStore
<1>10. CASE StopStale(h)
  BY <1>4, <1>10 DEF StopStale
<1>11. ASSUME LoopEnds(h), UNCHANGED mem, req[h].pc \in LoopPhases PROVE AbstractStep
  <2>1. CASE \E pc, todo : Goto(h, pc, todo)
    BY <1>4, <1>11, <2>1
  <2>2. CASE Finish(h, "err") /\ req[h].pc \in {"restore", "undoapply"}
    BY <1>3, <1>6, <1>11, <2>2 DEF Settled, Alone, SnapshotIsStore
  <2>3. CASE Finish(h, "ok") /\ (req[h].pc = "apply" \/ req[h].kind # "apply")
    BY <1>3, <1>5, <1>11, <2>3 DEF Alone, SnapshotIsStore
  <2> QED BY <1>1, <1>11, <2>1, <2>2, <2>3 DEF LoopEnds, LoopPhases
<1>12. ASSUME NEW k, LoopGoesOn(h, k), UNCHANGED mem, req[h].pc \in LoopPhases PROVE AbstractStep
  BY <1>4, <1>11, <1>12 DEF LoopGoesOn
<1>13. CASE WriteFile(h)
  <2>1. UNCHANGED mem /\ req[h].pc \in LoopPhases /\ req[h].pc # "restore"
    BY <1>3, <1>13 DEF WriteFile, LoopPhases, Settled
  <2>2. CASE Finish(h, "err") /\ req[h].pc = "write"
    BY <1>3, <1>6, <2>1, <2>2 DEF Alone, SnapshotIsStore
  <2> QED BY <1>11, <1>12, <1>13, <2>1, <2>2 DEF WriteFile
<1>14. CASE Commit(h)
  <2>1. Goto(h, "stop", {}) /\ req[h].kind = "apply"
    BY <1>1, <1>14 DEF Commit, SaveFails, RequestOK
  <2> QED BY <1>4, <2>1
<1>15. CASE ReloadKey(h)
  <2>1. UNCHANGED mem /\ req[h].pc \in {"apply", "undoapply"} /\ req[h].pc \in LoopPhases
    BY <1>15 DEF ReloadKey, LoopPhases
  <2>2. CASE Goto(h, "rollback", {})
    BY <1>4, <2>1, <2>2
  <2>3. CASE Finish(h, "err") /\ ~ (req[h].pc = "apply" /\ req[h].kind = "apply")
    BY <1>3, <1>6, <2>1, <2>3 DEF Alone, SnapshotIsStore
  <2> QED BY <1>12, <1>15, <2>1, <2>2, <2>3 DEF ReloadKey
<1>16. CASE Rollback(h)
  <2>1. mem' = req[h].old /\ req[h].kind = "apply"
    BY <1>1, <1>16 DEF Rollback, Saved, SaveFails, RequestOK, UndoPhases
  <2>2. CASE Finish(h, "err")
    BY <1>1, <2>1, <2>2, VisibleStore, Refuses
  <2> QED BY <1>4, <1>16, <2>1, <2>2 DEF Rollback
<1> QED
  BY <1>7, <1>8, <1>9, <1>10, <1>13, <1>14, <1>15, <1>16 DEF RequestStep

\* With one handler, working saves and no group joined the pipeline, undoing and all,
\* implements the abstract store: an edit happens when it is answered with success.
THEOREM SerialEditsAreAtomic ==
    ASSUME NEW h, Worker = {h}, Faults \intersect {"save", "crash"} = {},
           Exposure = {}, Device = {}
    PROVE  Spec => ImplementsEditStore
<1>1. Init => Store!Init
  <2> SUFFICES ASSUME Init PROVE Store!Init
    OBVIOUS
  <2>1. req[h].kind = "none" /\ mem \in InitData
    BY DEF Init, Idle
  <2>2. Answers = [w \in Worker |-> "none"]
    BY DEF Answers, Init, Idle
  <2> QED BY <2>1, <2>2, VisibleStore DEF Store!Init
<1>2. Hidden(h) /\ [Next]_vars => AbstractStep
  <2> SUFFICES ASSUME Hidden(h), [Next]_vars PROVE AbstractStep
    OBVIOUS
  <2>1. CASE \E w \in Worker : BeginRequest(w) \/ RequestStep(w)
    BY <2>1, AbstractBegins, AbstractSteps
  <2>2. CASE Restart
    BY <2>2 DEF Restart
  <2>3. CASE UNCHANGED vars \/ \E k \in Key : FrpcExits(k)
    BY <2>3, VisibleStore, Stutters DEF vars, FrpcExits
  <2> QED BY <2>1, <2>2, <2>3 DEF Next
<1>3. Hidden(h) <=> IInv /\ Alone(h) /\ StaysRenderable(h) /\ Settled(h)
  BY DEF Hidden
<1>4. "crash" \notin Faults
  OBVIOUS
<1>5. Hidden(h) /\ [Next]_vars => [Store!Next]_<<Visible, Answers>>
  BY <1>2 DEF AbstractStep
<1> QED
  BY <1>1, <1>3, <1>4, <1>5, AloneAlways, RenderableAlways, SettledAlways, Invariance, PTL
  DEF Spec, ImplementsEditStore, Store!Spec

=============================================================================
