------------------------- MODULE ClientApplyProofs -------------------------
(***************************************************************************)
(* The configuration pipeline keeps its store consistent for any number of  *)
(* handlers, nodes, rules and rooms, any interleaving and any of the modelled *)
(* failures.  The invariant is not inductive alone: a commit installs a      *)
(* clone made from an old snapshot, so every clone and every snapshot held   *)
(* by a request in flight must be consistent too.                           *)
(***************************************************************************)
EXTENDS ClientApply, FiniteSetTheorems, TLAPS

-----------------------------------------------------------------------------
(* The stored data: what each edit preserves, and what rendering gives.      *)

\* The record of a rule, a room rule or a node is not the absent value.
LEMMA RecordsPresent ==
    /\ \A x \in PortRule : x # None
    /\ \A x \in RoomRule : x # None
    /\ \A x \in NodeRecord : x # None
BY DataAssumption

\* Adding or replacing a validated rule keeps the data consistent: the
\* duplicate test of validatePortRule covers every other rule.
LEMMA PutRuleConsistent ==
    ASSUME NEW d \in Data, NEW i \in RuleId, NEW rule \in PortRule,
           Consistent(d), ValidPortRule(d, i, rule)
    PROVE  /\ [d EXCEPT !.rules[i] = rule] \in Data
           /\ Consistent([d EXCEPT !.rules[i] = rule])
<1> DEFINE e == [d EXCEPT !.rules[i] = rule]
<1>1. e \in Data
  BY DEF Data, Opt
<1>2. /\ e.nodes = d.nodes /\ e.rooms = d.rooms
      /\ e.rules = [d.rules EXCEPT ![i] = rule]
  BY DEF Data
<1>3. \A j \in RuleId : e.rules[j] = IF j = i THEN rule ELSE d.rules[j]
  BY <1>2 DEF Data
<1>4. /\ DOMAIN e.rules = RuleId /\ DOMAIN d.rules = RuleId
  BY <1>2 DEF Data
<1>5. RulesHaveNodes(e)
  BY <1>2, <1>3, <1>4 DEF Consistent, RulesHaveNodes, Present, ValidPortRule
<1>6. BindingsUnique(e)
  BY <1>2, <1>3, <1>4 DEF Consistent, BindingsUnique, Present, ValidPortRule
<1>7. VisitorBindsUnique(e) /\ e.nodes[DefaultNode] # None
  BY <1>2 DEF Consistent, VisitorBindsUnique, EnabledRooms, Present
<1> QED BY <1>1, <1>5, <1>6, <1>7 DEF Consistent

\* Deleting a rule keeps the data consistent.
LEMMA DropRuleConsistent ==
    ASSUME NEW d \in Data, NEW i \in RuleId, Consistent(d)
    PROVE  /\ [d EXCEPT !.rules[i] = None] \in Data
           /\ Consistent([d EXCEPT !.rules[i] = None])
<1> DEFINE e == [d EXCEPT !.rules[i] = None]
<1>1. e \in Data
  BY DEF Data, Opt
<1>2. /\ e.nodes = d.nodes /\ e.rooms = d.rooms
      /\ e.rules = [d.rules EXCEPT ![i] = None]
  BY DEF Data
<1>3. \A j \in Present(e.rules) : j \in Present(d.rules) /\ e.rules[j] = d.rules[j]
  BY <1>2 DEF Data, Present
<1>4. RulesHaveNodes(e) /\ BindingsUnique(e)
  BY <1>2, <1>3 DEF Consistent, RulesHaveNodes, BindingsUnique
<1>5. VisitorBindsUnique(e) /\ e.nodes[DefaultNode] # None
  BY <1>2 DEF Consistent, VisitorBindsUnique, EnabledRooms, Present
<1> QED BY <1>1, <1>4, <1>5 DEF Consistent

\* Adding or replacing a validated room rule keeps the data consistent.
LEMMA PutRoomConsistent ==
    ASSUME NEW d \in Data, NEW i \in RoomId, NEW room \in RoomRule,
           Consistent(d), ValidRoomRule(d, i, room)
    PROVE  /\ [d EXCEPT !.rooms[i] = room] \in Data
           /\ Consistent([d EXCEPT !.rooms[i] = room])
<1> DEFINE e == [d EXCEPT !.rooms[i] = room]
<1>1. e \in Data
  BY DEF Data, Opt
<1>2. /\ e.nodes = d.nodes /\ e.rules = d.rules
      /\ e.rooms = [d.rooms EXCEPT ![i] = room]
  BY DEF Data
<1>3. \A j \in RoomId : e.rooms[j] = IF j = i THEN room ELSE d.rooms[j]
  BY <1>2 DEF Data
<1>4. /\ DOMAIN e.rooms = RoomId /\ DOMAIN d.rooms = RoomId
  BY <1>2 DEF Data
<1>5. VisitorBindsUnique(e)
  BY <1>2, <1>3, <1>4 DEF Consistent, VisitorBindsUnique, EnabledRooms, Present, ValidRoomRule
<1>6. /\ RulesHaveNodes(e) /\ BindingsUnique(e) /\ e.nodes[DefaultNode] # None
  BY <1>2 DEF Consistent, RulesHaveNodes, BindingsUnique
<1> QED BY <1>1, <1>5, <1>6 DEF Consistent

\* Deleting a room rule keeps the data consistent.
LEMMA DropRoomConsistent ==
    ASSUME NEW d \in Data, NEW i \in RoomId, Consistent(d)
    PROVE  /\ [d EXCEPT !.rooms[i] = None] \in Data
           /\ Consistent([d EXCEPT !.rooms[i] = None])
<1> DEFINE e == [d EXCEPT !.rooms[i] = None]
<1>1. e \in Data
  BY DEF Data, Opt
<1>2. /\ e.nodes = d.nodes /\ e.rules = d.rules
      /\ e.rooms = [d.rooms EXCEPT ![i] = None]
  BY DEF Data
<1>3. \A j \in EnabledRooms(e) : j \in EnabledRooms(d) /\ e.rooms[j] = d.rooms[j]
  BY <1>2 DEF Data, Present, EnabledRooms
<1>4. VisitorBindsUnique(e)
  BY <1>3 DEF Consistent, VisitorBindsUnique
<1>5. /\ RulesHaveNodes(e) /\ BindingsUnique(e) /\ e.nodes[DefaultNode] # None
  BY <1>2 DEF Consistent, RulesHaveNodes, BindingsUnique
<1> QED BY <1>1, <1>4, <1>5 DEF Consistent

\* Storing a node, new or edited, keeps the data consistent.
LEMMA PutNodeConsistent ==
    ASSUME NEW d \in Data, NEW n \in Node, NEW c \in NodeRecord, Consistent(d)
    PROVE  /\ [d EXCEPT !.nodes[n] = c] \in Data
           /\ Consistent([d EXCEPT !.nodes[n] = c])
<1> DEFINE e == [d EXCEPT !.nodes[n] = c]
<1>1. e \in Data
  BY DEF Data, Opt
<1>2. /\ e.rooms = d.rooms /\ e.rules = d.rules
      /\ e.nodes = [d.nodes EXCEPT ![n] = c]
  BY DEF Data
<1>3. \A m \in Node : d.nodes[m] # None => e.nodes[m] # None
  BY <1>2, RecordsPresent DEF Data
<1>4. \A i \in Present(d.rules) : d.rules[i].node \in Node
  BY DEF Present, Data, Opt, PortRule
<1>5. RulesHaveNodes(e) /\ e.nodes[DefaultNode] # None
  BY <1>2, <1>3, <1>4, DataAssumption DEF Consistent, RulesHaveNodes
<1>6. BindingsUnique(e) /\ VisitorBindsUnique(e)
  BY <1>2 DEF Consistent, BindingsUnique, VisitorBindsUnique, EnabledRooms
<1> QED BY <1>1, <1>5, <1>6 DEF Consistent

\* Deleting a node no rule references, other than the default, does too.
LEMMA DropNodeConsistent ==
    ASSUME NEW d \in Data, NEW n \in Node \ {DefaultNode}, Consistent(d),
           \A i \in Present(d.rules) : d.rules[i].node # n
    PROVE  /\ [d EXCEPT !.nodes[n] = None] \in Data
           /\ Consistent([d EXCEPT !.nodes[n] = None])
<1> DEFINE e == [d EXCEPT !.nodes[n] = None]
<1>1. e \in Data
  BY DEF Data, Opt
<1>2. /\ e.rooms = d.rooms /\ e.rules = d.rules
      /\ e.nodes = [d.nodes EXCEPT ![n] = None]
  BY DEF Data
<1>3. \A m \in Node \ {n} : e.nodes[m] = d.nodes[m]
  BY <1>2 DEF Data
<1>4. \A i \in Present(d.rules) : d.rules[i].node \in Node
  BY DEF Present, Data, Opt, PortRule
<1>5. RulesHaveNodes(e) /\ e.nodes[DefaultNode] # None
  BY <1>2, <1>3, <1>4, DataAssumption DEF Consistent, RulesHaveNodes
<1>6. BindingsUnique(e) /\ VisitorBindsUnique(e)
  BY <1>2 DEF Consistent, BindingsUnique, VisitorBindsUnique, EnabledRooms
<1> QED BY <1>1, <1>5, <1>6 DEF Consistent

\* Server settings, the group device and cached exposures do not matter to
\* consistency.
LEMMA LegacyConsistent ==
    ASSUME NEW d \in Data, Consistent(d)
    PROVE  /\ \A mode \in {"none", "control", "frps"} :
                 /\ [d EXCEPT !.server = mode] \in Data
                 /\ Consistent([d EXCEPT !.server = mode])
           /\ \A s \in SUBSET Exposure :
                 /\ [d EXCEPT !.exposures = s] \in Data
                 /\ Consistent([d EXCEPT !.exposures = s])
           /\ \A x \in Opt(Device) :
                 /\ [d EXCEPT !.device = x] \in Data
                 /\ Consistent([d EXCEPT !.device = x])
BY DEF Data, Consistent, RulesHaveNodes, BindingsUnique, VisitorBindsUnique, EnabledRooms

\* Every active key is a process key, and it renders to a config.
LEMMA RenderTyped ==
    ASSUME NEW d \in Data, Consistent(d)
    PROVE  /\ ActiveKeys(d) \subseteq Key
           /\ \A k \in ActiveKeys(d) : RenderKey(d, k) \in Config
<1>1. /\ EnabledRules(d) \subseteq RuleId
      /\ EnabledRooms(d) \subseteq RoomId
      /\ \A i \in EnabledRules(d) : d.rules[i] \in PortRule
  BY DEF EnabledRules, EnabledRooms, Present, Data, Opt
<1>2. \A n \in ActiveNodes(d) : n \in Node /\ d.nodes[n] \in NodeRecord
  BY <1>1 DEF ActiveNodes, Consistent, RulesHaveNodes, EnabledRules, Data, Opt, PortRule
<1>3. d.nodes[DefaultNode] \in NodeRecord
  BY DataAssumption DEF Consistent, Data, Opt
<1>4. ActiveKeys(d) \subseteq Key
  BY <1>1, <1>2, DataAssumption DEF ActiveKeys, Key
<1>5. ASSUME NEW k \in ActiveKeys(d) PROVE RenderKey(d, k) \in Config
  <2>1. CASE ~ UsesDirectMode(d)
    <3>1. <<d.server, TRUE>> \in Server
      BY <2>1 DEF UsesDirectMode, Data, Server
    <3>2. d.device \in Opt(Device)
      BY DEF Data
    <3>3. {<<"exposure", e, d.device>> : e \in d.exposures} \subseteq Proxy
      BY <3>2 DEF Data, Proxy
    <3> QED BY <2>1, <3>1, <3>2, <3>3 DEF RenderKey, LegacyConfig, Config
  <2>2. CASE UsesDirectMode(d) /\ k \in RoomId
    <3>1. <<"room", TRUE>> \in Server
      BY DEF Server
    <3>2. {<<"room", k>>} \subseteq Proxy
      BY <2>2 DEF Proxy
    <3> QED BY <2>2, <3>1, <3>2 DEF RenderKey, RoomConfig, Config, Opt
  <2>3. CASE UsesDirectMode(d) /\ k \notin RoomId
    <3>1. d.nodes[k] \in NodeRecord
      BY <1>1, <1>2, <1>3, <2>3 DEF ActiveKeys
    <3>2. <<d.nodes[k].addr, d.nodes[k].token>> \in Server
      BY <3>1 DEF NodeRecord, Server
    <3>3. DirectConfig(d, k).proxies \subseteq Proxy
      BY <1>1 DEF DirectConfig, Proxy, PortRule
    <3> QED BY <2>3, <3>2, <3>3 DEF RenderKey, DirectConfig, Config, Opt
  <2> QED BY <2>1, <2>2, <2>3
<1> QED BY <1>4, <1>5

-----------------------------------------------------------------------------
(* The inductive invariant.                                                 *)

UndoPhases == {"restore", "rollback", "rewrite", "undostop", "undoapply"}

\* What holds of the request a worker is handling.
RequestOK(r) ==
    /\ r.old # None => Consistent(r.old)
    /\ r.new # None => Consistent(r.new)
    /\ r.kind = "apply" => r.old # None /\ r.new # None
    /\ r.pc \in {"verify", "commit"} \union UndoPhases => r.kind = "apply"
    /\ r.pc \in {"write", "stop", "apply", "inplace"} => r.new # None
    /\ r.pc = "inplace" => r.new.nodes[r.node] # None
    /\ r.pc \in {"write", "apply"} => r.todo \subseteq ActiveKeys(r.new)
    /\ r.pc \in {"restore", "rewrite", "undoapply"} => r.todo \subseteq ActiveKeys(r.old)

\* The inductive invariant.
IInv ==
    /\ TypeOK
    /\ StoreConsistent
    /\ \A w \in Worker : RequestOK(req[w])

ReqsOK == req \in [Worker -> Requests] /\ \A w \in Worker : RequestOK(req[w])

-----------------------------------------------------------------------------
(* How a step changes the request of its worker.                            *)

\* A worker that moves to a sound request leaves all requests sound.
LEMMA MoveOK ==
    ASSUME ReqsOK, NEW w \in Worker, NEW r \in Requests, RequestOK(r),
           req' = [req EXCEPT ![w] = r]
    PROVE  ReqsOK'
<1>1. req' \in [Worker -> Requests]
  BY DEF ReqsOK
<1>2. \A v \in Worker : req'[v] = IF v = w THEN r ELSE req[v]
  BY DEF ReqsOK
<1>3. \A v \in Worker : RequestOK(req'[v])
  BY <1>2 DEF ReqsOK
<1> QED BY <1>1, <1>3 DEF ReqsOK, RequestOK

\* Answering a request leaves all requests sound.
LEMMA FinishOK ==
    ASSUME ReqsOK, NEW w \in Worker, NEW res \in {"none", "ok", "err"}, Finish(w, res)
    PROVE  ReqsOK'
<1>1. Idle(res) \in Requests
  BY DataAssumption DEF Idle, Requests, Phases, Opt
<1>2. RequestOK(Idle(res))
  BY DEF Idle, RequestOK, UndoPhases
<1> QED BY <1>1, <1>2, MoveOK DEF Finish

\* Moving on to another phase keeps the snapshot and the clone; the phase must
\* be one that may follow, and the loop it starts must be over active keys.
LEMMA GotoOK ==
    ASSUME ReqsOK, NEW w \in Worker, NEW pc \in Phases, NEW todo \in SUBSET Key,
           Goto(w, pc, todo),
           pc \in {"verify", "commit"} \union UndoPhases => req[w].kind = "apply",
           pc \in {"write", "stop", "apply"} => req[w].new # None,
           pc # "inplace",
           pc \in {"write", "apply"} => todo \subseteq ActiveKeys(req[w].new),
           pc \in {"restore", "rewrite", "undoapply"} => todo \subseteq ActiveKeys(req[w].old)
    PROVE  ReqsOK'
<1> DEFINE r == [req[w] EXCEPT !.pc = pc, !.todo = todo]
<1>1. req[w] \in Requests /\ RequestOK(req[w])
  BY DEF ReqsOK
<1>2. /\ r \in Requests
      /\ r.pc = pc /\ r.todo = todo
      /\ r.kind = req[w].kind /\ r.old = req[w].old /\ r.new = req[w].new
  BY <1>1 DEF Requests
<1>3. RequestOK(r)
  BY <1>1, <1>2 DEF RequestOK
<1>4. req' = [req EXCEPT ![w] = r]
  BY DEF Goto
<1> QED BY <1>2, <1>3, <1>4, MoveOK

LoopPhases == {"write", "restore", "rewrite", "apply", "undoapply"}

\* The end of a loop over files or keys leads to a phase that may follow.
LEMMA LoopEndsOK ==
    ASSUME ReqsOK, NEW w \in Worker, req[w].pc \in LoopPhases, LoopEnds(w)
    PROVE  ReqsOK'
<1>1. req[w] \in Requests /\ RequestOK(req[w])
  BY DEF ReqsOK
<1>2. CASE req[w].pc = "write" /\ req[w].kind = "apply"
  BY <1>2, GotoOK DEF LoopEnds, Phases, UndoPhases
<1>3. CASE req[w].pc = "write" /\ req[w].kind = "reload"
  BY <1>3, GotoOK DEF LoopEnds, Phases, UndoPhases
<1>4. CASE req[w].pc = "rewrite"
  BY <1>1, <1>4, GotoOK DEF LoopEnds, Phases, UndoPhases, RequestOK
<1>5. CASE req[w].pc \in {"restore", "undoapply"}
  BY <1>5, FinishOK DEF LoopEnds
<1>6. CASE \/ req[w].pc = "apply"
           \/ req[w].pc = "write" /\ req[w].kind \notin {"apply", "reload"}
  BY <1>6, FinishOK DEF LoopEnds
<1> QED BY <1>2, <1>3, <1>4, <1>5, <1>6 DEF LoopPhases

\* So does going on with the next file or key.
LEMMA LoopGoesOnOK ==
    ASSUME ReqsOK, NEW w \in Worker, NEW k, req[w].pc \in LoopPhases, LoopGoesOn(w, k)
    PROVE  ReqsOK'
<1>1. req[w] \in Requests /\ RequestOK(req[w])
  BY DEF ReqsOK
<1>2. CASE req[w].todo = {k}
  BY <1>2, LoopEndsOK DEF LoopGoesOn
<1>3. CASE req[w].todo # {k}
  <2>1. Goto(w, req[w].pc, req[w].todo \ {k})
    BY <1>3 DEF LoopGoesOn
  <2>2. req[w].pc \in Phases /\ req[w].todo \ {k} \in SUBSET Key
    BY <1>1 DEF Requests
  <2> QED BY <1>1, <2>1, <2>2, GotoOK DEF RequestOK, LoopPhases, UndoPhases
<1> QED BY <1>2, <1>3

-----------------------------------------------------------------------------
(* Requests that begin.                                                     *)

\* Beginning a request from a consistent store with a consistent clone.
LEMMA BeginOK ==
    ASSUME IInv, NEW w \in Worker, NEW kind, NEW pc, NEW node \in Node,
           NEW new \in Opt(Data), Begin(w, kind, pc, node, new),
           new # None => Consistent(new),
           \/ kind = "apply" /\ pc = "verify" /\ new # None
           \/ kind = "inplace" /\ pc = "inplace" /\ new # None /\ new.nodes[node] # None
           \/ kind = "reload" /\ pc = "snapshot" /\ new = None
    PROVE  IInv'
<1> DEFINE r == [pc |-> pc, kind |-> kind, node |-> node, old |-> mem,
                 new |-> new, todo |-> {}, res |-> "none"]
<1>1. r \in Requests
  BY DEF IInv, TypeOK, Requests, Phases, Opt
<1>2. RequestOK(r)
  BY WorldAssumption DEF RequestOK, UndoPhases, IInv, TypeOK, StoreConsistent
<1>3. req' = [req EXCEPT ![w] = r]
  BY DEF Begin
<1>4. ReqsOK'
  BY <1>1, <1>2, <1>3, MoveOK DEF IInv, TypeOK, ReqsOK
<1>5. served' \in 0..MaxRequests
  BY WorldAssumption DEF Begin, Accept, IInv, TypeOK
<1> QED BY <1>4, <1>5 DEF Begin, IInv, TypeOK, StoreConsistent, ReqsOK

\* Beginning an edit that goes through applyData.
LEMMA BeginApplyOK ==
    ASSUME IInv, NEW w \in Worker, NEW new \in Data, Consistent(new), BeginApply(w, new)
    PROVE  IInv'
BY BeginOK, DataAssumption, WorldAssumption DEF BeginApply, Opt

\* An edit of the store in a single critical section.
LEMMA UpdateStoreOK ==
    ASSUME IInv, NEW w \in Worker, NEW new \in Data, Consistent(new), UpdateStore(w, new)
    PROVE  IInv'
<1>1. ReqsOK'
  BY FinishOK DEF UpdateStore, IInv, TypeOK, ReqsOK
<1>2. served' \in 0..MaxRequests
  BY WorldAssumption DEF UpdateStore, Accept, IInv, TypeOK
<1>3. /\ mem' = new
      /\ disk' \in {disk, new}
  BY DEF UpdateStore, Saved, SaveFails
<1> QED BY <1>1, <1>2, <1>3 DEF UpdateStore, IInv, TypeOK, StoreConsistent, ReqsOK

LEMMA StoreAnswerOK ==
    ASSUME IInv, NEW w \in Worker, NEW new \in Data, Consistent(new), StoreAnswer(w, new)
    PROVE  IInv'
<1> DEFINE r == [Idle("none") EXCEPT !.pc = "snapshot", !.kind = "config"]
<1>2. r \in Requests /\ RequestOK(r)
  BY DataAssumption DEF Idle, Requests, Phases, Opt, RequestOK, UndoPhases
<1>3. ReqsOK
  BY DEF IInv, TypeOK, ReqsOK
<1>6. ReqsOK'
  <2>1. CASE Finish(w, "err")
    BY <1>3, <2>1, FinishOK
  <2>2. CASE req' = [req EXCEPT ![w] = r]
    BY <1>2, <1>3, <2>2, MoveOK
  <2> QED BY <2>1, <2>2 DEF StoreAnswer
<1>7. served' \in 0..MaxRequests
  BY WorldAssumption DEF StoreAnswer, Accept, IInv, TypeOK
<1>8. mem' = new /\ disk' \in {disk, new}
  BY DEF StoreAnswer, Saved, SaveFails
<1> QED
  BY <1>6, <1>7, <1>8 DEF StoreAnswer, IInv, TypeOK, StoreConsistent, ReqsOK

\* The exposures a request leaves, written as a new value of the field.
LEMMA AnswersOfExposures ==
    ASSUME NEW d \in Data, NEW e \in Exposure
    PROVE  /\ d.exposures \union {e} \in SUBSET Exposure
           /\ d.exposures \ {e} \in SUBSET Exposure
           /\ [d EXCEPT !.exposures = @ \union {e}] = [d EXCEPT !.exposures = d.exposures \union {e}]
           /\ [d EXCEPT !.exposures = @ \ {e}] = [d EXCEPT !.exposures = d.exposures \ {e}]
BY DEF Data

\* Every request begins soundly: what validation checks on the snapshot is
\* what consistency needs.
LEMMA BeginRequestOK ==
    ASSUME IInv, NEW w \in Worker, BeginRequest(w)
    PROVE  IInv'
<1>1. mem \in Data /\ Consistent(mem)
  BY DEF IInv, TypeOK, StoreConsistent
<1>2. /\ \A i \in Present(mem.rules) : i \in RuleId /\ mem.rules[i] \in PortRule
      /\ \A i \in Present(mem.rooms) : i \in RoomId /\ mem.rooms[i] \in RoomRule
      /\ Present(mem.nodes) \subseteq Node
  BY <1>1 DEF Present, Data, Opt
<1>3. CASE CreatePortRule(w)
  BY <1>1, <1>3, PutRuleConsistent, BeginApplyOK DEF CreatePortRule
<1>4. CASE UpdatePortRule(w)
  BY <1>1, <1>2, <1>4, PutRuleConsistent, BeginApplyOK DEF UpdatePortRule
<1>5. CASE PatchPortRule(w)
  <2>1. PICK i \in Present(mem.rules), enabled \in BOOLEAN :
           LET rule == [mem.rules[i] EXCEPT !.enabled = enabled] IN
           /\ ValidPortRule(mem, i, rule)
           /\ BeginApply(w, [mem EXCEPT !.rules[i] = rule])
    BY <1>5 DEF PatchPortRule
  <2>2. [mem.rules[i] EXCEPT !.enabled = enabled] \in PortRule
    BY <1>2 DEF PortRule
  <2> QED BY <1>1, <1>2, <2>1, <2>2, PutRuleConsistent, BeginApplyOK
<1>6. CASE DeletePortRule(w)
  BY <1>1, <1>2, <1>6, DropRuleConsistent, BeginApplyOK DEF DeletePortRule
<1>7. CASE SaveRoomRule(w)
  BY <1>1, <1>7, PutRoomConsistent, BeginApplyOK DEF SaveRoomRule
<1>8. CASE PatchRoomRule(w)
  <2>1. PICK i \in Present(mem.rooms), enabled \in BOOLEAN :
           LET room == [mem.rooms[i] EXCEPT !.enabled = enabled] IN
           /\ ValidRoomRule(mem, i, room)
           /\ BeginApply(w, [mem EXCEPT !.rooms[i] = room])
    BY <1>8 DEF PatchRoomRule
  <2>2. [mem.rooms[i] EXCEPT !.enabled = enabled] \in RoomRule
    BY <1>2 DEF RoomRule
  <2> QED BY <1>1, <1>2, <2>1, <2>2, PutRoomConsistent, BeginApplyOK
<1>9. CASE DeleteRoomRule(w)
  BY <1>1, <1>2, <1>9, DropRoomConsistent, BeginApplyOK DEF DeleteRoomRule
<1>10. CASE UpdateNode(w)
  <2>1. PICK n \in Present(mem.nodes), c \in NodeConfig :
           LET new == [mem EXCEPT !.nodes[n] = c] IN
           BeginApply(w, new) \/ Begin(w, "inplace", "inplace", n, new)
    BY <1>10 DEF UpdateNode
  <2> DEFINE new == [mem EXCEPT !.nodes[n] = c]
  <2>2. n \in Node /\ c \in NodeRecord
    BY <1>2, WorldAssumption
  <2>3. new \in Data /\ Consistent(new)
    BY <1>1, <2>2, PutNodeConsistent
  <2>4. new \in Opt(Data) /\ new # None /\ new.nodes[n] # None
    BY <1>1, <2>2, <2>3, WorldAssumption, RecordsPresent DEF Opt, Data
  <2>5. CASE BeginApply(w, new)
    BY <2>3, <2>5, BeginApplyOK
  <2>6. CASE Begin(w, "inplace", "inplace", n, new)
    BY <2>2, <2>3, <2>4, <2>6, BeginOK
  <2> QED BY <2>1, <2>5, <2>6
<1>11. CASE Reload(w)
  BY <1>11, BeginOK, DataAssumption DEF Reload, Opt
<1>12. CASE CreateExposure(w) \/ DeleteExposure(w)
  <2>1. PICK t \in SUBSET Exposure : StoreAnswer(w, [mem EXCEPT !.exposures = t])
    BY <1>1, <1>12, AnswersOfExposures DEF CreateExposure, DeleteExposure
  <2> QED BY <1>1, <2>1, LegacyConsistent, StoreAnswerOK
<1>13. CASE JoinGroup(w)
  BY <1>1, <1>13, LegacyConsistent, StoreAnswerOK DEF JoinGroup, Opt
<1>14. CASE CreateNode(w)
  BY <1>1, <1>14, PutNodeConsistent, UpdateStoreOK, WorldAssumption DEF CreateNode
<1>15. CASE DeleteNode(w)
  BY <1>1, <1>2, <1>15, DropNodeConsistent, UpdateStoreOK DEF DeleteNode
<1>16. CASE ConfigureServer(w)
  BY <1>1, <1>16, LegacyConsistent, UpdateStoreOK, WorldAssumption DEF ConfigureServer
<1> QED
  BY <1>3, <1>4, <1>5, <1>6, <1>7, <1>8, <1>9, <1>10, <1>11, <1>12, <1>13, <1>14,
     <1>15, <1>16 DEF BeginRequest

-----------------------------------------------------------------------------
(* Steps of a request in flight.                                            *)

\* The data a step works towards is consistent, and its loops are over keys
\* that data renders a config for.
LEMMA GoalOK ==
    ASSUME ReqsOK, NEW w \in Worker,
           req[w].pc \in LoopPhases \union {"stop", "undostop"}
    PROVE  /\ Goal(w) \in Data /\ Consistent(Goal(w))
           /\ ActiveKeys(Goal(w)) \subseteq Key
           /\ req[w].pc \in LoopPhases =>
                 \A k \in req[w].todo : k \in Key /\ RenderKey(Goal(w), k) \in Config
           /\ req[w].pc \in LoopPhases => req[w].todo \subseteq ActiveKeys(Goal(w))
<1>1. req[w] \in Requests /\ RequestOK(req[w])
  BY DEF ReqsOK
<1>2. Goal(w) \in Data /\ Consistent(Goal(w))
  BY <1>1 DEF Goal, RequestOK, Requests, Opt, LoopPhases, UndoPhases
<1>3. ActiveKeys(Goal(w)) \subseteq Key
      /\ \A k \in ActiveKeys(Goal(w)) : RenderKey(Goal(w), k) \in Config
  BY <1>2, RenderTyped
<1>4. req[w].pc \in LoopPhases => req[w].todo \subseteq ActiveKeys(Goal(w))
  BY <1>1 DEF Goal, RequestOK, LoopPhases
<1> QED BY <1>2, <1>3, <1>4

\* The else-branch of UpdateNode: the node it stores is a real one.
LEMMA UpdateNodeInPlaceOK ==
    ASSUME IInv, NEW w \in Worker, UpdateNodeInPlace(w)
    PROVE  IInv'
<1> DEFINE n == req[w].node
           new == [mem EXCEPT !.nodes[n] = req[w].new.nodes[n]]
<1>1. /\ mem \in Data /\ Consistent(mem) /\ ReqsOK
      /\ req[w] \in Requests /\ RequestOK(req[w])
  BY DEF IInv, TypeOK, StoreConsistent, ReqsOK
<1>2. n \in Node /\ req[w].new.nodes[n] \in NodeRecord
  BY <1>1 DEF UpdateNodeInPlace, RequestOK, Requests, Opt, Data
<1>3. new \in Data /\ Consistent(new)
  BY <1>1, <1>2, PutNodeConsistent
<1>4. ReqsOK'
  BY <1>1, FinishOK DEF UpdateNodeInPlace
<1>5. mem' \in {mem, new} /\ disk' \in {disk, new}
  BY DEF UpdateNodeInPlace, Saved, SaveFails
<1> QED
  BY <1>3, <1>4, <1>5 DEF UpdateNodeInPlace, IInv, TypeOK, StoreConsistent, ReqsOK

LEMMA SnapshotConfigOK ==
    ASSUME IInv, NEW w \in Worker, SnapshotConfig(w)
    PROVE  IInv'
<1> DEFINE r == [req[w] EXCEPT !.new = mem,
                               !.pc = IF req[w].pc = "snapshot" THEN "write" ELSE "stop",
                               !.todo = ActiveKeys(mem)]
<1>1. /\ mem \in Data /\ Consistent(mem) /\ ReqsOK
      /\ req[w] \in Requests /\ RequestOK(req[w])
  BY DEF IInv, TypeOK, StoreConsistent, ReqsOK
<1>2. ActiveKeys(mem) \subseteq Key
  BY <1>1, RenderTyped
<1>3. /\ r \in Requests
      /\ r.pc \in {"write", "stop"} /\ r.todo = ActiveKeys(mem)
      /\ r.new = mem /\ r.old = req[w].old /\ r.kind = req[w].kind
  BY <1>1, <1>2 DEF Requests, Phases, Opt
<1>4. RequestOK(r)
  BY <1>1, <1>3, WorldAssumption DEF RequestOK, UndoPhases
<1>5. ReqsOK'
  BY <1>1, <1>3, <1>4, FinishOK, MoveOK DEF SnapshotConfig
<1> QED BY <1>5 DEF SnapshotConfig, IInv, TypeOK, StoreConsistent, ReqsOK

LEMMA VerifyOK ==
    ASSUME IInv, NEW w \in Worker, Verify(w)
    PROVE  IInv'
<1>1. ReqsOK /\ req[w] \in Requests /\ RequestOK(req[w])
  BY DEF IInv, TypeOK, ReqsOK
<1>2. req[w].new \in Data /\ Consistent(req[w].new)
  BY <1>1 DEF Verify, RequestOK, Requests, Opt
<1>3. ActiveKeys(req[w].new) \in SUBSET Key
  BY <1>2, RenderTyped
<1>4. CASE Goto(w, "write", ActiveKeys(req[w].new))
  <2>1. ReqsOK'
    BY <1>1, <1>2, <1>3, <1>4, GotoOK, WorldAssumption DEF Phases, UndoPhases
  <2> QED BY <2>1 DEF Verify, IInv, TypeOK, StoreConsistent, ReqsOK
<1>5. CASE Finish(w, "err")
  <2>1. ReqsOK'
    BY <1>1, <1>5, FinishOK
  <2> QED BY <2>1 DEF Verify, IInv, TypeOK, StoreConsistent, ReqsOK
<1> QED BY <1>4, <1>5 DEF Verify

LEMMA WriteFileOK ==
    ASSUME IInv, NEW w \in Worker, WriteFile(w)
    PROVE  IInv'
<1>1. ReqsOK
  BY DEF IInv, TypeOK, ReqsOK
<1>2. req[w].pc \in LoopPhases
  BY DEF WriteFile, LoopPhases
<1>3. \A k \in req[w].todo : k \in Key /\ RenderKey(Goal(w), k) \in Config
  BY <1>1, <1>2, GoalOK
<1>4. Torn \in Config
  BY DEF Torn, Config, Server, Opt
<1>5. files' \in [Key -> Opt(Config)]
  BY <1>3, <1>4 DEF WriteFile, IInv, TypeOK, Opt
<1>6. ReqsOK'
  BY <1>1, <1>2, FinishOK, LoopEndsOK, LoopGoesOnOK DEF WriteFile
<1> QED BY <1>5, <1>6 DEF WriteFile, IInv, TypeOK, StoreConsistent, ReqsOK

\* Commit installs a clone made earlier: it is consistent on its own.
LEMMA CommitOK ==
    ASSUME IInv, NEW w \in Worker, Commit(w)
    PROVE  IInv'
<1>1. ReqsOK /\ req[w] \in Requests /\ RequestOK(req[w])
  BY DEF IInv, TypeOK, ReqsOK
<1>2. /\ req[w].kind = "apply" /\ req[w].old # None /\ req[w].new # None
      /\ req[w].new \in Data /\ Consistent(req[w].new)
      /\ req[w].old \in Data /\ Consistent(req[w].old)
  BY <1>1 DEF Commit, RequestOK, Requests, Opt
<1>3. mem' = req[w].new /\ disk' \in {disk, req[w].new}
  BY DEF Commit, Saved, SaveFails
<1>4. ActiveKeys(req[w].old) \in SUBSET Key
  BY <1>2, RenderTyped
<1>5. ReqsOK'
  <2>1. CASE Goto(w, "stop", {})
    BY <1>1, <1>2, <2>1, GotoOK DEF Phases, UndoPhases
  <2>2. CASE Goto(w, "restore", ActiveKeys(req[w].old))
    BY <1>1, <1>2, <1>4, <2>2, GotoOK DEF Phases, UndoPhases
  <2>3. CASE Finish(w, "err")
    BY <1>1, <2>3, FinishOK
  <2> QED BY <2>1, <2>2, <2>3 DEF Commit
<1> QED BY <1>2, <1>3, <1>5 DEF Commit, IInv, TypeOK, StoreConsistent, ReqsOK

LEMMA StopStaleOK ==
    ASSUME IInv, NEW w \in Worker, StopStale(w)
    PROVE  IInv'
<1>1. ReqsOK /\ req[w] \in Requests /\ RequestOK(req[w])
  BY DEF IInv, TypeOK, ReqsOK
<1>2. ActiveKeys(Goal(w)) \in SUBSET Key
  BY <1>1, GoalOK DEF StopStale
<1>3. running' \in [Key -> Opt(Process)]
  BY DEF StopStale, IInv, TypeOK, Opt
<1>4. ReqsOK'
  <2>1. CASE req[w].pc = "stop"
    <3>1. Goto(w, "apply", ActiveKeys(Goal(w))) /\ Goal(w) = req[w].new
      BY <2>1 DEF StopStale, Goal
    <3> QED BY <1>1, <1>2, <2>1, <3>1, GotoOK DEF Phases, UndoPhases, RequestOK
  <2>2. CASE req[w].pc = "undostop"
    <3>1. Goto(w, "undoapply", ActiveKeys(Goal(w))) /\ Goal(w) = req[w].old
      BY <2>2 DEF StopStale, Goal
    <3> QED BY <1>1, <1>2, <2>2, <3>1, GotoOK DEF Phases, UndoPhases, RequestOK
  <2> QED BY <2>1, <2>2 DEF StopStale
<1> QED BY <1>3, <1>4 DEF StopStale, IInv, TypeOK, StoreConsistent, ReqsOK

LEMMA ReloadKeyOK ==
    ASSUME IInv, NEW w \in Worker, ReloadKey(w)
    PROVE  IInv'
<1>1. ReqsOK /\ req[w] \in Requests /\ RequestOK(req[w])
  BY DEF IInv, TypeOK, ReqsOK
<1>2. req[w].pc \in LoopPhases
  BY DEF ReloadKey, LoopPhases
<1>3. \A k \in req[w].todo : k \in Key /\ RenderKey(Goal(w), k) \in Config
  BY <1>1, <1>2, GoalOK
<1>4. running' \in [Key -> Opt(Process)]
  <2>1. \A k \in Key : files[k] \in Config \union {None} /\ running[k] \in Process \union {None}
    BY DEF IInv, TypeOK, Opt
  <2>2. \A k \in Key, restartKey \in Server : Started(k, restartKey) \in Opt(Process)
    BY <2>1 DEF Started, Readable, Config, Process, Opt
  <2>3. \A k \in Key : Readable(k) /\ running[k] # None => Reloaded(k) \in Opt(Process)
    BY <2>1 DEF Reloaded, Readable, Config, Process, Opt
  <2>4. \A k \in req[w].todo : RenderKey(Goal(w), k).server \in Server
    BY <1>3 DEF Config
  <2>5. PICK k \in req[w].todo :
           \/ running' = [running EXCEPT ![k] = Started(k, RenderKey(Goal(w), k).server)]
           \/ Readable(k) /\ running[k] # None /\ running' = [running EXCEPT ![k] = Reloaded(k)]
           \/ running' = running
           \/ running' = [running EXCEPT ![k] = None]
    BY DEF ReloadKey, Keeps
  <2>6. /\ k \in Key
        /\ Started(k, RenderKey(Goal(w), k).server) \in Opt(Process)
        /\ Readable(k) /\ running[k] # None => Reloaded(k) \in Opt(Process)
        /\ None \in Opt(Process)
    BY <1>3, <2>2, <2>3, <2>4 DEF Opt
  <2>7. running \in [Key -> Opt(Process)]
    BY DEF IInv, TypeOK
  <2> QED BY <2>5, <2>6, <2>7
<1>5. ReqsOK'
  <2>1. CASE \E k : LoopGoesOn(w, k)
    BY <1>1, <1>2, <2>1, LoopGoesOnOK
  <2>2. CASE req[w].kind = "apply" /\ Goto(w, "rollback", {})
    BY <1>1, <2>2, GotoOK DEF Phases, UndoPhases
  <2>3. CASE Finish(w, "err")
    BY <1>1, <2>3, FinishOK
  <2> QED BY <2>1, <2>2, <2>3 DEF ReloadKey
<1> QED BY <1>4, <1>5 DEF ReloadKey, IInv, TypeOK, StoreConsistent, ReqsOK

\* Rollback installs the snapshot the request started from.
LEMMA RollbackOK ==
    ASSUME IInv, NEW w \in Worker, Rollback(w)
    PROVE  IInv'
<1>1. ReqsOK /\ req[w] \in Requests /\ RequestOK(req[w])
  BY DEF IInv, TypeOK, ReqsOK
<1>2. /\ req[w].kind = "apply"
      /\ req[w].old \in Data /\ Consistent(req[w].old)
  BY <1>1 DEF Rollback, RequestOK, Requests, Opt, UndoPhases
<1>3. mem' = req[w].old /\ disk' \in {disk, req[w].old}
  BY DEF Rollback, Saved, SaveFails
<1>4. ActiveKeys(req[w].old) \in SUBSET Key
  BY <1>2, RenderTyped
<1>5. ReqsOK'
  <2>1. CASE Goto(w, "rewrite", ActiveKeys(req[w].old))
    BY <1>1, <1>2, <1>4, <2>1, GotoOK DEF Phases, UndoPhases
  <2>2. CASE Finish(w, "err")
    BY <1>1, <2>2, FinishOK
  <2> QED BY <2>1, <2>2 DEF Rollback
<1> QED BY <1>2, <1>3, <1>5 DEF Rollback, IInv, TypeOK, StoreConsistent, ReqsOK

-----------------------------------------------------------------------------
(* The environment.                                                         *)

LEMMA FrpcExitsOK ==
    ASSUME IInv, NEW k \in Key, FrpcExits(k)
    PROVE  IInv'
<1>1. running' \in [Key -> Opt(Process)]
  BY DEF FrpcExits, IInv, TypeOK, Opt
<1> QED BY <1>1 DEF FrpcExits, IInv, TypeOK, StoreConsistent

\* What the backend opens after a crash is consistent because client.json is.
LEMMA RestartOK ==
    ASSUME IInv, Restart
    PROVE  IInv'
<1>1. disk \in Data /\ Consistent(disk) /\ DefaultNode \in Node /\ SeedNode \in NodeRecord
  BY DataAssumption, WorldAssumption DEF IInv, TypeOK, StoreConsistent
<1>2. Seeded(disk) \in Data /\ Consistent(Seeded(disk))
  <2> DEFINE stored == disk.nodes[DefaultNode]
             merged == [addr  |-> SeedNode.addr,
                        token |-> stored.token \/ SeedNode.token,
                        allow |-> (stored.allow \ WebBinding)
                                  \union (SeedNode.allow \intersect WebBinding)]
  <2>1. stored \in NodeRecord
    BY <1>1 DEF Consistent, Data, Opt
  <2>2. merged \in NodeRecord
    BY <1>1, <2>1 DEF NodeRecord
  <2>3. stored # None
    BY <1>1 DEF Consistent
  <2>4. Seeded(disk) = [disk EXCEPT !.nodes[DefaultNode] = merged]
    BY <2>3, Zenon DEF Seeded
  <2> HIDE DEF merged
  <2>5. /\ [disk EXCEPT !.nodes[DefaultNode] = merged] \in Data
        /\ Consistent([disk EXCEPT !.nodes[DefaultNode] = merged])
    BY <1>1, <2>2, PutNodeConsistent
  <2> QED BY <2>4, <2>5
<1>3. NoneRunning \in [Key -> Opt(Process)]
  BY DEF NoneRunning, Opt
<1>4. Idle("none") \in Requests /\ RequestOK(Idle("none"))
  BY DataAssumption DEF Idle, Requests, Phases, Opt, RequestOK, UndoPhases
<1>5. req' \in [Worker -> Requests] /\ \A w \in Worker : RequestOK(req'[w])
  BY <1>4 DEF Restart
<1>6. served' \in 0..MaxRequests
  BY WorldAssumption DEF Restart, IInv, TypeOK
<1> QED
  BY <1>2, <1>3, <1>5, <1>6 DEF Restart, Saved, IInv, TypeOK, StoreConsistent, RequestOK

-----------------------------------------------------------------------------
(* The theorems.                                                            *)

LEMMA InitOK == Init => IInv
<1> SUFFICES ASSUME Init PROVE IInv
  OBVIOUS
<1>1. mem \in Data /\ Consistent(mem) /\ disk = mem
  BY WorldAssumption DEF Init
<1>2. /\ ActiveKeys(mem) \subseteq Key
      /\ \A k \in ActiveKeys(mem) : RenderKey(mem, k) \in Config
  BY <1>1, RenderTyped
<1>3. /\ Render(mem) \in [Key -> Opt(Config)]
      /\ Serving(mem) \in [Key -> Opt(Process)]
      /\ NoneRunning \in [Key -> Opt(Process)]
      /\ NoneRunning \in [Key -> Opt(Config)]
  BY <1>2 DEF Render, Serving, NoneRunning, Config, Process, Opt
<1>4. Idle("none") \in Requests /\ RequestOK(Idle("none"))
  BY DataAssumption DEF Idle, Requests, Phases, Opt, RequestOK, UndoPhases
<1>5. served \in 0..MaxRequests
  BY WorldAssumption DEF Init
<1> QED BY <1>1, <1>3, <1>4, <1>5 DEF Init, IInv, TypeOK, StoreConsistent

LEMMA NextOK == IInv /\ [Next]_vars => IInv'
<1> SUFFICES ASSUME IInv, [Next]_vars PROVE IInv'
  OBVIOUS
<1>1. CASE \E w \in Worker : BeginRequest(w)
  BY <1>1, BeginRequestOK
<1>2. CASE \E w \in Worker : RequestStep(w)
  BY <1>2, UpdateNodeInPlaceOK, SnapshotConfigOK, VerifyOK, WriteFileOK, CommitOK,
     StopStaleOK, ReloadKeyOK, RollbackOK DEF RequestStep
<1>3. CASE Restart
  BY <1>3, RestartOK
<1>4. CASE \E k \in Key : FrpcExits(k)
  BY <1>4, FrpcExitsOK
<1>5. CASE UNCHANGED vars
  BY <1>5 DEF vars, IInv, TypeOK, StoreConsistent, RequestOK
<1> QED BY <1>1, <1>2, <1>3, <1>4, <1>5 DEF Next

\* The inductive invariant holds in every reachable state.
THEOREM Invariance == Spec => []IInv
BY InitOK, NextOK, PTL DEF Spec

\* Every variable keeps its type, for any number of handlers and any failures.
THEOREM TypeCorrect == Spec => []TypeOK
<1>1. IInv => TypeOK
  BY DEF IInv
<1> QED BY <1>1, Invariance, PTL

\* The store in memory and client.json stay consistent: distinct bindings per
\* node, existing nodes, distinct visitor ports, whatever handlers interleave,
\* fail or are cut short by a crash.
THEOREM StoreStaysConsistent == Spec => []StoreConsistent
<1>1. IInv => StoreConsistent
  BY DEF IInv
<1> QED BY <1>1, Invariance, PTL

-----------------------------------------------------------------------------
(* The end of a request: each step brings it nearer.                        *)

\* The keys a loop has left can be counted, and become fewer.
LEMMA KeysLeft ==
    ASSUME IsFiniteSet(Key), NEW S \in SUBSET Key
    PROVE  /\ Cardinality(S) \in 0 .. Cardinality(Key)
           /\ Cardinality(Key) \in Nat
           /\ Cardinality({}) = 0
           /\ \A k \in S : Cardinality(S) >= 1 /\ Cardinality(S \ {k}) = Cardinality(S) - 1
<1>1. /\ IsFiniteSet(S) /\ Cardinality(S) <= Cardinality(Key)
      /\ Cardinality(S) \in Nat /\ Cardinality(Key) \in Nat
  BY FS_Subset, FS_CardinalityType
<1>2. Cardinality({}) = 0 /\ (Cardinality(S) = 0 => S = {})
  BY <1>1, FS_EmptySet
<1>3. \A k \in S : Cardinality(S \ {k}) = Cardinality(S) - 1
  BY <1>1, FS_RemoveElement
<1> QED BY <1>1, <1>2, <1>3

\* The phases in the order in which a request passes through them.
LEMMA PhasesInOrder ==
    ASSUME Cardinality(Key) \in Nat
    PROVE  LET all == Cardinality(Key) IN
           /\ StepsAfter("idle") = 0 /\ StepsAfter("inplace") = 1
           /\ StepsAfter("restore") = 1 /\ StepsAfter("undoapply") = 1
           /\ StepsAfter("undostop") = all + 2 /\ StepsAfter("rewrite") = all + 2
           /\ StepsAfter("rollback") = 2 * all + 3 /\ StepsAfter("apply") = 2 * all + 3
           /\ StepsAfter("stop") = 3 * all + 4
           /\ StepsAfter("commit") = 4 * all + 5 /\ StepsAfter("resnap") = 4 * all + 5
           /\ StepsAfter("write") = 4 * all + 5
           /\ StepsAfter("verify") = 5 * all + 6 /\ StepsAfter("snapshot") = 5 * all + 6
           /\ \A pc \in Phases : StepsAfter(pc) \in Nat /\ (pc # "idle" => StepsAfter(pc) > 0)
BY DEF StepsAfter, Phases

\* A step of a request: the request changes, no other does, and it is nearer.
Nearer(w) ==
    /\ \A v \in Worker \ {w} : req'[v] = req[v]
    /\ StepsLeft(w)' < StepsLeft(w)

\* What is counted of the request of w.
LEMMA StepsAre ==
    ASSUME IsFiniteSet(Key), IInv, NEW w \in Worker
    PROVE  /\ req[w].pc \in Phases /\ req[w].todo \in SUBSET Key
           /\ StepsLeft(w) = StepsAfter(req[w].pc) + Cardinality(req[w].todo)
           /\ StepsAfter(req[w].pc) \in Nat
           /\ req[w].pc # "idle" => StepsAfter(req[w].pc) > 0
           /\ Cardinality(req[w].todo) \in 0 .. Cardinality(Key)
<1>1. req[w].pc \in Phases /\ req[w].todo \in SUBSET Key
  BY DEF IInv, TypeOK, Requests
<1>2. Cardinality(req[w].todo) \in 0 .. Cardinality(Key) /\ Cardinality(Key) \in Nat
  BY <1>1, KeysLeft
<1> QED BY <1>1, <1>2, PhasesInOrder DEF StepsLeft

\* An answered request has no steps left.
LEMMA FinishNearer ==
    ASSUME IsFiniteSet(Key), IInv, NEW w \in Worker, req[w].pc # "idle", NEW res, Finish(w, res)
    PROVE  Nearer(w)
<1>1. /\ req'[w].pc = "idle" /\ req'[w].todo = {}
      /\ \A v \in Worker \ {w} : req'[v] = req[v]
  BY DEF Finish, Idle, IInv, TypeOK
<1>2. StepsLeft(w)' = 0
  BY <1>1, KeysLeft, PhasesInOrder DEF StepsLeft
<1>3. StepsLeft(w) > 0
  BY StepsAre
<1> QED BY <1>1, <1>2, <1>3 DEF Nearer

\* Moving on to a phase with fewer steps, counting the keys of its loop.
LEMMA GotoNearer ==
    ASSUME IsFiniteSet(Key), IInv, NEW w \in Worker, NEW pc \in Phases, NEW todo \in SUBSET Key,
           Goto(w, pc, todo),
           StepsAfter(pc) + Cardinality(todo) < StepsLeft(w)
    PROVE  Nearer(w)
<1>1. /\ req'[w].pc = pc /\ req'[w].todo = todo
      /\ \A v \in Worker \ {w} : req'[v] = req[v]
  BY DEF Goto, IInv, TypeOK, Requests
<1> QED BY <1>1 DEF Nearer, StepsLeft

\* A loop with a key left ends in a phase that comes later.
LEMMA LoopEndsNearer ==
    ASSUME IsFiniteSet(Key), IInv, NEW w \in Worker, req[w].pc \in LoopPhases,
           NEW k \in req[w].todo, LoopEnds(w)
    PROVE  Nearer(w)
<1>1. /\ req[w].todo \in SUBSET Key /\ Cardinality(req[w].todo) >= 1
      /\ Cardinality(Key) \in Nat /\ Cardinality({}) = 0
  BY StepsAre, KeysLeft
<1>2. req[w].pc # "idle"
  BY DEF LoopPhases
<1>3. CASE req[w].pc = "write" /\ req[w].kind = "apply"
  <2>1. Goto(w, "commit", {})
    BY <1>3 DEF LoopEnds
  <2> QED BY <1>1, <1>3, <2>1, GotoNearer, StepsAre, PhasesInOrder DEF Phases
<1>4. CASE req[w].pc = "write" /\ req[w].kind = "reload"
  <2>1. Goto(w, "resnap", {})
    BY <1>4 DEF LoopEnds
  <2> QED BY <1>1, <1>4, <2>1, GotoNearer, StepsAre, PhasesInOrder DEF Phases
<1>5. CASE req[w].pc = "rewrite"
  <2>1. Goto(w, "undostop", {})
    BY <1>5 DEF LoopEnds
  <2> QED BY <1>1, <1>5, <2>1, GotoNearer, StepsAre, PhasesInOrder DEF Phases
<1>6. CASE \/ req[w].pc \in {"restore", "undoapply", "apply"}
           \/ req[w].pc = "write" /\ req[w].kind \notin {"apply", "reload"}
  <2>1. Finish(w, "err") \/ Finish(w, "ok")
    BY <1>6 DEF LoopEnds
  <2> QED BY <1>2, <2>1, FinishNearer
<1> QED BY <1>3, <1>4, <1>5, <1>6 DEF LoopPhases

\* So does going on with one key less.
LEMMA LoopGoesOnNearer ==
    ASSUME IsFiniteSet(Key), IInv, NEW w \in Worker, req[w].pc \in LoopPhases,
           NEW k \in req[w].todo, LoopGoesOn(w, k)
    PROVE  Nearer(w)
<1>1. CASE req[w].todo = {k}
  BY <1>1, LoopEndsNearer DEF LoopGoesOn
<1>2. CASE req[w].todo # {k}
  <2>1. Goto(w, req[w].pc, req[w].todo \ {k})
    BY <1>2 DEF LoopGoesOn
  <2>2. req[w].todo \in SUBSET Key /\ req[w].todo \ {k} \in SUBSET Key /\ req[w].pc \in Phases
    BY StepsAre
  <2>3. Cardinality(req[w].todo) >= 1 /\ Cardinality(req[w].todo \ {k}) = Cardinality(req[w].todo) - 1
    BY <2>2, KeysLeft
  <2>4. StepsAfter(req[w].pc) + Cardinality(req[w].todo \ {k}) < StepsLeft(w)
    BY <2>3, StepsAre
  <2> QED BY <2>1, <2>2, <2>4, GotoNearer
<1> QED BY <1>1, <1>2

\* Every step of a request brings it nearer to its answer.
LEMMA RequestStepNearer ==
    ASSUME IsFiniteSet(Key), IInv, NEW w \in Worker, RequestStep(w)
    PROVE  Nearer(w)
<1>1. /\ Cardinality(Key) \in Nat /\ Cardinality({}) = 0
      /\ \A S \in SUBSET Key : Cardinality(S) \in 0 .. Cardinality(Key)
  BY KeysLeft
<1>2. req[w].pc # "idle"
  BY DEF RequestStep, UpdateNodeInPlace, SnapshotConfig, Verify, WriteFile, Commit, StopStale,
         ReloadKey, Rollback
<1>3. RequestOK(req[w]) /\ req[w] \in Requests /\ mem \in Data /\ Consistent(mem) /\ ReqsOK
  BY DEF IInv, TypeOK, StoreConsistent, ReqsOK
<1>4. \A d \in Data : Consistent(d) =>
        ActiveKeys(d) \in SUBSET Key /\ Cardinality(ActiveKeys(d)) \in 0 .. Cardinality(Key)
  BY <1>1, RenderTyped
<1>5. CASE UpdateNodeInPlace(w)
  BY <1>2, <1>5, FinishNearer DEF UpdateNodeInPlace
<1>6. CASE SnapshotConfig(w)
  <2> DEFINE pc == IF req[w].pc = "snapshot" THEN "write" ELSE "stop"
  <2>1. CASE req' = [req EXCEPT ![w] = [@ EXCEPT !.new = mem, !.pc = pc, !.todo = ActiveKeys(mem)]]
    <3>1. /\ req'[w].pc = pc /\ req'[w].todo = ActiveKeys(mem)
          /\ \A v \in Worker \ {w} : req'[v] = req[v]
      BY <1>3, <2>1 DEF IInv, TypeOK, Requests
    <3>2. StepsLeft(w)' = StepsAfter(pc) + Cardinality(ActiveKeys(mem))
      BY <3>1 DEF StepsLeft
    <3>3. StepsAfter(pc) + Cardinality(ActiveKeys(mem)) < StepsLeft(w)
      BY <1>1, <1>3, <1>4, <1>6, StepsAre, PhasesInOrder DEF SnapshotConfig
    <3> QED BY <3>1, <3>2, <3>3 DEF Nearer
  <2>2. CASE Finish(w, "err")
    BY <1>2, <2>2, FinishNearer
  <2> QED BY <1>6, <2>1, <2>2 DEF SnapshotConfig
<1>7. CASE Verify(w)
  <2>1. req[w].new \in Data /\ Consistent(req[w].new)
    BY <1>3, <1>7 DEF Verify, RequestOK, Requests, Opt
  <2>2. CASE Goto(w, "write", ActiveKeys(req[w].new))
    BY <1>1, <1>4, <1>7, <2>1, <2>2, GotoNearer, StepsAre, PhasesInOrder DEF Verify, Phases
  <2> QED BY <1>2, <1>7, <2>2, FinishNearer DEF Verify
<1>8. CASE WriteFile(w)
  <2>1. req[w].pc \in LoopPhases
    BY <1>8 DEF WriteFile, LoopPhases
  <2>2. PICK k \in req[w].todo : LoopGoesOn(w, k) \/ LoopEnds(w) \/ Finish(w, "err")
    BY <1>8 DEF WriteFile
  <2> QED BY <1>2, <2>1, <2>2, LoopGoesOnNearer, LoopEndsNearer, FinishNearer
<1>9. CASE Commit(w)
  <2>1. req[w].old \in Data /\ Consistent(req[w].old)
    BY <1>3, <1>9 DEF Commit, RequestOK, Requests, Opt
  <2>2. CASE Goto(w, "stop", {})
    BY <1>1, <1>9, <2>2, GotoNearer, StepsAre, PhasesInOrder DEF Commit, Phases
  <2>3. CASE Goto(w, "restore", ActiveKeys(req[w].old))
    BY <1>1, <1>4, <1>9, <2>1, <2>3, GotoNearer, StepsAre, PhasesInOrder DEF Commit, Phases
  <2> QED BY <1>2, <1>9, <2>2, <2>3, FinishNearer DEF Commit
<1>10. CASE StopStale(w)
  <2> DEFINE todo == ActiveKeys(Goal(w))
  <2>1. todo \in SUBSET Key /\ Cardinality(todo) \in 0 .. Cardinality(Key)
    BY <1>1, <1>3, <1>10, GoalOK DEF StopStale
  <2>2. CASE req[w].pc = "stop"
    <3>1. Goto(w, "apply", todo)
      BY <1>10, <2>2 DEF StopStale
    <3> HIDE DEF todo
    <3> QED BY <1>1, <2>1, <2>2, <3>1, GotoNearer, StepsAre, PhasesInOrder DEF Phases
  <2>3. CASE req[w].pc = "undostop"
    <3>1. Goto(w, "undoapply", todo)
      BY <1>10, <2>3 DEF StopStale
    <3> HIDE DEF todo
    <3> QED BY <1>1, <2>1, <2>3, <3>1, GotoNearer, StepsAre, PhasesInOrder DEF Phases
  <2> QED BY <1>10, <2>2, <2>3 DEF StopStale
<1>11. CASE ReloadKey(w)
  <2>1. req[w].pc \in LoopPhases
    BY <1>11 DEF ReloadKey, LoopPhases
  <2>2. PICK k \in req[w].todo :
          \/ LoopGoesOn(w, k)
          \/ req[w].pc = "apply" /\ Goto(w, "rollback", {})
          \/ Finish(w, "err")
    BY <1>11 DEF ReloadKey
  <2>3. CASE req[w].pc = "apply" /\ Goto(w, "rollback", {})
    <3>1. Cardinality(req[w].todo) >= 1
      BY <2>2, StepsAre, KeysLeft
    <3> QED BY <1>1, <2>3, <3>1, GotoNearer, StepsAre, PhasesInOrder DEF Phases
  <2> QED BY <1>2, <2>1, <2>2, <2>3, LoopGoesOnNearer, FinishNearer
<1>12. CASE Rollback(w)
  <2>1. req[w].old \in Data /\ Consistent(req[w].old)
    BY <1>3, <1>12 DEF Rollback, RequestOK, Requests, Opt, UndoPhases
  <2>2. CASE Goto(w, "rewrite", ActiveKeys(req[w].old))
    BY <1>1, <1>4, <1>12, <2>1, <2>2, GotoNearer, StepsAre, PhasesInOrder DEF Rollback, Phases
  <2> QED BY <1>2, <1>12, <2>2, FinishNearer DEF Rollback
<1> QED BY <1>5, <1>6, <1>7, <1>8, <1>9, <1>10, <1>11, <1>12 DEF RequestStep

\* Another request that begins leaves those in flight alone.
LEMMA BeginsAlone ==
    ASSUME IInv, NEW w \in Worker, BeginRequest(w)
    PROVE  req[w].pc = "idle" /\ \A v \in Worker \ {w} : req'[v] = req[v]
<1>1. PICK r : Accept(w) /\ req' = [req EXCEPT ![w] = r]
  BY DEF BeginRequest, CreatePortRule, UpdatePortRule, PatchPortRule, DeletePortRule, SaveRoomRule,
         PatchRoomRule, DeleteRoomRule, UpdateNode, Reload, JoinGroup, CreateExposure, DeleteExposure,
         CreateNode, DeleteNode, ConfigureServer, UpdateStore, StoreAnswer, BeginApply, Begin, Finish
<1> QED BY <1>1 DEF Accept, IInv, TypeOK

\* Whatever fails and whatever other requests do, a request in flight moves by steps
\* of its own only, and each brings it nearer to its answer: at most six steps and
\* five for each process key.  Under the fairness of FairSpec this is why
\* RequestsEnd holds.
THEOREM RequestsRunOut == ASSUME IsFiniteSet(Key) PROVE Spec => StepsRunOut
<1> DEFINE Nears == \A w \in Worker : req[w].pc # "idle" /\ req'[w] # req[w] =>
                       StepsLeft(w)' < StepsLeft(w)
<1>1. ASSUME IInv, [Next]_vars PROVE [Nears]_vars
  <2>1. CASE \E v \in Worker : BeginRequest(v)
    <3>1. PICK v \in Worker : BeginRequest(v)
      BY <2>1
    <3> QED BY <1>1, <3>1, BeginsAlone
  <2>2. CASE \E v \in Worker : RequestStep(v)
    <3>1. PICK v \in Worker : RequestStep(v)
      BY <2>2
    <3>2. Nearer(v)
      BY <1>1, <3>1, RequestStepNearer
    <3> QED BY <3>2 DEF Nearer
  <2>3. CASE Restart
    <3>1. \A w \in Worker : req'[w].pc = "idle" /\ req'[w].todo = {}
      BY <2>3 DEF Restart, Idle
    <3>2. \A w \in Worker : StepsLeft(w)' = 0
      BY <3>1, KeysLeft, PhasesInOrder DEF StepsLeft
    <3> QED BY <1>1, <3>2, StepsAre
  <2>4. CASE UNCHANGED vars \/ \E k \in Key : FrpcExits(k)
    <3>1. UNCHANGED req
      BY <2>4 DEF vars, FrpcExits
    <3> QED BY <3>1
  <2> QED BY <1>1, <2>1, <2>2, <2>3, <2>4 DEF Next
<1>2. [][Nears]_vars => StepsRunOut
  BY PTL DEF StepsRunOut
<1> QED BY <1>1, <1>2, Invariance, PTL DEF Spec

-----------------------------------------------------------------------------
(* A request in flight is never stuck: its loops have a key to go on with.   *)

\* Something is rendered whatever the data: applyData never loops over nothing.
LEMMA SomethingActive == ASSUME NEW d PROVE ActiveKeys(d) # {}
BY DEF ActiveKeys, ActiveNodes

LoopsHaveKeys == \A w \in Worker : req[w].pc \in LoopPhases => req[w].todo # {}

\* Moving on to a phase that is no loop, or to a loop with keys.
LEMMA GotoHasKeys ==
    ASSUME IInv, LoopsHaveKeys, NEW w \in Worker, NEW pc, NEW todo, Goto(w, pc, todo),
           pc \in LoopPhases => todo # {}
    PROVE  LoopsHaveKeys'
<1>1. /\ req'[w].pc = pc /\ req'[w].todo = todo
      /\ \A v \in Worker \ {w} : req'[v] = req[v]
  BY DEF Goto, IInv, TypeOK, Requests
<1> QED BY <1>1 DEF LoopsHaveKeys

\* An answered request is in no loop.
LEMMA FinishHasKeys ==
    ASSUME IInv, LoopsHaveKeys, NEW w \in Worker, NEW res, Finish(w, res)
    PROVE  LoopsHaveKeys'
<1>1. req'[w].pc = "idle" /\ \A v \in Worker \ {w} : req'[v] = req[v]
  BY DEF Finish, Idle, IInv, TypeOK
<1> QED BY <1>1 DEF LoopsHaveKeys, LoopPhases

\* No loop follows another without a step between them.
LEMMA LoopEndsHasKeys ==
    ASSUME IInv, LoopsHaveKeys, NEW w \in Worker, LoopEnds(w)
    PROVE  LoopsHaveKeys'
<1>1. \/ Goto(w, "commit", {}) \/ Goto(w, "resnap", {}) \/ Goto(w, "undostop", {})
      \/ Finish(w, "err") \/ Finish(w, "ok")
  BY DEF LoopEnds
<1> QED BY <1>1, GotoHasKeys, FinishHasKeys DEF LoopPhases

\* A loop goes on as long as it has a key.
LEMMA LoopGoesOnHasKeys ==
    ASSUME IInv, LoopsHaveKeys, NEW w \in Worker, NEW k \in req[w].todo, LoopGoesOn(w, k)
    PROVE  LoopsHaveKeys'
<1>1. CASE req[w].todo = {k}
  BY <1>1, LoopEndsHasKeys DEF LoopGoesOn
<1>2. CASE req[w].todo # {k}
  BY <1>2, GotoHasKeys DEF LoopGoesOn
<1> QED BY <1>1, <1>2

\* Every step of a request leaves its loop with a key.
LEMMA RequestStepHasKeys ==
    ASSUME IInv, LoopsHaveKeys, NEW w \in Worker, RequestStep(w)
    PROVE  LoopsHaveKeys'
<1>1. CASE UpdateNodeInPlace(w)
  BY <1>1, FinishHasKeys DEF UpdateNodeInPlace
<1>2. CASE SnapshotConfig(w)
  <2>1. CASE Finish(w, "err")
    BY <2>1, FinishHasKeys
  <2>2. CASE ~ Finish(w, "err")
    <3>1. req'[w].todo = ActiveKeys(mem) /\ \A v \in Worker \ {w} : req'[v] = req[v]
      BY <1>2, <2>2 DEF SnapshotConfig, IInv, TypeOK, Requests
    <3> QED BY <3>1, SomethingActive DEF LoopsHaveKeys
  <2> QED BY <2>1, <2>2
<1>3. CASE Verify(w)
  BY <1>3, FinishHasKeys, GotoHasKeys, SomethingActive DEF Verify
<1>4. CASE WriteFile(w)
  <2>1. PICK k \in req[w].todo : LoopGoesOn(w, k) \/ LoopEnds(w) \/ Finish(w, "err")
    BY <1>4 DEF WriteFile
  <2> QED BY <2>1, LoopGoesOnHasKeys, LoopEndsHasKeys, FinishHasKeys
<1>5. CASE Commit(w)
  BY <1>5, FinishHasKeys, GotoHasKeys, SomethingActive DEF Commit, LoopPhases
<1>6. CASE StopStale(w)
  <2> DEFINE todo == ActiveKeys(Goal(w))
  <2>1. todo # {}
    BY SomethingActive
  <2>2. Goto(w, "apply", todo) \/ Goto(w, "undoapply", todo)
    BY <1>6 DEF StopStale
  <2> HIDE DEF todo
  <2> QED BY <2>1, <2>2, GotoHasKeys
<1>7. CASE ReloadKey(w)
  <2>1. PICK k \in req[w].todo : LoopGoesOn(w, k) \/ Goto(w, "rollback", {}) \/ Finish(w, "err")
    BY <1>7 DEF ReloadKey
  <2> QED BY <2>1, LoopGoesOnHasKeys, GotoHasKeys, FinishHasKeys DEF LoopPhases
<1>8. CASE Rollback(w)
  BY <1>8, FinishHasKeys, GotoHasKeys, SomethingActive DEF Rollback
<1> QED BY <1>1, <1>2, <1>3, <1>4, <1>5, <1>6, <1>7, <1>8 DEF RequestStep

\* A request that begins does so before its first loop.
LEMMA BeginHasKeys ==
    ASSUME IInv, LoopsHaveKeys, NEW w \in Worker, NEW kind, NEW pc, NEW node, NEW new,
           Begin(w, kind, pc, node, new), pc \notin LoopPhases
    PROVE  LoopsHaveKeys'
<1> DEFINE r == [pc |-> pc, kind |-> kind, node |-> node, old |-> mem, new |-> new, todo |-> {},
                 res |-> "none"]
<1>1. req' = [req EXCEPT ![w] = r] /\ r.pc = pc
  BY DEF Begin
<1> HIDE DEF r
<1>2. req'[w] = r /\ \A v \in Worker \ {w} : req'[v] = req[v]
  BY <1>1 DEF IInv, TypeOK
<1> QED BY <1>1, <1>2 DEF LoopsHaveKeys

\* Every handler begins so.
LEMMA BeginRequestHasKeys ==
    ASSUME IInv, LoopsHaveKeys, NEW w \in Worker, BeginRequest(w)
    PROVE  LoopsHaveKeys'
<1>1. ASSUME NEW new, BeginApply(w, new) PROVE LoopsHaveKeys'
  BY <1>1, BeginHasKeys DEF BeginApply, LoopPhases
<1>2. ASSUME NEW new, UpdateStore(w, new) PROVE LoopsHaveKeys'
  BY <1>2, FinishHasKeys DEF UpdateStore
<1>3. ASSUME NEW new, StoreAnswer(w, new) PROVE LoopsHaveKeys'
  <2> DEFINE r == [Idle("none") EXCEPT !.pc = "snapshot", !.kind = "config"]
  <2>1. CASE req' = [req EXCEPT ![w] = r]
    <3>1. r.pc = "snapshot"
      BY DEF Idle
    <3> HIDE DEF r
    <3>2. req'[w] = r /\ \A v \in Worker \ {w} : req'[v] = req[v]
      BY <2>1 DEF IInv, TypeOK
    <3> QED BY <3>1, <3>2 DEF LoopsHaveKeys, LoopPhases
  <2> QED BY <1>3, <2>1, FinishHasKeys DEF StoreAnswer
<1>4. UpdateNode(w) \/ Reload(w) => LoopsHaveKeys'
  BY <1>1, BeginHasKeys DEF UpdateNode, Reload, LoopPhases
<1> QED
  BY <1>1, <1>2, <1>3, <1>4
     DEF BeginRequest, CreatePortRule, UpdatePortRule, PatchPortRule, DeletePortRule, SaveRoomRule,
         PatchRoomRule, DeleteRoomRule, JoinGroup, CreateExposure, DeleteExposure, CreateNode,
         DeleteNode, ConfigureServer

\* No handler waits in a loop without a file to write or a key to reload: whatever
\* interleaves and fails, a request in flight has a step to take until it is
\* answered.
THEOREM LoopsHaveWork == Spec => []LoopsHaveKeys
<1>1. Init => LoopsHaveKeys
  BY DEF Init, Idle, LoopsHaveKeys, LoopPhases
<1>2. ASSUME IInv, LoopsHaveKeys, [Next]_vars PROVE LoopsHaveKeys'
  <2>1. CASE Restart
    BY <2>1 DEF Restart, Idle, LoopsHaveKeys, LoopPhases
  <2>2. CASE UNCHANGED vars \/ \E k \in Key : FrpcExits(k)
    <3>1. UNCHANGED req
      BY <2>2 DEF vars, FrpcExits
    <3> QED BY <1>2, <3>1 DEF LoopsHaveKeys
  <2> QED BY <1>2, <2>1, <2>2, RequestStepHasKeys, BeginRequestHasKeys DEF Next
<1> QED BY <1>1, <1>2, Invariance, PTL DEF Spec

=============================================================================
