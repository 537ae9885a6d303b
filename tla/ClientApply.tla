---------------------------- MODULE ClientApply ----------------------------
(***************************************************************************)
(* The local backend's configuration pipeline (internal/client/service.go): *)
(* every HTTP handler that edits port rules, room rules or a node in use     *)
(* snapshots the store, edits and validates a clone, renders it, verifies it *)
(* with frpc, writes the config files, replaces the whole store by the       *)
(* clone, makes the frpc processes follow, and rolls back when that fails.   *)
(* No lock spans those steps: Snapshot and Update are the only critical      *)
(* sections, so concurrent handlers interleave between them.  Other          *)
(* handlers edit the store in place, in one Update.                          *)
(*                                                                         *)
(* A call of the process manager for one key is one step here.               *)
(***************************************************************************)
EXTENDS PanelData, Naturals, FiniteSets

CONSTANTS
    Worker,       \* HTTP handler goroutines that may be in flight at once
    NodeConfig,   \* the node configurations users submit
    SeedNode,     \* the default node as the backend's flags configure it
    ServerModes,  \* what ConfigureServer may set: {} or {"frps"}
    InitData,     \* contents of client.json when the backend starts
    Faults,       \* the failures the environment may inject
    MaxRequests   \* bound on the number of requests of a behaviour

\* "rewrite" and "undo" fail the file writes and the apply of a rollback.  With
\* "ports" the hashes of process keys collide: the admin port of a key depends on
\* which other keys are active, and may be held when its frpc starts.
FaultKinds == {"verify", "write", "save", "apply", "rewrite", "undo", "ports", "exit", "crash"}

ASSUME WorldAssumption ==
    /\ NodeConfig \subseteq NodeRecord
    /\ SeedNode \in NodeRecord
    /\ None \notin Data
    /\ InitData \subseteq {d \in Data : Consistent(d) /\ Renderable(d)}
    /\ ServerModes \subseteq {"frps"}
    /\ Faults \subseteq FaultKinds
    /\ MaxRequests \in Nat

VARIABLES
    mem,      \* the store's data in memory
    disk,     \* client.json
    files,    \* the frpc config file of each key
    running,  \* the frpc process the manager runs for each key
    req,      \* the request each worker is handling
    served    \* requests begun so far

vars == <<mem, disk, files, running, req, served>>

Phases == {"idle", "snapshot", "verify", "write", "commit", "stop", "apply", "resnap",
           "restore", "rollback", "rewrite", "undostop", "undoapply", "inplace"}

Requests == [pc   : Phases,
             kind : {"none", "apply", "config", "reload", "inplace"},
             node : Node,
             old  : Opt(Data),
             new  : Opt(Data),
             todo : SUBSET Key,
             res  : {"none", "ok", "err"}]

Idle(res) == [pc |-> "idle", kind |-> "none", node |-> DefaultNode,
              old |-> None, new |-> None, todo |-> {}, res |-> res]

NoneRunning == [k \in Key |-> None]

\* The backend is up and every earlier request has settled: the config files
\* are those of the stored data and the processes run them, or nothing runs
\* yet, or the work directory is new.
Init ==
    /\ mem \in InitData
    /\ disk = mem
    /\ \/ files = Render(mem) /\ running \in {Serving(mem), NoneRunning}
       \/ files = NoneRunning /\ running = NoneRunning
    /\ req = [w \in Worker |-> Idle("none")]
    /\ served = 0

-----------------------------------------------------------------------------
(* The store: Update mutates memory first, so a failed save leaves it ahead. *)

Saved(d) == mem' = d /\ disk' = d

SaveFails(d) == "save" \in Faults /\ mem' = d /\ UNCHANGED disk

-----------------------------------------------------------------------------
(* Beginning a request.  One refused by validation changes nothing.         *)

Accept(w) == req[w].pc = "idle" /\ served < MaxRequests /\ served' = served + 1

Begin(w, kind, pc, node, new) ==
    /\ Accept(w)
    /\ req' = [req EXCEPT ![w] = [pc |-> pc, kind |-> kind, node |-> node,
                                  old |-> mem, new |-> new, todo |-> {}, res |-> "none"]]
    /\ UNCHANGED <<mem, disk, files, running>>

\* applyData up to its first effect: new must render.
BeginApply(w, new) ==
    /\ Renderable(new)
    /\ Begin(w, "apply", "verify", DefaultNode, new)

Finish(w, res) == req' = [req EXCEPT ![w] = Idle(res)]

\* Random ids: not in use in the store nor in any request's clone.
InFlight == {req[w].new : w \in Worker} \union {req[w].old : w \in Worker}

FreshRule(i) ==
    /\ mem.rules[i] = None
    /\ \A d \in InFlight \ {None} : d.rules[i] = None

FreshRoom(i) ==
    /\ mem.rooms[i] = None
    /\ files[i] = None
    /\ \A d \in InFlight \ {None} : d.rooms[i] = None

CreatePortRule(w) ==
    \E i \in RuleId, rule \in PortRule :
        /\ FreshRule(i)
        /\ ValidPortRule(mem, i, rule)
        /\ BeginApply(w, [mem EXCEPT !.rules[i] = rule])

UpdatePortRule(w) ==
    \E i \in Present(mem.rules), rule \in PortRule :
        /\ ValidPortRule(mem, i, rule)
        /\ BeginApply(w, [mem EXCEPT !.rules[i] = rule])

\* Validates even when it disables the rule.
PatchPortRule(w) ==
    \E i \in Present(mem.rules), enabled \in BOOLEAN :
        LET rule == [mem.rules[i] EXCEPT !.enabled = enabled] IN
        /\ ValidPortRule(mem, i, rule)
        /\ BeginApply(w, [mem EXCEPT !.rules[i] = rule])

DeletePortRule(w) ==
    \E i \in Present(mem.rules) : BeginApply(w, [mem EXCEPT !.rules[i] = None])

\* The local half of CreateRoomHost and JoinRoom.
SaveRoomRule(w) ==
    \E i \in RoomId, room \in RoomRule :
        /\ FreshRoom(i)
        /\ ValidRoomRule(mem, i, room)
        /\ BeginApply(w, [mem EXCEPT !.rooms[i] = room])

PatchRoomRule(w) ==
    \E i \in Present(mem.rooms), enabled \in BOOLEAN :
        LET room == [mem.rooms[i] EXCEPT !.enabled = enabled] IN
        /\ ValidRoomRule(mem, i, room)
        /\ BeginApply(w, [mem EXCEPT !.rooms[i] = room])

DeleteRoomRule(w) ==
    \E i \in Present(mem.rooms) : BeginApply(w, [mem EXCEPT !.rooms[i] = None])

\* Mutant of UpdateNode: the store is edited in place whatever uses the node.
UpdateNodeNeverApplies(w) ==
    \E n \in Present(mem.nodes), c \in NodeConfig :
        Begin(w, "inplace", "inplace", n, [mem EXCEPT !.nodes[n] = c])

\* Goes through applyData only if the snapshot shows an enabled rule on n; an
\* edit of the node enables nothing, so the clone shows the same.
UpdateNode(w) ==
    \E n \in Present(mem.nodes), c \in NodeConfig :
        LET new == [mem EXCEPT !.nodes[n] = c] IN
        IF EnabledRuleUsesNode(mem, n)
        THEN BeginApply(w, new)
        ELSE Begin(w, "inplace", "inplace", n, new)

Reload(w) == Begin(w, "reload", "snapshot", DefaultNode, None)

-----------------------------------------------------------------------------
(* Requests that edit the store in place, in a single Update.               *)

\* The whole request is one critical section.
UpdateStore(w, new) ==
    /\ Accept(w)
    /\ \/ Saved(new) /\ Finish(w, "ok")
       \/ SaveFails(new) /\ Finish(w, "err")
    /\ UNCHANGED <<files, running>>

CreateNode(w) ==
    \E n \in Node \ Present(mem.nodes), c \in NodeConfig :
        UpdateStore(w, [mem EXCEPT !.nodes[n] = c])

\* Mutant of DeleteNode: the rules that reference the node are not looked at.
DeleteNodeUnchecked(w) ==
    \E n \in Present(mem.nodes) \ {DefaultNode} :
        UpdateStore(w, [mem EXCEPT !.nodes[n] = None])

DeleteNode(w) ==
    \E n \in Present(mem.nodes) \ {DefaultNode} :
        /\ \A i \in Present(mem.rules) : mem.rules[i].node # n
        /\ UpdateStore(w, [mem EXCEPT !.nodes[n] = None])

ConfigureServer(w) ==
    \E mode \in ServerModes : UpdateStore(w, [mem EXCEPT !.server = mode])

\* The other branch of UpdateNode: the snapshot's decision meets the store.
UpdateNodeInPlace(w) ==
    LET n == req[w].node
        new == [mem EXCEPT !.nodes[n] = req[w].new.nodes[n]]
    IN
    /\ req[w].pc = "inplace"
    /\ \/ /\ mem.nodes[n] = None
          /\ Finish(w, "err")
          /\ UNCHANGED <<mem, disk>>
       \/ mem.nodes[n] # None /\ Saved(new) /\ Finish(w, "ok")
       \/ mem.nodes[n] # None /\ SaveFails(new) /\ Finish(w, "err")
    /\ UNCHANGED <<files, running, served>>

\* JoinGroup, CreateExposure, CreateAccessRoute, DeleteExposure: the control
\* server has answered; store the answer, then WriteConfig.
StoreAnswer(w, new) ==
    /\ Accept(w)
    /\ \/ /\ Saved(new)
          /\ req' = [req EXCEPT ![w] = [Idle("none") EXCEPT !.pc = "snapshot", !.kind = "config"]]
       \/ SaveFails(new) /\ Finish(w, "err")
    /\ UNCHANGED <<files, running>>

\* Every join registers another device, the client's second join as well.
JoinGroup(w) ==
    /\ mem.server # "none"
    /\ \E x \in Device \ {mem.device} : StoreAnswer(w, [mem EXCEPT !.device = x])

CreateExposure(w) ==
    /\ mem.server # "none" /\ mem.device # None
    /\ \E e \in Exposure : StoreAnswer(w, [mem EXCEPT !.exposures = @ \union {e}])

DeleteExposure(w) ==
    \E e \in Exposure : StoreAnswer(w, [mem EXCEPT !.exposures = @ \ {e}])

-----------------------------------------------------------------------------
(* The steps of a request in flight.  Files and keys are taken in any order. *)

\* The data a step works towards: the clone, or the snapshot when undoing.
Goal(w) ==
    IF req[w].pc \in {"restore", "rollback", "rewrite", "undostop", "undoapply"}
    THEN req[w].old ELSE req[w].new

Goto(w, pc, todo) == req' = [req EXCEPT ![w] = [@ EXCEPT !.pc = pc, !.todo = todo]]

\* Where a loop over files or keys leads when it has run to its end.
LoopEnds(w) ==
    CASE req[w].pc = "write" /\ req[w].kind = "apply"  -> Goto(w, "commit", {})
      [] req[w].pc = "write" /\ req[w].kind = "reload" -> Goto(w, "resnap", {})
      [] req[w].pc = "rewrite"                         -> Goto(w, "undostop", {})
      [] req[w].pc \in {"restore", "undoapply"}        -> Finish(w, "err")
      [] OTHER                                         -> Finish(w, "ok")

LoopGoesOn(w, k) ==
    IF req[w].todo = {k} THEN LoopEnds(w)
    ELSE Goto(w, req[w].pc, req[w].todo \ {k})

\* WriteConfig's snapshot; Reload takes a second one before it applies.
SnapshotConfig(w) ==
    /\ req[w].pc \in {"snapshot", "resnap"}
    /\ \/ ~ Renderable(mem) /\ Finish(w, "err")
       \/ /\ Renderable(mem)
          /\ req' = [req EXCEPT ![w] = [@ EXCEPT
                !.new = mem,
                !.pc = IF req[w].pc = "snapshot" THEN "write" ELSE "stop",
                !.todo = ActiveKeys(mem)]]
    /\ UNCHANGED <<mem, disk, files, running, served>>

Verify(w) ==
    /\ req[w].pc = "verify"
    /\ \/ Goto(w, "write", ActiveKeys(req[w].new))
       \/ "verify" \in Faults /\ Finish(w, "err")
    /\ UNCHANGED <<mem, disk, files, running, served>>

\* One config file; a failure ends the loop, and only a rollback goes on.
WriteFile(w) ==
    /\ req[w].pc \in {"write", "restore", "rewrite"}
    /\ \E k \in req[w].todo :
          \/ /\ files' = [files EXCEPT ![k] = RenderKey(Goal(w), k)]
             /\ LoopGoesOn(w, k)
          \/ /\ (IF req[w].pc = "rewrite" THEN "rewrite" ELSE "write") \in Faults
             /\ files' \in {files, [files EXCEPT ![k] = Torn]}
             /\ IF req[w].pc = "rewrite" THEN LoopEnds(w) ELSE Finish(w, "err")
    /\ UNCHANGED <<mem, disk, running, served>>

\* Mutant of Commit: the error of a failed save is ignored.
CommitIgnoresSaveError(w) ==
    /\ req[w].pc = "commit"
    /\ Saved(req[w].new) \/ SaveFails(req[w].new)
    /\ Goto(w, "stop", {})
    /\ UNCHANGED <<files, running, served>>

\* store.Update(*data = newData); after a failed save the old files return.
Commit(w) ==
    /\ req[w].pc = "commit"
    /\ \/ Saved(req[w].new) /\ Goto(w, "stop", {})
       \/ /\ SaveFails(req[w].new)
          /\ IF Renderable(req[w].old)
             THEN Goto(w, "restore", ActiveKeys(req[w].old))
             ELSE Finish(w, "err")
    /\ UNCHANGED <<files, running, served>>

\* Mutant of StopStale: processes of keys that left the config keep running.
StopStaleNothing(w) ==
    /\ req[w].pc \in {"stop", "undostop"}
    /\ Goto(w, IF req[w].pc = "stop" THEN "apply" ELSE "undoapply", ActiveKeys(Goal(w)))
    /\ UNCHANGED <<mem, disk, files, running, served>>

\* Apply first stops the processes of keys the config no longer has.
StopStale(w) ==
    /\ req[w].pc \in {"stop", "undostop"}
    /\ running' = [k \in Key |-> IF k \in ActiveKeys(Goal(w)) THEN running[k] ELSE None]
    /\ Goto(w, IF req[w].pc = "stop" THEN "apply" ELSE "undoapply", ActiveKeys(Goal(w)))
    /\ UNCHANGED <<mem, disk, files, served>>

Readable(k) == files[k] \notin {None, Torn}

\* Mutant of Started: the manager does not record the restart key.
StartedUnkeyed(k, restartKey) == IF Readable(k) THEN files[k] ELSE None

\* frpc exits at once when it cannot load its file; Start has returned by then.
Started(k, restartKey) ==
    IF Readable(k)
    THEN [restartKey |-> restartKey, server |-> files[k].server,
          login |-> files[k].login, proxies |-> files[k].proxies]
    ELSE None

\* frpc reload takes over the proxies of the file, not its server nor its login.
Reloaded(k) == [running[k] EXCEPT !.proxies = files[k].proxies]

\* Whether the process of k has the restart key it needs, but for its admin port.
Keeps(w, k) ==
    running[k] # None /\ running[k].restartKey = RenderKey(Goal(w), k).server

MayRestart(w, k) == ~ Keeps(w, k) \/ "ports" \in Faults

\* Then each key of the config is reloaded, or else restarted or started.  A frpc
\* that finds its admin port held exits, but Start has returned.  A failed restart
\* has stopped the process; a failed reload may have taken effect.
ReloadKey(w) ==
    /\ req[w].pc \in {"apply", "undoapply"}
    /\ \E k \in req[w].todo :
          LET Becomes(p) == running' = [running EXCEPT ![k] = p]
              fails == (IF req[w].pc = "apply" THEN "apply" ELSE "undo") \in Faults
          IN
          \/ /\ \/ Keeps(w, k) /\ Readable(k) /\ Becomes(Reloaded(k))
                \/ /\ MayRestart(w, k)
                   /\ \/ Becomes(Started(k, RenderKey(Goal(w), k).server))
                      \/ "ports" \in Faults /\ Becomes(None)
             /\ LoopGoesOn(w, k)
          \/ /\ \/ Keeps(w, k) /\ (fails \/ ~ Readable(k)) /\ UNCHANGED running
                \/ Keeps(w, k) /\ fails /\ Readable(k) /\ Becomes(Reloaded(k))
                \/ MayRestart(w, k) /\ fails /\ Becomes(None)
             /\ IF req[w].pc = "apply" /\ req[w].kind = "apply"
                THEN Goto(w, "rollback", {})
                ELSE Finish(w, "err")
    /\ UNCHANGED <<mem, disk, files, served>>

\* Mutants of Rollback: the old config is not applied again; the store keeps
\* the new data; the apply is tried again instead.
RollbackWithoutReapply(w) ==
    /\ req[w].pc = "rollback"
    /\ Saved(req[w].old)
    /\ Finish(w, "err")
    /\ UNCHANGED <<files, running, served>>

RollbackKeepsStore(w) ==
    /\ req[w].pc = "rollback"
    /\ Goto(w, "rewrite", ActiveKeys(req[w].old))
    /\ UNCHANGED <<mem, disk, files, running, served>>

RollbackRetries(w) ==
    /\ req[w].pc = "rollback"
    /\ Goto(w, "stop", {})
    /\ UNCHANGED <<mem, disk, files, running, served>>

\* Best effort: the errors of each part are ignored.
Rollback(w) ==
    /\ req[w].pc = "rollback"
    /\ Saved(req[w].old) \/ SaveFails(req[w].old)
    /\ IF Renderable(req[w].old)
       THEN Goto(w, "rewrite", ActiveKeys(req[w].old))
       ELSE Finish(w, "err")
    /\ UNCHANGED <<files, running, served>>

-----------------------------------------------------------------------------
(* The environment.                                                         *)

\* A frpc process exits by itself: login refused, server gone, killed.
FrpcExits(k) ==
    /\ "exit" \in Faults
    /\ running[k] # None
    /\ running' = [running EXCEPT ![k] = None]
    /\ UNCHANGED <<mem, disk, files, req, served>>

\* ensureDefaultNode: the flags win over the stored default node.
Seeded(d) ==
    LET stored == d.nodes[DefaultNode]
        seed == IF stored = None THEN SeedNode
                ELSE [addr  |-> SeedNode.addr,
                      token |-> stored.token \/ SeedNode.token,
                      allow |-> (stored.allow \ WebBinding)
                                \union (SeedNode.allow \intersect WebBinding)]
    IN [d EXCEPT !.nodes[DefaultNode] = seed]

\* The backend dies and is opened again; it starts no frpc, and the frpc
\* processes it left behind are no longer the manager's.
Restart ==
    /\ "crash" \in Faults
    /\ served < MaxRequests
    /\ served' = served + 1
    /\ Saved(Seeded(disk))
    /\ running' = NoneRunning
    /\ req' = [w \in Worker |-> Idle("none")]
    /\ UNCHANGED files

-----------------------------------------------------------------------------

BeginRequest(w) ==
    \/ CreatePortRule(w) \/ UpdatePortRule(w) \/ PatchPortRule(w) \/ DeletePortRule(w)
    \/ SaveRoomRule(w) \/ PatchRoomRule(w) \/ DeleteRoomRule(w)
    \/ UpdateNode(w) \/ Reload(w)
    \/ JoinGroup(w) \/ CreateExposure(w) \/ DeleteExposure(w) \/ CreateNode(w) \/ DeleteNode(w) \/ ConfigureServer(w)

RequestStep(w) ==
    \/ UpdateNodeInPlace(w) \/ SnapshotConfig(w) \/ Verify(w) \/ WriteFile(w)
    \/ Commit(w) \/ StopStale(w) \/ ReloadKey(w) \/ Rollback(w)

Next ==
    \/ \E w \in Worker : BeginRequest(w) \/ RequestStep(w)
    \/ Restart \/ \E k \in Key : FrpcExits(k)

Spec == Init /\ [][Next]_vars

\* Every step of a request is bounded by a timeout of the code.
FairSpec == Spec /\ \A w \in Worker : WF_vars(RequestStep(w))

-----------------------------------------------------------------------------
(* Properties.                                                              *)

\* Types of the store, the file system, the process table and the requests.
TypeOK ==
    /\ mem \in Data
    /\ disk \in Data
    /\ files \in [Key -> Opt(Config)]
    /\ running \in [Key -> Opt(Process)]
    /\ req \in [Worker -> Requests]
    /\ served \in 0..MaxRequests

\* Whatever handlers interleave or fail, and through crashes, the stored rules
\* have distinct (node, binding) pairs and existing nodes, enabled visitors
\* have distinct local ports, and the default node is there: validation on a
\* stale snapshot is enough, because commit replaces the whole store.
StoreConsistent == Consistent(mem) /\ Consistent(disk)

Acked(w) == req[w].pc # "idle" /\ req'[w].pc = "idle" /\ req'[w].res = "ok"

Failed(w) == req[w].pc # "idle" /\ req'[w].pc = "idle" /\ req'[w].res = "err"

Applies(w) == req[w].kind \in {"apply", "reload"}

\* Process p of key k once data d has been applied: it serves d, unless it has
\* lost its admin port.
Served(p, d, k) == Serves(p, d, k) \/ ("ports" \in Faults /\ p = None)

\* When create, edit, delete or reload answers with success, the managed frpc
\* processes are those of the stored data, on its servers and with its proxies, no
\* matter what earlier failed requests left behind.  Where admin ports collide, one
\* that lost its port is missing, but none runs anything else.
AckedIsServed ==
    [][\A w \in Worker : Acked(w) /\ Applies(w) =>
          \A k \in Key : Served(running'[k], mem', k)]_vars

\* A successful edit is in client.json.
AckedIsDurable == [][\A w \in Worker : Acked(w) /\ req[w].kind = "apply" => disk' = mem']_vars

\* If verification or apply fails, the request leaves the store, client.json,
\* the config files and the processes of the data it started from.
FailureRestores ==
    [][\A w \in Worker : Failed(w) /\ req[w].kind = "apply" =>
          LET old == req[w].old IN
          /\ mem' = old /\ disk' = old
          /\ req[w].pc # "verify" =>
                /\ \A k \in Key : Served(running'[k], old, k)
                /\ \A k \in ActiveKeys(old) : files'[k] = RenderKey(old, k)]_vars

\* The stored data can always be rendered: otherwise every later edit of any
\* rule fails and Status and Reload report an error.
StoreRenderable == Renderable(mem)

\* A port rule leaves the store only by a request that deletes it or by the
\* rollback of the request that created it.
RuleRemovalIntended ==
    [][\A i \in Present(mem.rules) : mem'.rules[i] = None =>
          \E w \in Worker :
              \/ req[w].pc = "commit" /\ req[w].old.rules[i] # None
              \/ req[w].pc = "rollback" /\ req[w].new.rules[i] # None]_vars

\* Every request is answered.
RequestsEnd == \A w \in Worker : req[w].pc # "idle" ~> req[w].pc = "idle"

\* A bound on the steps a request has before it: the keys its loop has left, and a
\* step for each key in the loops to come.  Reload stops with its keys at hand.
StepsAfter(pc) ==
    LET all == Cardinality(Key) IN
    CASE pc = "idle" -> 0
      [] pc \in {"inplace", "restore", "undoapply"} -> 1
      [] pc \in {"undostop", "rewrite"} -> all + 2
      [] pc \in {"rollback", "apply"} -> 2 * all + 3
      [] pc = "stop" -> 3 * all + 4
      [] pc \in {"commit", "resnap", "write"} -> 4 * all + 5
      [] OTHER -> 5 * all + 6

StepsLeft(w) == StepsAfter(req[w].pc) + Cardinality(req[w].todo)

\* Whatever fails, and whatever other requests do meanwhile, each step of a request
\* brings its answer nearer: it rolls back once, and starts no loop again.
StepsRunOut ==
    [][\A w \in Worker : req[w].pc # "idle" /\ req'[w] # req[w] =>
          StepsLeft(w)' < StepsLeft(w)]_vars

\* The store a client is entitled to see: a request in flight has not happened
\* until it is answered, and never happened if it is rolled back.
Visible ==
    IF \E w \in Worker : req[w].kind = "apply"
    THEN req[CHOOSE w \in Worker : req[w].kind = "apply"].old
    ELSE mem

Answers == [w \in Worker |-> req[w].res]

Store == INSTANCE EditStore WITH store <- Visible, answer <- Answers

\* One request at a time, and without failing saves, the backend implements
\* the abstract edit store: a request answered with success is one whole edit
\* of it, and one answered with an error never happened.
ImplementsEditStore == Store!Spec

=============================================================================
