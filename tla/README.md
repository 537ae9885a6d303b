# TLA+ verification of easy_frp

easy_frp drives [frp](https://github.com/fatedier/frp) tunnels. A **local
backend** (`frp-panel client`) keeps port rules and room rules in `client.json`,
renders them into frpc config files and runs one frpc process per active key. A
**control server** (`frp-panel server`) keeps groups, devices, nodes, exposures
and rooms in `server.json` and answers frps' plugin calls. A browser console and
a command line call both over HTTP.

## The system and its parts

| Part | State | Operations | Hard behaviour |
| --- | --- | --- | --- |
| Edit pipeline, `internal/client/service.go` | store in memory, `client.json`, config files | rules, room rules, nodes, server configuration, groups, exposures, reload | snapshot / verify / write / commit / apply / roll back with no lock across the steps; every step may fail |
| frpc process manager, `process.go` | one process record per key | apply, start, stop, reload | check and act are separated by unlocks; processes exit by themselves |
| Config rendering, `service.go`, `internal/frp/config.go` | none | data to one config per key | data that cannot be rendered blocks every later edit |
| Client room lifecycle, `service.go`, `room_service.go` | local rules and remote rooms | create host, join, enable, delete | two stores, lost and late replies, best-effort clean-up |
| Admin ports, `service.go` | none | port per key | colliding hashes, wrap-around |
| Control registry, `internal/control/service.go` | groups, devices, nodes, exposures, routes, rooms, room devices | create, join, update, delete | credentials and work are two critical sections; failing saves; crashes |
| frps plugin, `internal/control/plugin.go` | reads the registry, stamps room devices | Login, NewProxy, NewUserConn | decision on data that changed since the credentials were checked |
| JSON store, `internal/storage/json_file.go` | memory and a file | open, View, Update, Snapshot | memory is changed before the save; several programs share one file and one temporary file |
| Direct commands, `cmd/frp-panel/client_direct.go` | a store and a process manager of their own | port, room host, room join, list | run beside the backend, on its files |
| HTTP handlers, redaction, validation, tokens, ctl, console | none | | |

They interact through function calls in one process (handler -> service ->
store, process manager), HTTP (client -> control server, frps -> plugin), files
(client -> frpc) and the shared memory of each store. What makes each correct:

- edit pipeline: an edit happens as a whole or not at all; what was acknowledged
  is durable and served; the store never holds two rules on one binding;
- rendering: what is stored can be rendered;
- registry: no port or domain is allocated twice, nothing refers to what was
  deleted, only the host manages a room, a disabled room is not authorised;
- process manager: it loses no frpc and kills none it should not; after a success
  each key's frpc runs its config;
- store: the file always opens and changes exactly when a save succeeds;
- room lifecycle: a rule a user was told of is registered at the control server, a
  creation that failed leaves no room behind.

## Modules

| Module | What it is |
| --- | --- |
| `PanelData` | the data of the local backend and the pure functions of it: validation and rendering, and what a stored value must satisfy |
| `ClientApply` | the edit pipeline with its handlers, failures, crashes and frpc exits |
| `EditStore` | the abstract specification: one store; success is one whole edit, an error changed nothing |
| `MCClientApply` | TLC instances of `ClientApply` |
| `ClientApplyProofs` | lemmas about the data; type correctness and consistency of the pipeline for every instance |
| `ClientSerialProofs` | with one handler: durability, serving, restoring and the refinement of `EditStore`, for every instance |
| `ControlServer` | the registry of the control server and the plugin's decisions |
| `MCControlServer` | TLC instances of `ControlServer` |
| `ControlServerProofs` | consistency of the registry; durability, authorisation and deletion for good, for every instance |
| `AdminPorts` | the assignment of admin ports as functions of the active keys |
| `ProcessManager` | the frpc process manager below its lock, and the processes of the machine |
| `MCProcessManager`, `ProcessManagerProofs` | TLC instances; types, no lost and no wrongly killed frpc, for every instance |
| `ProcessServeProofs` | separate admin ports, and what a successful Apply leaves behind, for every instance |
| `RoomLifecycle` | `ControlServer` composed with the local backends that create, join and delete rooms over HTTP |
| `MCRoomLifecycle`, `RoomLifecycleProofs`, `RoomCleanupProofs` | TLC instances; registration of acknowledged rules and clean-up of rooms, for every instance |
| `SharedStore` | one JSON store and the programs that open it, down to the temporary file and the rename |
| `StorePromise` | the abstract specification of a store: a file that changes exactly when a save succeeds |
| `MCSharedStore`, `SharedStoreProofs` | TLC instances; the store opens and implements `StorePromise`, for every instance |

### ClientApply

`mem` and `disk` are the two sides of the `JSONFile`; `files[k]` is the frpc
config file of key `k`, `running[k]` the process the manager holds for it;
`req[w]` is what the handler goroutine `w` keeps in its local variables: the
snapshot (`old`), the clone (`new`), the phase and the files or keys a loop has
left. A handler that uses `applyData` is an action that takes the snapshot,
edits and validates the clone and renders it (`CreatePortRule`,
`PatchRoomRule`, ...) followed by one action per step of `applyData`: `Verify`,
`WriteFile` (one file), `Commit`, `StopStale`, `ReloadKey` (one key),
`Rollback`. A handler that is a single `Update` (`CreateNode`, `DeleteNode`,
`ConfigureServer`) is one action; `UpdateNode` takes either way, decided by its
snapshot, as in the code. `JoinGroup`, `CreateExposure` and `DeleteExposure` store
the control server's answer (`StoreAnswer`) and then run `WriteConfig`
(`SnapshotConfig`, `WriteFile`), which applies nothing; `Reload` runs `WriteConfig`, takes a second snapshot and applies.

Abstractions:

- A `Binding` is a (protocol, remote port) or an http domain, a `Bind` a local
  address and port. Names, remarks, times and addresses of local services are
  left out.
- A config is its server (address, auth settings), its login (the group device) and
  its proxies. frpc reads all three when it starts and the proxies alone when it
  reloads. The restart key of a process is its server: the code leaves the login out,
  and so a reload keeps the login a frpc started with.
- The restart key also holds the admin port, which depends on the other active keys.
  Ports are not computed here. With the fault `"ports"` a process whose server is
  unchanged may be restarted all the same, because its port moved, and a frpc that is
  started may be gone when `Apply` returns, because its port was held; without it the
  ports of keys do not collide. `ProcessManager` has the ports themselves.
- A taken node id that is the default one stands for `DefaultNodeID`. Requests that
  validation refuses change nothing and are not actions.
- A key's reload is one step; the manager's own races are in `ProcessManager`.
- `Restart` drops the manager's processes: those of a crashed backend are not
  managed by the next one, whether they live on or not. It seeds the default node
  from the same flags every time.
- `Init` is a backend whose earlier requests have settled: consistent,
  renderable data, its files written or a new work directory, its processes
  running or none.

### ControlServer

`mem` and `disk` are the registry. A handler is one critical section, or two:
`Authenticate` is `validateDevice` or `validateRoomDevice`, which stamp the
device and save, and the action of the operation follows, with whatever happened
in between. `UpdateRoom` has a third step, `ViewRoom`, because `toRoomView`
iterates the live map of room devices after the store is unlocked. Tokens and
passwords are right (a wrong one is refused without a change), ids are random
and never handed out twice (`issued`), room mode is configured. `tcp` stands
for tcp and udp, `http` for http and https; times, names and LastSeenAt are left
out. `Restart` is a crash of the process, injected, or the abort Go may choose
when one goroutine iterates a map that another writes. The plugin's decisions about
exposures read one snapshot and change nothing: `ProxyGranted` (NewProxy) and
`UserConnGranted` (NewUserConn) are functions of the registry, not actions. Type, port
and domain are compared for public exposures only; a private one is granted any proxy.

### ProcessManager and AdminPorts

`table` is `pm.processes`, `proc[p]` a frpc process together with the
`managedProcess` that holds it, `call[c]` what the goroutine `c` keeps in its local
variables. Each critical section of `pm.mu` is an action, and so is each thing done
between two of them: the kill and the wait of `stopKey` (`TakeProcess`,
`KillProcess`, `WaitProcess`), the check, the `frpc reload` command and the
bookkeeping of `reloadKey` (`CheckKey`, `RunReload`, `RecordReload`), `startKey`
(`StartKey`) and its waiting goroutine (`Reap`). `Apply` begins with the files the
handler has just written, with the admin ports `AssignAdminPorts` gives the active
keys. `Boot`, `Die` and `Listening` are frpc as the code uses it: it reads its file
when it starts, exits when its admin port is taken, and `frpc reload -c` reaches
whatever listens on the port named in the file. A detached process is not waited
for: dead but not reaped it counts as running, which is what `kill(pid, 0)` says of
a zombie. `RestartBackend` is a backend that ends in any way: `serve` stops no frpc.

Left out: `lastErr`, status, logs and paths, the exported `Start` and `Reload` (the
same steps for the one key of legacy mode), and a pid that is used again.

### RoomLifecycle

The module extends `ControlServer`. `net[w]` is the connection a worker of the
server serves, `job[m]` the request the backend `m` is handling, `local[m]` its room
rules in memory and on disk. `CreateRoomHost` and `JoinByCode` post a request,
`ServeCreate`, `ServeJoin`, `ServeAuth` and `ServeDelete` are the server's handlers
joined with the actions of `ControlServer` they call, `Receive` takes the reply and
`SaveRoomRule` is the local edit with the ways it fails; a failed host goes on with
the best-effort delete (`Fails`, `CleanupEnds`). `GiveUp` is the ten second timeout
of the HTTP client: the request may still be served later (`late`), its reply goes
to nobody. `RestartMachine` and `RestartServer` are crashes of the two ends.

The room codes a visitor may use are those hosts were told (`acked`). The local edit
is one step because `ClientApply` has its parts, and a backend handles one room
request at a time. Only backends talk to the server here.

### SharedStore and StorePromise

A program is a backend or a direct command: it opens the store (`OpenNew`,
`OpenExisting`, `OpenTorn`), overwrites the node settings it was started with
(`SetDefaults`) and updates. Every save is `Create` (open and truncate
`path.tmp`), `Write` and `Rename`, each of which may fail; a program may be killed
anywhere. Inodes make the sharing visible: two saves that overlap write one
temporary file, whose rename may publish what the other has half written, and the
second rename finds no file. `dirty` remembers that saves overlapped until one alone
has succeeded. `StorePromise` is what `ClientApply` and `ControlServer` take a store
for; `FileIsAtomic` says that the file protocol implements it while nothing is
dirty. Files follow POSIX, and power stays on.

## Runs

| Run | Checks | Instance |
| --- | --- | --- |
| `ClientApplySerial` | `ImplementsEditStore`, `FailureRestores`, `StoreRenderable` | one handler, 4 requests, two nodes, two rules, a domain binding and a port binding, failing verification and apply |
| `ClientApplyFaults` | `AckedIsServed`, `AckedIsDurable`, `RequestsEnd`, `StepsRunOut` | one handler, 3 requests, port rules, a room rule, two group devices, an exposure, legacy and direct mode, failing verify, write, save, apply and undo, colliding admin ports |
| `ClientApplyConcurrent` | `TypeOK`, `StoreConsistent` | two handlers, 3 requests, failing apply, frpc exits, crashes |
| `ControlServerRooms` | `RegistryConsistent`, `AckedIsDurable`, `GoneForGood`, `AcceptedIsHostOfEnabledRoom`, `OnlyHostManages` | two handlers, 6 requests, two rooms, three room devices, failing saves, crashes |
| `ControlServerExposures` | `TypeOK`, `RegistryConsistent`, `GoneForGood`, `GrantsAreAllocated` | two handlers, 8 requests, two devices, two exposures competing for one port and one domain, a route, failing saves, crashes |
| `ProcessManager` | `TypeOK`, `NoStrayFrpc`, `ManagedIsNotKilled`, `StepsRunOut` | two goroutines, 3 calls, two keys whose ports collide, 3 processes, attached and detached, every fault, one restart |
| `ProcessManagerSerial` | `PortsSeparate`, `SuccessIsServed`, `CallsEnd` | one goroutine, 2 calls, three keys whose ports wrap at the last one, edits of the server and of the proxies, kills that take too long |
| `RoomLifecycle` | `LifecycleTypeOK`, `AckedRuleIsRegistered`, `NoRoomIsLeftBehind` | two backends, 3 requests to them and 5 to the server, two connections, two rooms, three devices, every fault of both ends |
| `SharedStore` | `TypeOK`, `StoreOpens`, `FileIsAtomic` | two programs, 3 updates, three versions of the data, write errors and kills |

`MaxRequests` bounds the requests of a behaviour, crashes included. Two handlers
and three requests are enough for a snapshot to go stale and for a commit or a
rollback to meet a third edit; one binding, one bind port, one port and one domain
are the smallest sets that make requests compete; two nodes and two rule ids let a
rule move and a key appear and disappear. Eight requests are what it takes to
create a group, two devices and a node, to claim twice and to delete.
Deadlock is not checked: a server without requests is idle, and `MaxRequests` ends
every behaviour; calls, processes and updates run out in the other modules in the
same way (`MaxCalls`, `Proc`, `MaxRestarts`, `MaxJobs`, `MaxUpdates`).

Two goroutines and two keys are what it takes for a check to be outdated when it is
acted on, and a third call lets the first two be stopped; three processes let a key
be started, lost and started again. With two connections a clean-up or a late request
overlaps another request; three requests to backends are a creation, its join and a
delete or a crash. Two programs are enough for saves to overlap, a third update for
one to repair what they did.

`ClientApplySerial` is without failing saves because a failed save leaves memory
ahead of the file until the next one, and one at a time because the interleaved
pipeline is not the abstract store, as the runs below show. It has no groups and no
exposures: those are stored before their config is written, so an error does not mean that
nothing changed. A failing file write is left to `ClientApplyFaults`, because a write
that fails in the middle leaves the files it already replaced.

`AckedIsServed` says that after a success every frpc that runs is one the stored data
asks for, on its server and with its proxies. Without `"ports"` none is missing; with it
one that lost its admin port may be, as `Apply` answers success (`ProcessManagerLostPort`).
The login is not part of it: the restart key omits it, so that a client which
joins another group while its frpc runs and then reloads gets a success and a frpc that is
still logged in as the old device (`JoinGroup`, `Keeps`, `Reloaded`). That is what the
code does; no document says otherwise, so it is neither a property nor a finding.

`ClientApplyConcurrent` has no room rules, to keep its instance small: that two enabled
visitors never share a local port is checked there for none and proved for any
(`StoreStaysConsistent`).

`ProcessManagerSerial` is one call at a time and without exits, because
`SuccessIsServed` is a promise to a caller who had the manager for himself: when two
calls overlap, each may start a key the other had just rendered. It speaks of the
frpc processes that are up. The ports of one Apply are distinct (`PortsSeparate`), but
not from those of the frpc processes it is about to restart: a key earlier in the
order can be given the port that a later key's frpc still holds, its new frpc then
exits at once, and Apply answers with success. `ProcessManagerLostPort` is that behaviour.

`NoRoomIsLeftBehind` excuses the rooms whose creation or clean-up met a fault of the
network, of the server's save or a crash of the backend, and those whose host deleted
the rule: `DeleteRoomRule` never deletes the remote room, and the clean-up is a best
effort. What it shows is that every failure of the backend's own edit is cleaned up
after. A visitor whose local edit fails stays registered, and no property is about it.

No property is about the shortcut of `UpdateNode`. It edits a node in place when its
snapshot shows no enabled rule on it; a rule that another handler commits in between is
then served with the old node. The model has that behaviour, and its cause is the one of
`ClientApplyLostRule`: no lock spans a request.

`GrantsAreAllocated` is about public exposures: the plugin compares nothing for private
ones, which have no node and no port.

Three runs are expected to be violated. Each states what a document of the
repository says and finds a behaviour of the code that differs:

| Run | What happens |
| --- | --- |
| `ClientApplyLostRule` | two creations overlap; the commit of the slower one installs a clone without the other's acknowledged rule (`RuleRemovalIntended`) |
| `ClientApplyRecovery` | a rollback cannot rewrite a file, and starts frpc from the new file under the old restart key; the following reload, the documented recovery, answers with success while frpc stays on the wrong server (`AckedIsServed`) |
| `ProcessManagerLostPort` | with nothing failing, an Apply that succeeds starts a key on the admin port which a later key's frpc still holds; the new frpc exits (`SeparateFrpcRun`) |

### Fairness

`FairSpec` adds weak fairness of the steps of a request in flight, for each
handler. Every such step ends by itself in the code: verification and reload run
under a ten second timeout, `stopKey` waits three seconds at most, file writes and
saves are local. Nothing is assumed of users, crashes or frpc exits. `RequestsEnd` is
checked with every fault of a step of a request but `"rewrite"`.

The `FairSpec` of `ProcessManager` adds weak fairness of the steps of each call, for
the same reasons, and nothing for the processes: `CallsEnd` holds although a killed
frpc may never die, because the wait has a timeout (`"timeout"` in `Faults`).

## Proofs

`ClientApplyProofs` proves for any sets of handlers, nodes, rules, rooms and
faults and any `MaxRequests`:

- `TypeCorrect`: `Spec => []TypeOK`;
- `StoreStaysConsistent`: `Spec => []StoreConsistent`;
- `RequestsRunOut`: `Spec => StepsRunOut`, when the keys are finitely many;
- `LoopsHaveWork`: no handler is in a loop with nothing left to do.

`StoreConsistent` is not inductive. A commit replaces the store by a clone that
was validated against a snapshot which may be long out of date, and a rollback
installs that snapshot; so the invariant `IInv` adds that every snapshot and
every clone a request holds is consistent on its own (`RequestOK`), and that the
loops run over keys of those data. That commits replace the whole store is what
loses updates (`ClientApplyLostRule`), and also what keeps the store consistent.
The first lemmas say that each accepted edit of a consistent value is consistent, and
that rendering is well typed; then there is one lemma per action.

The last two are the part of `RequestsEnd` that the prover reaches. `StepsLeft` counts
the keys a loop has left and a step for each key of the loops to come, so that each step
of a request, rollback and failures included, makes it smaller and nothing else changes
it; and a loop always has a key to go on with, because something is rendered
whatever the data (`SomethingActive`). What is left to TLC is that weak fairness turns
this into `RequestsEnd`.

`ClientSerialProofs` proves what holds while one handler is at work at a time
(`Worker = {h}`), for any nodes, rules, rooms, requests and `MaxRequests`. Each theorem names
the failures it allows:

| Theorem | Property | Failures |
| --- | --- | --- |
| `SerialEditsAreDurable` | `AckedIsDurable` | any |
| `SerialSuccessIsServed` | `AckedIsServed` | all but `"exit"`, `"rewrite"` (with `"ports"`: a frpc may be missing) |
| `SerialStoreIsRenderable` | `StoreRenderable` | all but `"crash"` (a start may change the default node) |
| `SerialFailureRestores` | `FailureRestores` | `"verify"`, `"apply"` |
| `SerialEditsAreAtomic` | `ImplementsEditStore` | all but `"save"`, `"crash"`; `Exposure = {}`, `Device = {}` |

The invariants follow the handler: its snapshot is the store until it commits and its
clone from there on (`Alone`), the files and processes of the keys its loop is done with are
those of the data it works towards (`Follows`), and what it holds can be rendered
(`StaysRenderable`). One handler is a real restriction: with two, TLC finds a
behaviour that breaks each of the five properties, because no lock spans a request. The lost
rule (`ClientApplyLostRule`), which the API document rules out, is kept as a run.

`ControlServerProofs` proves `RegistryStaysConsistent`:
`Spec => []RegistryConsistent`. Its invariant adds that ids in memory and on disk
were issued, so that a new id is new to both, and that the device of a request
past its first section is still registered: devices of groups are never deleted,
and a crash that could lose one ends the request too.

Its second half proves what the steps of the server may do:
`AckedMutationsAreDurable`, `DeletedIsGoneForGood`, `OnlyEnabledRoomsAreAccepted`,
`RoomsAreManagedByTheirHost` (the action properties of the two runs) and
`GrantsFollowTheAllocation` (`Spec => []GrantsAreAllocated`). A request checks its
caller in one critical section and acts in a later one. The invariant of
the pending requests says what may have changed in between: the room may be gone, but
its id was issued, is never issued again, and its host is the one that was checked. For
the grants it says that every port claimed in memory or on disk is one its node
hands out.

`ProcessManagerProofs` proves `ManagerTyped`, `NoFrpcIsLost` (`Spec =>
[]NoStrayFrpc`) and `NoFrpcIsKilledLate` (`Spec => []ManagedIsNotKilled`) for any
goroutines, keys, processes and faults, and whatever the ports are. The invariant adds
to the two that a process in the table was started, is under its own key and belongs to
this backend, that the victim of a call was started by this backend, and that the
keys a call still has to do have a config and a file. The two properties carry each other
through the unlocked steps: a call removes a process from the table in the critical
section in which it takes it as its victim. `CallsRunOut` (`Spec => StepsRunOut`, for
finitely many keys) does for `CallsEnd` what `RequestsRunOut` does for `RequestsEnd`: a
call comes back to no key it has dealt with, whatever the others do.

`ProcessServeProofs` proves three results about the same module, for any goroutines,
keys, processes, hashes and ports:

- `AdminPortsAreSeparate`: `AssignAdminPorts` gives different ports to different active
  keys, and the configured one to the default key. The assignment is a function
  defined by recursion along the order of rendering, so the first thing to
  prove is that it has a value at all: keys have places, two partial solutions agree
  where both are defined (`SolutionsAgree`), and there is one up to every place
  (`SolvedUpTo`). The induction is the one of the natural numbers, in the form that a
  set without a least element is empty (`NoLeastException`), which needs no
  operator as a parameter.
- `CallsUseSeparatePorts`: `Spec => []PortsSeparate`.
- `SuccessfulApplyServes`: `Spec => SuccessIsServed`, with every fault, restarts and
  detached processes.

The invariant of the last (`ServeInv`) says that no two frpc processes up on this
machine share a port, and, as long as every call has succeeded alone, what runs is
under the restart key of the file it will read or has read (`RunsAsStarted`), and a call
under way has done the keys it no longer has to do (`Orderly`). One frpc per port is what
makes a reload safe: the command names a port, not a process, and could otherwise reach a
frpc that an earlier call had killed in vain.

`SharedStoreProofs` proves `StoreTyped`, `StoreAlwaysOpens` and `StoreIsAtomicFile`,
the refinement of `StorePromise`, for any number of programs. The invariant says
what a save that overlaps no other may rely on: the temporary file has its name, is not
the store, and holds what the program wrote.

`RoomLifecycleProofs` proves `LifecycleTyped` and `AckedRulesStayRegistered`. Each step
of the composition is a step of `ControlServer` or leaves the server alone
(`StepIsServerStep`), which is how the module is written, so the server's invariants are
taken from `ControlServerProofs`. A room is deleted
only on behalf of the backend that created it and whose rule was not saved; so the
invariant follows each room from the reply of its creation, over the backend that saves
its rule, either to the user or to the delete request, and shows that it is never in two
of these places.

`RoomCleanupProofs` proves `RoomsAreCleanedUp` (`LifecycleSpec => []NoRoomIsLeftBehind`).
The invariant is the other half of the one above: every room is in at least one of these
places, or a lost reply, a crash or a failed save excuses it. It follows a
room from hand to hand: the reply on the connection, the backend saving the rule,
the rule, the request to delete the room. It needs that `None`, which stands for the room
a request does not have, is not a room.

The proofs assume the assumptions named in the modules (`DataAssumption`,
`WorldAssumption`, `RegistryAssumption`, `PortAssumption`, `ManagerAssumption`,
`LifecycleAssumption`, `StoreAssumption`): `None` is not a value, ids of different kinds
differ where the code tells them apart, no address is the mark of a torn file, requests and initial data are well typed,
initial data are consistent. TLC evaluates them in every run.

Only model-checked: liveness under fairness (`RequestsEnd`, `CallsEnd`), of which the
decrease of `StepsLeft` is proved, and the behaviours of the three violated runs. Every
other property of the runs is a theorem.

## Not modelled

- Node doctor, NAT and DNS diagnostics: probes of the network and of a throw-away
  frpc that leave the store alone.
- Routing and decoding of the HTTP handlers, redaction, flag parsing, `ctl`, the
  console: no state of their own. Validation and token helpers: a request the models
  have is one they accept.
- The Login of a group device at the plugin, which reads its registration only.
- A power loss between the rename of a store and its blocks reaching the disk, and
  Windows' rename, which is an error while another program has the file open.
- A direct command's lost update of the backend's rules (and the backend's of the
  command's): `SharedStore` has the behaviour, and nothing in the code or its
  documents promises otherwise. Neither does it promise that a direct command's frpc
  processes differ from the backend's: the command starts one for every enabled rule
  of the file.
- A start with other web or authentication settings than the stored default node's,
  which may leave rules that cannot be rendered: `ClientApply` restarts with the same
  settings.
