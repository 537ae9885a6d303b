----------------------------- MODULE RoomLifecycle -----------------------------
(***************************************************************************)
(* A room from both ends: local backends (internal/client: CreateRoomHost,    *)
(* JoinRoom, DeleteRoomRule, deleteRemoteRoomBestEffort) that call the control *)
(* server of ControlServer over HTTP and keep a rule of their own.            *)
(*                                                                         *)
(* A worker of the control server handles the request of one connection.     *)
(* Either end may go away: the backend gives up after its client's ten        *)
(* seconds while the request is still to be served, replies get lost, saves   *)
(* fail and both programs crash.  A backend handles one request at a time and *)
(* its local edit is one step here: ClientApply has its parts.                *)
(***************************************************************************)
EXTENDS ControlServer

CONSTANTS
    Machine,       \* local backends
    ClientFaults,  \* what may go wrong at a backend
    MaxJobs        \* bound on the requests made to backends

VARIABLES
    local,   \* the room rules in each backend's memory and in its client.json
    acked,   \* the rules users were told of, with the room code for a host
    job,     \* the request each backend is handling
    net,     \* the request on each connection, until its reply is taken
    jobs,    \* requests made so far
    excused  \* rooms whose creation or clean-up met a fault of the network, of
             \* the server's save or of the backend's crash, or that their host
             \* deleted locally

clientVars == <<local, acked, job, net, jobs, excused>>

lifecycleVars == <<vars, clientVars>>

Rule == [role : {"host", "visitor"}, room : Room, member : Member]

Kinds == {"create", "join", "delete"}

Exchange == [kind : Kinds, room : Opt(Room), member : Opt(Member),
             state : {"sent", "ok", "err"}, late : BOOLEAN]

ASSUME LifecycleAssumption ==
    /\ ClientFaults \subseteq {"lost", "refused", "save", "crash"}
    /\ MaxJobs \in Nat
    /\ None \notin Worker \union Exchange \union Rule \union Room

Jobs == [pc : {"idle", "posted", "saving", "cleaning"}, kind : Opt(Kinds),
         conn : Opt(Worker), rule : Opt(Rule), res : {"none", "ok", "err"}]

NoJob(res) == [pc |-> "idle", kind |-> None, conn |-> None, rule |-> None, res |-> res]

\* The rooms whose code a host may pass on.
Codes == {rule.room : rule \in {x \in acked : x.role = "host"}}

LifecycleInit ==
    /\ Init
    /\ local = [m \in Machine |-> [mem |-> {}, disk |-> {}]]
    /\ acked = {}
    /\ job = [m \in Machine |-> NoJob("none")]
    /\ net = [w \in Worker |-> None]
    /\ jobs = 0
    /\ excused = {}

-----------------------------------------------------------------------------
(* The control server's end.  A late reply goes to nobody.  Every request is  *)
(* about a room that is there: what would be refused is never sent, because   *)
(* codes are of acknowledged rooms and a room is deleted once.               *)

Reply(w, room, member, res) ==
    net' = [net EXCEPT ![w] = IF net[w].late THEN None
                              ELSE [net[w] EXCEPT !.room = room, !.member = member, !.state = res]]

Waiting(w, kind) == net[w] # None /\ net[w].kind = kind /\ net[w].state = "sent"

Excuse(room, bad) == excused' = IF bad THEN excused \union {room} ELSE excused

\* A creation whose save fails is answered with an error; the room stays in memory.
ServeCreate(w) ==
    /\ Waiting(w, "create")
    /\ CreateRoom(w)
    /\ \E r \in Room \ issued, x \in Member \ issued :
           /\ mem'.rooms[r] # None /\ mem'.rooms[r].host = x
           /\ Reply(w, r, x, req'[w].res)
           /\ Excuse(r, req'[w].res = "err" \/ net[w].late)
    /\ UNCHANGED <<local, acked, job, jobs>>

ServeJoin(w) ==
    /\ Waiting(w, "join")
    /\ JoinRoom(w)
    /\ \E x \in Member \ issued :
           /\ mem'.members[x] = [room |-> net[w].room, role |-> "visitor"]
           /\ Reply(w, net[w].room, x, req'[w].res)
    /\ UNCHANGED <<local, acked, job, jobs, excused>>

DeleteOp(w) == [kind |-> "deleteRoom", auth |-> net[w].room, member |-> net[w].member,
                room |-> net[w].room]

\* DELETE /v1/rooms/{id}: the credentials, then the room.
ServeAuth(w) ==
    /\ Waiting(w, "delete")
    /\ ValidMember(net[w].room, net[w].member, {"host"})
    /\ Authenticate(w)
    /\ IF req'[w].pc = "authed" THEN req'[w].op = DeleteOp(w) /\ UNCHANGED <<net, excused>>
       ELSE /\ Reply(w, net[w].room, net[w].member, "err")
            /\ Excuse(net[w].room, TRUE)
    /\ UNCHANGED <<local, acked, job, jobs>>

ServeDelete(w) ==
    /\ Waiting(w, "delete")
    /\ DeleteRoom(w)
    /\ Reply(w, net[w].room, net[w].member, req'[w].res)
    /\ Excuse(net[w].room, req'[w].res = "err")
    /\ UNCHANGED <<local, acked, job, jobs>>

\* The frpc of a rule logs in through the plugin.
FrpcLogin(w) ==
    /\ net[w] = None
    /\ RoomLogin(w)
    /\ UNCHANGED clientVars

\* A server that dies breaks the connections.
RestartServer ==
    /\ Restart
    /\ net' = [w \in Worker |->
                  IF net[w] = None \/ net[w].late THEN None
                  ELSE IF net[w].state = "sent" THEN [net[w] EXCEPT !.state = "err"] ELSE net[w]]
    /\ excused' = excused \union
           {net[w].room : w \in {x \in Worker : Waiting(x, "delete")}}
    /\ UNCHANGED <<local, acked, job, jobs>>

-----------------------------------------------------------------------------
(* The local backend's end.                                                 *)

\* A request goes out on a connection of its own.
Send(m, kind, room, member, pc, rule) ==
    \E w \in Worker :
        /\ net[w] = None /\ req[w].pc = "idle"
        /\ net' = [net EXCEPT ![w] = [kind |-> kind, room |-> room, member |-> member,
                                      state |-> "sent", late |-> FALSE]]
        /\ job' = [job EXCEPT ![m] = [pc |-> pc, kind |-> kind, conn |-> w,
                                      rule |-> rule, res |-> "none"]]

Begin(m) == job[m].pc = "idle" /\ jobs < MaxJobs /\ jobs' = jobs + 1

CreateRoomHost(m) ==
    /\ Begin(m)
    /\ Send(m, "create", None, None, "posted", None)
    /\ UNCHANGED <<vars, local, acked, excused>>

JoinByCode(m) ==
    /\ Begin(m)
    /\ \E r \in Codes : Send(m, "join", r, None, "posted", None)
    /\ UNCHANGED <<vars, local, acked, excused>>

\* Mutant of Receive: the status of the reply is not looked at.
ReceiveAnyStatus(m) ==
    LET reply == net[job[m].conn]
        rule == [role |-> IF reply.kind = "create" THEN "host" ELSE "visitor",
                 room |-> reply.room, member |-> reply.member]
    IN
    /\ job[m].pc = "posted"
    /\ reply.state # "sent"
    /\ net' = [net EXCEPT ![job[m].conn] = None]
    /\ job' = [job EXCEPT ![m] = [job[m] EXCEPT !.pc = "saving", !.conn = None, !.rule = rule]]
    /\ UNCHANGED <<vars, local, acked, jobs, excused>>

\* The reply: its device and token make the rule to be saved.
Receive(m) ==
    LET reply == net[job[m].conn]
        rule == [role |-> IF reply.kind = "create" THEN "host" ELSE "visitor",
                 room |-> reply.room, member |-> reply.member]
    IN
    /\ job[m].pc = "posted"
    /\ reply.state # "sent"
    /\ net' = [net EXCEPT ![job[m].conn] = None]
    /\ job' = [job EXCEPT ![m] =
          IF reply.state = "err" THEN NoJob("err")
          ELSE [job[m] EXCEPT !.pc = "saving", !.conn = None, !.rule = rule]]
    /\ UNCHANGED <<vars, local, acked, jobs, excused>>

\* Whoever waits on a connection stops waiting: a request that is not served yet
\* may still be.
HangUp(w) == net' = [net EXCEPT ![w] = IF net[w].state = "sent" THEN [net[w] EXCEPT !.late = TRUE]
                                       ELSE None]

\* The rooms an exchange leaves without an owner when its reply is not taken.
Unclaimed(w) ==
    IF \/ net[w].kind = "create" /\ net[w].state = "ok"
       \/ net[w].kind = "delete" /\ net[w].state # "ok"
    THEN {net[w].room} ELSE {}

\* Ten seconds are over, the caller hung up, or the reply was not read.
GiveUp(m) ==
    LET w == job[m].conn IN
    /\ job[m].pc = "posted" /\ "lost" \in ClientFaults
    /\ HangUp(w)
    /\ job' = [job EXCEPT ![m] = NoJob("err")]
    /\ excused' = excused \union Unclaimed(w)
    /\ UNCHANGED <<vars, local, acked, jobs>>

\* The error path of a failed local edit: only a host has something to remove.
Fails(m) ==
    LET rule == job[m].rule IN
    IF rule.role = "host" THEN Send(m, "delete", rule.room, rule.member, "cleaning", rule)
    ELSE job' = [job EXCEPT ![m] = NoJob("err")] /\ UNCHANGED net

\* Mutant of SaveRoomRule: a failed save is not cleaned up after.
SaveWithoutCleanup(m) ==
    LET rule == job[m].rule
        new == local[m].mem \union {rule}
    IN
    /\ job[m].pc = "saving"
    /\ \/ /\ local' = [local EXCEPT ![m] = [mem |-> new, disk |-> new]]
          /\ job' = [job EXCEPT ![m] = NoJob("ok")]
          /\ acked' = acked \union {rule}
          /\ UNCHANGED net
       \/ /\ "refused" \in ClientFaults
          /\ job' = [job EXCEPT ![m] = NoJob("err")]
          /\ UNCHANGED <<local, acked, net>>
    /\ UNCHANGED <<vars, jobs, excused>>

\* saveRoomRule applies the edit; it is refused or rolled back, or its save fails
\* and leaves it in memory, or the save of the rollback fails and leaves it on
\* disk.
SaveRoomRule(m) ==
    LET rule == job[m].rule
        new == local[m].mem \union {rule}
    IN
    /\ job[m].pc = "saving"
    /\ \/ /\ local' = [local EXCEPT ![m] = [mem |-> new, disk |-> new]]
          /\ job' = [job EXCEPT ![m] = NoJob("ok")]
          /\ acked' = acked \union {rule}
          /\ UNCHANGED net
       \/ /\ "refused" \in ClientFaults
          /\ Fails(m)
          /\ UNCHANGED <<local, acked>>
       \/ /\ "save" \in ClientFaults
          /\ \/ local' = [local EXCEPT ![m].mem = new]
             \/ local' = [local EXCEPT ![m].disk = new]
          /\ Fails(m)
          /\ UNCHANGED acked
    /\ UNCHANGED <<vars, jobs, excused>>

\* deleteRemoteRoomBestEffort looks at no reply, and has the same ten seconds.
CleanupEnds(m) ==
    LET w == job[m].conn IN
    /\ job[m].pc = "cleaning"
    /\ net[w].state # "sent" \/ "lost" \in ClientFaults
    /\ HangUp(w)
    /\ job' = [job EXCEPT ![m] = NoJob("err")]
    /\ excused' = excused \union Unclaimed(w)
    /\ UNCHANGED <<vars, local, acked, jobs>>

\* DeleteRoomRule is local: the remote room keeps its devices.
DeleteRoomRule(m) ==
    /\ Begin(m)
    /\ \E rule \in local[m].mem :
           LET left == local[m].mem \ {rule} IN
           /\ \/ local' = [local EXCEPT ![m] = [mem |-> left, disk |-> left]]
              \/ "save" \in ClientFaults /\ local' = [local EXCEPT ![m].mem = left]
           /\ Excuse(rule.room, rule.role = "host")
    /\ UNCHANGED <<vars, acked, job, net>>

\* The backend dies, perhaps after its save, and is started again.
RestartMachine(m) ==
    LET rule == job[m].rule
        w == job[m].conn
        kept == {local[m].disk} \union
                (IF job[m].pc = "saving" THEN {local[m].mem \union {rule}} ELSE {})
    IN
    /\ "crash" \in ClientFaults
    /\ jobs < MaxJobs /\ jobs' = jobs + 1
    /\ \E rules \in kept : local' = [local EXCEPT ![m] = [mem |-> rules, disk |-> rules]]
    /\ job' = [job EXCEPT ![m] = NoJob("none")]
    /\ IF w = None THEN UNCHANGED net ELSE HangUp(w)
    /\ excused' = excused \union (IF w # None THEN Unclaimed(w) ELSE {})
                          \union (IF rule # None THEN {rule.room} ELSE {})
                          \union {x.room : x \in local[m].mem \ local[m].disk}
    /\ UNCHANGED <<vars, acked>>

-----------------------------------------------------------------------------

Serve(w) ==
    \/ ServeCreate(w) \/ ServeJoin(w) \/ ServeAuth(w) \/ ServeDelete(w)
    \/ FrpcLogin(w)

JobStep(m) == Receive(m) \/ GiveUp(m) \/ SaveRoomRule(m) \/ CleanupEnds(m)

LifecycleNext ==
    \/ \E w \in Worker : Serve(w)
    \/ RestartServer
    \/ \E m \in Machine : CreateRoomHost(m) \/ JoinByCode(m) \/ DeleteRoomRule(m)
                          \/ JobStep(m) \/ RestartMachine(m)

LifecycleSpec == LifecycleInit /\ [][LifecycleNext]_lifecycleVars

-----------------------------------------------------------------------------
(* Properties.                                                              *)

\* Types of the backends' stores, their requests and the connections.
LifecycleTypeOK ==
    /\ local \in [Machine -> [mem : SUBSET Rule, disk : SUBSET Rule]]
    /\ acked \subseteq Rule
    /\ job \in [Machine -> Jobs]
    /\ net \in [Worker -> Opt(Exchange)]
    /\ jobs \in 0..MaxJobs
    /\ excused \subseteq Opt(Room)

Registered(d, rule) ==
    /\ d.rooms[rule.room] # None
    /\ d.members[rule.member] = [room |-> rule.room, role |-> rule.role]

\* A rule a user was told of has its room and its device on the control server,
\* in memory and on disk: no clean-up of another creation, no delete that is served
\* after its sender is gone, no failed save and no crash of either end takes them
\* away.
AckedRuleIsRegistered == \A rule \in acked : Registered(mem, rule) /\ Registered(disk, rule)

\* Somebody still deals with a room: a reply on its way, its host's backend about
\* to save the rule or cleaning up, or the rule of its host.
Handled(r) ==
    \/ \E w \in Worker : net[w] # None /\ net[w].room = r /\ net[w].kind # "join"
    \/ \E m \in Machine : \E rule \in local[m].mem \union ({job[m].rule} \ {None}) :
           rule.room = r /\ rule.role = "host"

\* A creation that failed only at the backend leaves no room behind: "the local
\* backend makes a best-effort authenticated delete call to remove the remote room".
NoRoomIsLeftBehind ==
    \A r \in Present(mem.rooms) : r \in excused \/ Handled(r)

=============================================================================
