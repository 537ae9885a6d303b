------------------------- MODULE RoomLifecycleProofs -------------------------
(***************************************************************************)
(* Proofs about RoomLifecycle: the composition uses the control server as      *)
(* ControlServer describes it, and a rule a user was told of stays registered, *)
(* for any number of backends and connections.                              *)
(*                                                                         *)
(* Why no clean-up can hit such a rule: a room is deleted only on behalf of    *)
(* the backend that created it and whose rule was not saved.  So the invariant *)
(* follows each room from the reply of its creation, over the backend that     *)
(* saves its rule, either to the user or to the delete request, and shows that *)
(* it is never in two of these places.                                      *)
(***************************************************************************)
EXTENDS RoomLifecycle, ControlServerProofs

\* On the control server for good: also after a crash.
Kept(rule) == Registered(mem, rule) /\ Registered(disk, rule)

ReplyRule(w) == [role |-> IF net[w].kind = "create" THEN "host" ELSE "visitor",
                 room |-> net[w].room, member |-> net[w].member]

\* A reply on its way that will make a rule.
Granted(w) == net[w] # None /\ net[w].kind # "delete" /\ net[w].state = "ok"

\* The rules that exist somewhere, acknowledged or about to be.
AckedKept == \A rule \in acked : Kept(rule) /\ rule.room \in Codes

SavingKept ==
    \A m \in Machine : job[m].pc = "saving" =>
        /\ job[m].rule \in Rule
        /\ Kept(job[m].rule)
        /\ job[m].rule.role = "visitor" <=> job[m].rule.room \in Codes

RepliesKept ==
    \A w \in Worker : Granted(w) =>
        /\ ReplyRule(w) \in Rule
        /\ Kept(ReplyRule(w))
        /\ net[w].kind = "join" <=> net[w].room \in Codes

\* A room code comes from a host who was told of it.
JoinsCoded ==
    \A w \in Worker : net[w] # None /\ net[w].kind = "join" => net[w].room \in Codes

\* The rooms that are being deleted.
Doomed(r) ==
    \/ \E w \in Worker : net[w] # None /\ net[w].kind = "delete" /\ net[w].room = r
    \/ \E w \in Worker : req[w].pc = "authed" /\ req[w].op.room = r

\* A created room whose rule is not saved: in a reply, or at its backend.
Created(w) == Granted(w) /\ net[w].kind = "create"

Hosting(m) == job[m].pc = "saving" /\ job[m].rule.role = "host"

RoomsDoomedOnce ==
    /\ \A r \in Room : Doomed(r) => r \in issued /\ r \notin Codes
    /\ \A w \in Worker : Created(w) => ~ Doomed(net[w].room)
    /\ \A m \in Machine : Hosting(m) => ~ Doomed(job[m].rule.room)

RoomsHostedOnce ==
    /\ \A v, w \in Worker : Created(v) /\ Created(w) /\ net[v].room = net[w].room => v = w
    /\ \A m, n \in Machine :
          Hosting(m) /\ Hosting(n) /\ job[m].rule.room = job[n].rule.room => m = n
    /\ \A m \in Machine, w \in Worker :
          Hosting(m) /\ Created(w) => job[m].rule.room # net[w].room

\* Deletions are all the control server is asked to do with credentials, for rooms
\* that exist in name.
OnlyDeletes ==
    /\ \A w \in Worker : net[w] # None /\ net[w].kind = "delete" => net[w].room \in Room
    /\ \A w \in Worker :
          req[w].pc # "idle" => req[w].pc = "authed" /\ req[w].op.kind = "deleteRoom"

\* Every backend that waits has a connection of its own.
Conversing(m) == job[m].pc \in {"posted", "cleaning"}

ConnectionsOwned ==
    /\ \A m \in Machine : Conversing(m) <=> job[m].conn # None
    /\ \A m \in Machine : Conversing(m) =>
          /\ job[m].conn \in Worker
          /\ net[job[m].conn] # None
          /\ ~ net[job[m].conn].late
          /\ job[m].pc = "posted" <=> net[job[m].conn].kind # "delete"
    /\ \A m, n \in Machine : Conversing(m) /\ Conversing(n) /\ job[m].conn = job[n].conn => m = n

Ruled ==
    /\ AckedKept /\ SavingKept /\ RepliesKept /\ JoinsCoded
    /\ RoomsDoomedOnce /\ RoomsHostedOnce /\ OnlyDeletes /\ ConnectionsOwned

LInv == IInv /\ LifecycleTypeOK /\ Ruled

-----------------------------------------------------------------------------
(* The steps of the control server.                                         *)

\* Every step is one of the control server, or none of it.
LEMMA StepIsServerStep == [LifecycleNext]_lifecycleVars => [Next]_vars
<1>1. CASE UNCHANGED lifecycleVars
  BY <1>1 DEF lifecycleVars
<1>2. ASSUME NEW w \in Worker, Serve(w) PROVE [Next]_vars
  BY <1>2 DEF Serve, ServeCreate, ServeJoin, ServeAuth, ServeDelete, FrpcLogin,
     Next, Handle
<1>3. CASE RestartServer
  BY <1>3 DEF RestartServer, Next
<1>4. ASSUME NEW m \in Machine,
             \/ CreateRoomHost(m) \/ JoinByCode(m) \/ DeleteRoomRule(m)
             \/ JobStep(m) \/ RestartMachine(m)
      PROVE  UNCHANGED vars
  BY <1>4 DEF CreateRoomHost, JoinByCode, DeleteRoomRule, JobStep, Receive, GiveUp,
     SaveRoomRule, CleanupEnds, RestartMachine
<1>5. QED
  BY <1>1, <1>2, <1>3, <1>4 DEF LifecycleNext

\* The room and the device of a kept rule have ids that were issued.
LEMMA KeptIsIssued ==
  ASSUME IInv, NEW rule \in Rule, Kept(rule)
  PROVE  rule.room \in Room \intersect issued /\ rule.member \in Member \intersect issued
<1>1. mem.rooms[rule.room] # None /\ mem.members[rule.member] # None
  <2>1. [room |-> rule.room, role |-> rule.role] \in MemberRecord
    BY DEF Rule, MemberRecord
  <2>2. QED
    BY <2>1, RecordsPresent DEF Kept, Registered
<1>2. rule.room \in Room /\ rule.member \in Member
  BY DEF Rule
<1>3. QED
  BY <1>1, <1>2 DEF IInv, TypeOK, Sound, IdsIssued, Present, Data

LEMMA UpdateKeeps ==
  ASSUME NEW w \in Worker, NEW d, UpdateThenAnswer(w, d),
         NEW rule, Kept(rule), Registered(d, rule)
  PROVE  Kept(rule)'
BY DEF UpdateThenAnswer, Saved, SaveFails, Kept, Registered

\* New rooms and devices take no old id.
LEMMA CreatingKeeps ==
  ASSUME IInv, NEW w \in Worker, CreateRoom(w) \/ JoinRoom(w), NEW rule \in Rule, Kept(rule)
  PROVE  Kept(rule)'
<1>1. rule.room \in issued /\ rule.member \in issued /\ rule.room \in Room /\ rule.member \in Member
  BY KeptIsIssued
<1>2. CASE CreateRoom(w)
  <2>1. PICK r \in Room, x \in Member :
           /\ r \notin issued /\ x \notin issued
           /\ UpdateThenAnswer(w,
                [mem EXCEPT !.rooms[r] = [host |-> x, enabled |-> TRUE],
                            !.members[x] = [room |-> r, role |-> "host"]])
    BY <1>2 DEF CreateRoom, Issue
  <2> DEFINE d == [mem EXCEPT !.rooms[r] = [host |-> x, enabled |-> TRUE],
                              !.members[x] = [room |-> r, role |-> "host"]]
  <2>2. d.rooms[rule.room] = mem.rooms[rule.room] /\ d.members[rule.member] = mem.members[rule.member]
    BY <1>1, <2>1 DEF IInv, TypeOK, Data
  <2>3. Registered(d, rule)
    BY <2>2 DEF Kept, Registered
  <2>4. QED
    BY <2>1, <2>3, UpdateKeeps
<1>3. CASE JoinRoom(w)
  <2>1. PICK r \in Present(mem.rooms), x \in Member :
           /\ x \notin issued
           /\ UpdateThenAnswer(w, [mem EXCEPT !.members[x] = [room |-> r, role |-> "visitor"]])
    BY <1>3 DEF JoinRoom, Issue
  <2> DEFINE d == [mem EXCEPT !.members[x] = [room |-> r, role |-> "visitor"]]
  <2>2. d.rooms[rule.room] = mem.rooms[rule.room] /\ d.members[rule.member] = mem.members[rule.member]
    BY <1>1, <2>1 DEF IInv, TypeOK, Data
  <2>3. Registered(d, rule)
    BY <2>2 DEF Kept, Registered
  <2>4. QED
    BY <2>1, <2>3, UpdateKeeps
<1>4. QED
  BY <1>2, <1>3

LEMMA ReadingKeeps ==
  ASSUME NEW w \in Worker, Authenticate(w) \/ RoomLogin(w), NEW rule, Kept(rule)
  PROVE  Kept(rule)'
BY DEF Authenticate, RoomLogin, UpdateThenAnswer, Saved, SaveFails, Kept, Registered

LEMMA RestartKeeps ==
  ASSUME Restart, NEW rule, Kept(rule)
  PROVE  Kept(rule)'
BY DEF Restart, Saved, Kept, Registered

LEMMA StandingKeeps ==
  ASSUME UNCHANGED vars, NEW rule, Kept(rule)
  PROVE  Kept(rule)'
BY DEF vars, Kept, Registered

\* Deleting a room leaves the devices of the others.
LEMMA DeletingKeeps ==
  ASSUME IInv, NEW w \in Worker, DeleteRoom(w), NEW rule \in Rule, Kept(rule),
         rule.room # req[w].op.room
  PROVE  Kept(rule)'
<1> DEFINE op == req[w].op
           kept(member) == member # None /\ member.room # op.room
           members == [m \in Member |-> IF kept(mem.members[m]) THEN mem.members[m] ELSE None]
           d == [mem EXCEPT !.rooms[op.room] = None, !.members = members]
<1>1. rule.room \in Room /\ rule.member \in Member
  BY DEF Rule
<1>2. CASE Refuse(w)
  BY <1>2 DEF Refuse, Kept, Registered
<1>3. CASE UpdateThenAnswer(w, d)
  <2>1. mem.members[rule.member] = [room |-> rule.room, role |-> rule.role]
    BY DEF Kept, Registered
  <2>2. mem.members[rule.member] # None
    <3>1. [room |-> rule.room, role |-> rule.role] \in MemberRecord
      BY DEF Rule, MemberRecord
    <3>2. QED
      BY <2>1, <3>1, RecordsPresent
  <2>3. kept(mem.members[rule.member])
    BY <2>1, <2>2
  <2>4. members[rule.member] = mem.members[rule.member]
    BY <1>1, <2>3
  <2>5. d.members = members /\ d.rooms = [mem.rooms EXCEPT ![op.room] = None]
    BY DEF IInv, TypeOK, Data
  <2>6. d.rooms[rule.room] = mem.rooms[rule.room]
    BY <1>1, <2>5 DEF IInv, TypeOK, Data
  <2> HIDE DEF members
  <2>7. Registered(d, rule)
    BY <2>4, <2>5, <2>6 DEF Kept, Registered
  <2> HIDE DEF d
  <2>8. QED
    BY <1>3, <2>7, UpdateKeeps
<1>4. QED
  BY <1>2, <1>3 DEF DeleteRoom

\* The rooms of replies and of backends that save are rooms with an id of their own.
LEMMA HeldRooms ==
  ASSUME LInv
  PROVE  /\ \A w \in Worker : Created(w) => net[w].room \in Room \intersect issued
         /\ \A m \in Machine : Hosting(m) => job[m].rule.room \in Room \intersect issued
<1>1. ASSUME NEW w \in Worker, Created(w) PROVE net[w].room \in Room \intersect issued
  <2>1. ReplyRule(w) \in Rule /\ Kept(ReplyRule(w))
    BY <1>1 DEF LInv, Ruled, RepliesKept, Created
  <2>2. ReplyRule(w).room = net[w].room
    BY DEF ReplyRule
  <2>3. QED
    BY <2>1, <2>2, KeptIsIssued DEF LInv
<1>2. ASSUME NEW m \in Machine, Hosting(m) PROVE job[m].rule.room \in Room \intersect issued
  BY <1>2, KeptIsIssued DEF LInv, Ruled, SavingKept, Hosting
<1>3. QED
  BY <1>1, <1>2

-----------------------------------------------------------------------------
(* The steps of the backends.                                               *)

\* Whoever stops waiting, or has nothing to wait for, leaves only less behind.
LEMMA DroppingKeeps ==
  ASSUME LInv, NEW m \in Machine, UNCHANGED <<vars, acked>>,
         NEW res, job' = [job EXCEPT ![m] = NoJob(res)],
         IF job[m].conn = None THEN UNCHANGED net ELSE HangUp(job[m].conn)
  PROVE  Ruled'
<1>1. \A n \in Machine : job'[n] = IF n = m THEN NoJob(res) ELSE job[n]
  BY DEF LInv, LifecycleTypeOK
<1>2. /\ NoJob(res).pc = "idle" /\ NoJob(res).conn = None
  BY DEF NoJob
<1>3. \A v \in Worker : v # job[m].conn => net'[v] = net[v]
  BY DEF LInv, LifecycleTypeOK, HangUp
<1>4. \A v \in Worker : net'[v] # None =>
          /\ net[v] # None
          /\ net'[v].kind = net[v].kind /\ net'[v].room = net[v].room
          /\ net'[v].member = net[v].member /\ net'[v].state = net[v].state
  <2>1. CASE job[m].conn = None
    BY <2>1
  <2>2. CASE job[m].conn # None
    <3>1. job[m].conn \in Worker /\ net[job[m].conn] \in Exchange
      BY <2>2 DEF LInv, LifecycleTypeOK, Ruled, ConnectionsOwned, Opt
    <3> DEFINE x == net[job[m].conn]
               y == [x EXCEPT !.late = TRUE]
    <3>2. y.kind = x.kind /\ y.room = x.room /\ y.member = x.member /\ y.state = x.state
      BY <3>1 DEF Exchange
    <3>3. net'[job[m].conn] \in {None, y}
      BY <2>2, <3>1 DEF LInv, LifecycleTypeOK, HangUp
    <3>4. x # None
      BY <2>2 DEF LInv, Ruled, ConnectionsOwned
    <3> HIDE DEF x, y
    <3>5. QED
      BY <1>3, <3>2, <3>3, <3>4 DEF x
  <2>3. QED
    BY <2>1, <2>2
<1>5. acked' = acked /\ Codes' = Codes /\ issued' = issued /\ req' = req
  BY DEF vars, Codes
<1>6. \A v \in Worker : Granted(v)' => Granted(v) /\ ReplyRule(v)' = ReplyRule(v)
  BY <1>4 DEF Granted, ReplyRule
<1>7. \A v \in Worker : Created(v)' => Created(v) /\ net'[v].room = net[v].room
  BY <1>4 DEF Granted, Created
<1>8. \A n \in Machine : Hosting(n)' => Hosting(n) /\ job'[n].rule = job[n].rule
  BY <1>1, <1>2 DEF Hosting
<1>9. \A r \in Room : Doomed(r)' => Doomed(r)
  BY <1>4, <1>5 DEF Doomed
<1>10. AckedKept'
  BY <1>5, StandingKeeps DEF LInv, Ruled, AckedKept
<1>11. SavingKept'
  BY <1>1, <1>2, <1>5, StandingKeeps DEF LInv, Ruled, SavingKept
<1>12. RepliesKept'
  BY <1>4, <1>5, <1>6, StandingKeeps DEF LInv, Ruled, RepliesKept, Granted
<1>13. JoinsCoded'
  BY <1>4, <1>5 DEF LInv, Ruled, JoinsCoded
<1>14. RoomsDoomedOnce'
  BY <1>5, <1>7, <1>8, <1>9, HeldRooms DEF LInv, Ruled, RoomsDoomedOnce
<1>15. RoomsHostedOnce'
  BY <1>7, <1>8 DEF LInv, Ruled, RoomsHostedOnce
<1>16. OnlyDeletes'
  BY <1>4, <1>5 DEF LInv, Ruled, OnlyDeletes
<1>17. ConnectionsOwned'
  BY <1>1, <1>2, <1>3 DEF LInv, Ruled, ConnectionsOwned, Conversing
<1>18. QED
  BY <1>10, <1>11, <1>12, <1>13, <1>14, <1>15, <1>16, <1>17 DEF Ruled

\* A request whose room, if it names one, has a known code.
LEMMA PostingKeeps ==
  ASSUME LInv, NEW m \in Machine, UNCHANGED <<vars, acked>>, job[m].pc = "idle",
         NEW kind \in {"create", "join"}, NEW room \in Opt(Room), kind = "join" => room \in Codes,
         Send(m, kind, room, None, "posted", None)
  PROVE  Ruled'
<1>1. PICK w \in Worker :
         /\ net[w] = None
         /\ \A v \in Worker : v # w => net'[v] = net[v]
         /\ net'[w] = [kind |-> kind, room |-> room, member |-> None,
                       state |-> "sent", late |-> FALSE]
         /\ \A n \in Machine : n # m => job'[n] = job[n]
         /\ job'[m] = [pc |-> "posted", kind |-> kind, conn |-> w, rule |-> None, res |-> "none"]
  BY DEF Send, LInv, LifecycleTypeOK
<1>2. net'[w] # None
  <2>1. net'[w] \in Exchange
    BY <1>1 DEF Exchange, Kinds, Opt
  <2>2. QED
    BY <2>1, LifecycleAssumption
<1>3. job'[m].pc = "posted" /\ job'[m].conn = w
  BY <1>1
<1>4. net'[w].kind = kind /\ net'[w].room = room /\ net'[w].state = "sent" /\ ~ net'[w].late
  BY <1>1
<1>5. acked' = acked /\ Codes' = Codes /\ issued' = issued /\ req' = req
  BY DEF vars, Codes
<1>6. \A v \in Worker : Granted(v)' => Granted(v) /\ ReplyRule(v)' = ReplyRule(v)
                                       /\ net'[v] = net[v]
  BY <1>1, <1>4 DEF Granted, ReplyRule
<1>7. \A n \in Machine : Hosting(n)' => Hosting(n) /\ job'[n] = job[n]
  BY <1>1, <1>3 DEF Hosting
<1>8. \A r \in Room : Doomed(r)' => Doomed(r)
  BY <1>1, <1>4, <1>5 DEF Doomed
<1>9. AckedKept'
  BY <1>5, StandingKeeps DEF LInv, Ruled, AckedKept
<1>10. SavingKept'
  BY <1>1, <1>3, <1>5, StandingKeeps DEF LInv, Ruled, SavingKept
<1>11. RepliesKept'
  BY <1>5, <1>6, StandingKeeps DEF LInv, Ruled, RepliesKept
<1>12. JoinsCoded'
  BY <1>1, <1>4, <1>5 DEF LInv, Ruled, JoinsCoded
<1>13. RoomsDoomedOnce'
  BY <1>5, <1>6, <1>7, <1>8, HeldRooms DEF LInv, Ruled, RoomsDoomedOnce, Created
<1>14. RoomsHostedOnce'
  BY <1>6, <1>7 DEF LInv, Ruled, RoomsHostedOnce, Created
<1>15. OnlyDeletes'
  BY <1>1, <1>4, <1>5 DEF LInv, Ruled, OnlyDeletes
<1>16. ConnectionsOwned'
  BY <1>1, <1>2, <1>3, <1>4, LifecycleAssumption DEF LInv, Ruled, ConnectionsOwned, Conversing
<1>17. QED
  BY <1>9, <1>10, <1>11, <1>12, <1>13, <1>14, <1>15, <1>16 DEF Ruled

\* A reply of success moves its rule to the backend.
LEMMA ReceivingKeeps ==
  ASSUME LInv, NEW m \in Machine, Receive(m)
  PROVE  Ruled'
<1> DEFINE w == job[m].conn
<1>1. w \in Worker /\ net[w] # None /\ job[m].pc = "posted" /\ net[w].kind # "delete"
  BY DEF LInv, Ruled, ConnectionsOwned, Conversing, Receive
<1>2. UNCHANGED <<vars, acked>>
  BY DEF Receive
<1>3. CASE net[w].state = "err"
  <2>1. HangUp(job[m].conn)
    BY <1>3 DEF Receive, HangUp
  <2>2. w # None
    BY <1>1 DEF LInv, Ruled, ConnectionsOwned, Conversing
  <2>3. QED
    BY <1>2, <1>3, <2>1, <2>2, DroppingKeeps DEF Receive
<1>4. CASE net[w].state # "err"
  <2>1. Granted(w)
    BY <1>1, <1>4 DEF LInv, LifecycleTypeOK, Opt, Exchange, Receive, Granted
  <2>2. /\ net'[w] = None
        /\ \A v \in Worker : v # w => net'[v] = net[v]
    BY <1>1 DEF LInv, LifecycleTypeOK, Receive
  <2>3. \A n \in Machine : n # m => job'[n] = job[n]
    BY DEF LInv, LifecycleTypeOK, Receive
  <2>4. job'[m].pc = "saving" /\ job'[m].conn = None /\ job'[m].rule = ReplyRule(w)
    BY <1>4 DEF LInv, LifecycleTypeOK, Jobs, Receive, ReplyRule
  <2> HIDE DEF w
  <2>5. acked' = acked /\ Codes' = Codes /\ issued' = issued /\ req' = req
    BY <1>2 DEF vars, Codes
  <2>6. \A v \in Worker : Granted(v)' => Granted(v) /\ v # w /\ net'[v] = net[v]
                                         /\ ReplyRule(v)' = ReplyRule(v)
    BY <2>2 DEF Granted, ReplyRule
  <2>7. /\ ReplyRule(w).role \in {"host", "visitor"} /\ ReplyRule(w).room = net[w].room
        /\ ReplyRule(w).role = "host" <=> net[w].kind = "create"
    BY DEF ReplyRule
  <2>8. net[w].kind \in {"create", "join"}
    BY <1>1 DEF LInv, LifecycleTypeOK, Opt, Exchange, Kinds
  <2>9. Hosting(m)' <=> Created(w)
    BY <2>1, <2>4, <2>7 DEF Hosting, Created
  <2>10. \A n \in Machine : n # m => (Hosting(n)' => Hosting(n) /\ job'[n] = job[n])
    BY <2>3 DEF Hosting
  <2>11. \A r \in Room : Doomed(r)' => Doomed(r)
    BY <2>2, <2>5 DEF Doomed
  <2>12. AckedKept'
    BY <1>2, <2>5, StandingKeeps DEF LInv, Ruled, AckedKept
  <2>13. SavingKept'
    <3>1. ReplyRule(w) \in Rule /\ Kept(ReplyRule(w))
          /\ (ReplyRule(w).role = "visitor" <=> ReplyRule(w).room \in Codes)
      BY <1>1, <2>1, <2>7, <2>8 DEF LInv, Ruled, RepliesKept
    <3>2. QED
      BY <1>2, <2>3, <2>4, <2>5, <3>1, StandingKeeps DEF LInv, Ruled, SavingKept
  <2>14. RepliesKept'
    BY <1>2, <2>5, <2>6, StandingKeeps DEF LInv, Ruled, RepliesKept
  <2>15. JoinsCoded'
    BY <2>2, <2>5 DEF LInv, Ruled, JoinsCoded
  <2>16. RoomsDoomedOnce'
    BY <1>1, <2>4, <2>5, <2>6, <2>7, <2>9, <2>10, <2>11, HeldRooms
    DEF LInv, Ruled, RoomsDoomedOnce, Created
  <2>17. RoomsHostedOnce'
    BY <1>1, <2>4, <2>6, <2>7, <2>9, <2>10 DEF LInv, Ruled, RoomsHostedOnce, Created
  <2>18. OnlyDeletes'
    BY <2>2, <2>5 DEF LInv, Ruled, OnlyDeletes
  <2>19. ConnectionsOwned'
    BY <1>1, <2>2, <2>3, <2>4 DEF LInv, Ruled, ConnectionsOwned, Conversing, w
  <2>20. QED
    BY <2>12, <2>13, <2>14, <2>15, <2>16, <2>17, <2>18, <2>19 DEF Ruled
<1>5. QED
  BY <1>3, <1>4

\* The user is told: the room of a host has a code from now on.
LEMMA SavedKeeps ==
  ASSUME LInv, NEW m \in Machine, job[m].pc = "saving", UNCHANGED <<vars, net>>,
         acked' = acked \union {job[m].rule}, job' = [job EXCEPT ![m] = NoJob("ok")]
  PROVE  Ruled'
<1> DEFINE rule == job[m].rule
<1>1. \A n \in Machine : n # m => job'[n] = job[n]
  BY DEF LInv, LifecycleTypeOK
<1>2. job'[m].pc = "idle" /\ job'[m].conn = None
  BY DEF LInv, LifecycleTypeOK, NoJob
<1>3. issued' = issued /\ req' = req /\ net' = net
  BY DEF vars
<1>4. rule \in Rule /\ Kept(rule) /\ (rule.role = "visitor" <=> rule.room \in Codes)
  BY DEF LInv, Ruled, SavingKept
<1>5. Codes' = IF Hosting(m) THEN Codes \union {rule.room} ELSE Codes
  BY DEF Codes, Hosting
<1>6. rule.role \in {"host", "visitor"}
  BY <1>4 DEF Rule
<1> HIDE DEF rule
<1>7. \A v \in Worker : /\ Granted(v)' <=> Granted(v)
                        /\ Created(v)' <=> Created(v)
                        /\ ReplyRule(v)' = ReplyRule(v)
  BY <1>3 DEF Granted, Created, ReplyRule
<1>8. \A n \in Machine : Hosting(n)' => n # m /\ Hosting(n) /\ job'[n] = job[n]
  BY <1>1, <1>2 DEF Hosting
<1>9. \A r \in Room : Doomed(r)' <=> Doomed(r)
  BY <1>3 DEF Doomed
<1>10. Hosting(m) => rule.room \in Room \intersect issued /\ ~ Doomed(rule.room)
  BY HeldRooms DEF LInv, Ruled, RoomsDoomedOnce, rule
<1>11. AckedKept'
  <2>1. rule.room \in Codes'
    BY <1>4, <1>5, <1>6 DEF Hosting, rule
  <2>2. QED
    BY <1>4, <1>5, <2>1, StandingKeeps DEF LInv, Ruled, AckedKept, rule
<1>12. SavingKept'
  <2>1. \A n \in Machine : n # m /\ Hosting(n) /\ Hosting(m) => job[n].rule.room # rule.room
    BY DEF LInv, Ruled, RoomsHostedOnce, rule
  <2>2. \A n \in Machine : job[n].pc = "saving" => job[n].rule.role \in {"host", "visitor"}
    BY DEF LInv, Ruled, SavingKept, Rule
  <2>3. QED
    BY <1>1, <1>2, <1>5, <2>1, <2>2, StandingKeeps DEF LInv, Ruled, SavingKept, Hosting
<1>13. RepliesKept'
  <2>1. \A v \in Worker : Created(v) /\ Hosting(m) => net[v].room # rule.room
    BY DEF LInv, Ruled, RoomsHostedOnce, rule
  <2>2. \A v \in Worker : Granted(v) => net[v].kind \in {"create", "join"}
    BY DEF LInv, LifecycleTypeOK, Opt, Exchange, Kinds, Granted
  <2>3. QED
    BY <1>3, <1>5, <1>7, <2>1, <2>2, StandingKeeps DEF LInv, Ruled, RepliesKept, Created
<1>14. JoinsCoded'
  BY <1>3, <1>5 DEF LInv, Ruled, JoinsCoded
<1>15. RoomsDoomedOnce'
  BY <1>3, <1>5, <1>7, <1>8, <1>9, <1>10, HeldRooms DEF LInv, Ruled, RoomsDoomedOnce
<1>16. RoomsHostedOnce'
  BY <1>3, <1>7, <1>8 DEF LInv, Ruled, RoomsHostedOnce
<1>17. OnlyDeletes'
  BY <1>3 DEF LInv, Ruled, OnlyDeletes
<1>18. ConnectionsOwned'
  BY <1>1, <1>2, <1>3 DEF LInv, Ruled, ConnectionsOwned, Conversing
<1>19. QED
  BY <1>11, <1>12, <1>13, <1>14, <1>15, <1>16, <1>17, <1>18 DEF Ruled

\* The clean-up takes the room the backend was about to save.
LEMMA CleaningKeeps ==
  ASSUME LInv, NEW m \in Machine, Hosting(m), UNCHANGED <<vars, acked>>,
         Send(m, "delete", job[m].rule.room, job[m].rule.member, "cleaning", job[m].rule)
  PROVE  Ruled'
<1> DEFINE rule == job[m].rule
<1>1. PICK w \in Worker :
         /\ net[w] = None
         /\ \A v \in Worker : v # w => net'[v] = net[v]
         /\ net'[w] = [kind |-> "delete", room |-> rule.room, member |-> rule.member,
                       state |-> "sent", late |-> FALSE]
         /\ \A n \in Machine : n # m => job'[n] = job[n]
         /\ job'[m] = [pc |-> "cleaning", kind |-> "delete", conn |-> w, rule |-> rule,
                       res |-> "none"]
  <2>1. \E w \in Worker :
         /\ net[w] = None
         /\ net' = [net EXCEPT ![w] = [kind |-> "delete", room |-> rule.room,
                                      member |-> rule.member, state |-> "sent", late |-> FALSE]]
         /\ job' = [job EXCEPT ![m] = [pc |-> "cleaning", kind |-> "delete", conn |-> w,
                                      rule |-> rule, res |-> "none"]]
    BY DEF Send
  <2> HIDE DEF rule
  <2>2. QED
    BY <2>1 DEF LInv, LifecycleTypeOK
<1>2. rule \in Rule /\ rule.room \in Room \intersect issued /\ rule.room \notin Codes
  BY HeldRooms DEF LInv, Ruled, SavingKept, Hosting
<1>3. job'[m].pc = "cleaning" /\ job'[m].conn = w
  BY <1>1
<1>4. /\ net'[w].kind = "delete" /\ net'[w].room = rule.room
      /\ net'[w].state = "sent" /\ ~ net'[w].late
  BY <1>1
<1>5. acked' = acked /\ Codes' = Codes /\ issued' = issued /\ req' = req
  BY DEF vars, Codes
<1>6. net'[w] # None
  <2>1. net'[w] \in Exchange
    BY <1>1, <1>2 DEF Rule, Exchange, Kinds, Opt
  <2>2. QED
    BY <2>1, LifecycleAssumption
<1>7. \A v \in Worker : Granted(v)' => Granted(v) /\ net'[v] = net[v]
                                       /\ ReplyRule(v)' = ReplyRule(v)
  BY <1>1, <1>4 DEF Granted, ReplyRule
<1>8. \A n \in Machine : Hosting(n)' => n # m /\ Hosting(n) /\ job'[n] = job[n]
  BY <1>1, <1>3 DEF Hosting
<1>9. \A r \in Room : Doomed(r)' => Doomed(r) \/ r = rule.room
  BY <1>1, <1>4, <1>5 DEF Doomed
<1> HIDE DEF rule
<1>10. AckedKept'
  BY <1>5, StandingKeeps DEF LInv, Ruled, AckedKept
<1>11. SavingKept'
  BY <1>1, <1>3, <1>5, StandingKeeps DEF LInv, Ruled, SavingKept
<1>12. RepliesKept'
  BY <1>5, <1>7, StandingKeeps DEF LInv, Ruled, RepliesKept
<1>13. JoinsCoded'
  BY <1>1, <1>4, <1>5 DEF LInv, Ruled, JoinsCoded
<1>14. RoomsDoomedOnce'
  <2>1. \A v \in Worker : Created(v)' => net'[v].room \in Room /\ net'[v].room # rule.room
                                         /\ ~ Doomed(net'[v].room)
    BY <1>7, HeldRooms DEF LInv, Ruled, RoomsHostedOnce, RoomsDoomedOnce, Created, rule
  <2>2. \A n \in Machine : Hosting(n)' =>
            job'[n].rule.room \in Room /\ job'[n].rule.room # rule.room
            /\ ~ Doomed(job'[n].rule.room)
    BY <1>8, HeldRooms DEF LInv, Ruled, RoomsHostedOnce, RoomsDoomedOnce, rule
  <2>3. \A r \in Room : Doomed(r)' => r \in issued /\ r \notin Codes
    BY <1>2, <1>9 DEF LInv, Ruled, RoomsDoomedOnce
  <2>4. QED
    BY <1>5, <1>9, <2>1, <2>2, <2>3 DEF RoomsDoomedOnce
<1>15. RoomsHostedOnce'
  BY <1>7, <1>8 DEF LInv, Ruled, RoomsHostedOnce, Created
<1>16. OnlyDeletes'
  BY <1>1, <1>2, <1>4, <1>5 DEF LInv, Ruled, OnlyDeletes
<1>17. ConnectionsOwned'
  BY <1>1, <1>3, <1>4, <1>6, LifecycleAssumption DEF LInv, Ruled, ConnectionsOwned, Conversing
<1>18. QED
  BY <1>10, <1>11, <1>12, <1>13, <1>14, <1>15, <1>16, <1>17 DEF Ruled

\* A failed local edit, which for a host starts the clean-up.
LEMMA FailingKeeps ==
  ASSUME LInv, NEW m \in Machine, job[m].pc = "saving", UNCHANGED <<vars, acked>>, Fails(m)
  PROVE  Ruled'
<1>1. CASE job[m].rule.role = "host"
  BY <1>1, CleaningKeeps DEF Fails, Hosting
<1>2. CASE job[m].rule.role # "host"
  <2>1. job[m].conn = None
    BY DEF LInv, Ruled, ConnectionsOwned, Conversing
  <2>2. QED
    BY <1>2, <2>1, DroppingKeeps DEF Fails
<1>3. QED
  BY <1>1, <1>2

LEMMA MachineKeeps ==
  ASSUME LInv, NEW m \in Machine,
         \/ CreateRoomHost(m) \/ JoinByCode(m) \/ DeleteRoomRule(m)
         \/ JobStep(m) \/ RestartMachine(m)
  PROVE  Ruled'
<1>1. job[m].pc \in {"posted", "cleaning"} => job[m].conn # None
  BY DEF LInv, Ruled, ConnectionsOwned, Conversing
<1>2. CASE CreateRoomHost(m)
  <2>1. None \in Opt(Room)
    BY DEF Opt
  <2>2. QED
    BY <1>2, <2>1, PostingKeeps DEF CreateRoomHost, Begin
<1>3. CASE JoinByCode(m)
  <2>1. Codes \subseteq Opt(Room)
    BY DEF LInv, LifecycleTypeOK, Codes, Rule, Opt
  <2>2. QED
    BY <1>3, <2>1, PostingKeeps DEF JoinByCode, Begin
<1>4. CASE DeleteRoomRule(m)
  <2>1. UNCHANGED <<mem, disk, issued, req, acked, job, net>>
    BY <1>4 DEF DeleteRoomRule, vars
  <2>2. QED
    BY <2>1 DEF LInv, Ruled, AckedKept, SavingKept, RepliesKept, JoinsCoded, RoomsDoomedOnce,
       RoomsHostedOnce, OnlyDeletes, ConnectionsOwned, Kept, Registered, ReplyRule, Granted,
       Codes, Created, Hosting, Doomed, Conversing
<1>5. CASE Receive(m)
  BY <1>5, ReceivingKeeps
<1>6. CASE GiveUp(m)
  BY <1>1, <1>6, DroppingKeeps DEF GiveUp
<1>7. CASE SaveRoomRule(m)
  BY <1>7, SavedKeeps, FailingKeeps DEF SaveRoomRule
<1>8. CASE CleanupEnds(m)
  BY <1>1, <1>8, DroppingKeeps DEF CleanupEnds
<1>9. CASE RestartMachine(m)
  BY <1>9, DroppingKeeps DEF RestartMachine
<1>10. QED
  BY <1>2, <1>3, <1>4, <1>5, <1>6, <1>7, <1>8, <1>9 DEF JobStep

-----------------------------------------------------------------------------
(* The steps of the control server that grant nothing.                      *)

\* Serving takes rules away only with a room that is being deleted, and makes no
\* new reply of success.
LEMMA ServingKeeps ==
  ASSUME LInv, UNCHANGED <<acked, job, issued>>,
         \A v \in Worker : net'[v] # None =>
            /\ net[v] # None
            /\ net'[v].kind = net[v].kind /\ net'[v].room = net[v].room
            /\ net'[v].late = net[v].late,
         \A v \in Worker : Granted(v)' => Granted(v) /\ ReplyRule(v)' = ReplyRule(v),
         \A v \in Worker : net'[v] = None => net[v] = None \/ net[v].late,
         \A v \in Worker : req'[v].pc # "idle" =>
            /\ req'[v].pc = "authed" /\ req'[v].op.kind = "deleteRoom"
            /\ Doomed(req'[v].op.room),
         \A rule \in Rule : Kept(rule) /\ ~ Doomed(rule.room) => Kept(rule)'
  PROVE  Ruled'
<1>1. acked' = acked /\ Codes' = Codes /\ job' = job /\ issued' = issued
  BY DEF Codes
<1>2. \A r \in Room : Doomed(r)' => Doomed(r)
  BY DEF Doomed
<1>3. \A v \in Worker : Created(v)' => Created(v) /\ net'[v].room = net[v].room
  BY DEF Created, Granted
<1>4. \A m \in Machine : Hosting(m)' => Hosting(m)
  BY <1>1 DEF Hosting
<1>5. \A r \in Codes : r \in Room /\ ~ Doomed(r)
  BY DEF LInv, LifecycleTypeOK, Ruled, RoomsDoomedOnce, Codes, Rule
<1>6. AckedKept'
  BY <1>1, <1>5 DEF LInv, LifecycleTypeOK, Ruled, AckedKept
<1>7. SavingKept'
  <2>1. \A m \in Machine : job[m].pc = "saving" => ~ Doomed(job[m].rule.room)
    BY <1>5 DEF LInv, Ruled, SavingKept, RoomsDoomedOnce, Hosting, Rule
  <2>2. QED
    BY <1>1, <2>1 DEF LInv, Ruled, SavingKept
<1>8. RepliesKept'
  <2>1. \A v \in Worker : Granted(v) => net[v].kind \in {"create", "join"}
    BY DEF LInv, LifecycleTypeOK, Opt, Exchange, Kinds, Granted
  <2>2. \A v \in Worker : Granted(v) => ~ Doomed(net[v].room)
    BY <1>5, <2>1 DEF LInv, Ruled, RepliesKept, RoomsDoomedOnce, Created
  <2>3. \A v \in Worker : ReplyRule(v).room = net[v].room
    BY DEF ReplyRule
  <2>4. QED
    BY <1>1, <2>2, <2>3 DEF LInv, Ruled, RepliesKept, Granted
<1>9. JoinsCoded'
  BY <1>1 DEF LInv, Ruled, JoinsCoded
<1>10. RoomsDoomedOnce'
  BY <1>1, <1>2, <1>3, <1>4, HeldRooms DEF LInv, Ruled, RoomsDoomedOnce
<1>11. RoomsHostedOnce'
  BY <1>1, <1>3, <1>4 DEF LInv, Ruled, RoomsHostedOnce
<1>12. OnlyDeletes'
  BY DEF LInv, Ruled, OnlyDeletes
<1>13. ConnectionsOwned'
  BY <1>1 DEF LInv, Ruled, ConnectionsOwned, Conversing
<1>14. QED
  BY <1>6, <1>7, <1>8, <1>9, <1>10, <1>11, <1>12, <1>13 DEF Ruled

\* An error reply: what the other connections carry is as before.
LEMMA RefusingReply ==
  ASSUME LInv, NEW w \in Worker, net[w] # None, net[w].state = "sent",
         NEW member \in Opt(Member), NEW res \in {"ok", "err"}, Reply(w, net[w].room, member, res),
         res = "err" \/ net[w].kind = "delete"
  PROVE  /\ \A v \in Worker : net'[v] # None =>
            /\ net[v] # None
            /\ net'[v].kind = net[v].kind /\ net'[v].room = net[v].room
            /\ net'[v].late = net[v].late
         /\ \A v \in Worker : Granted(v)' => Granted(v) /\ ReplyRule(v)' = ReplyRule(v)
         /\ \A v \in Worker : net'[v] = None => net[v] = None \/ net[v].late
<1>1. net[w] \in Exchange
  BY DEF LInv, LifecycleTypeOK, Opt
<1> DEFINE x == net[w]
           y == [x EXCEPT !.room = x.room, !.member = member, !.state = res]
<1>2. /\ y.kind = x.kind /\ y.room = x.room /\ y.late = x.late /\ y.state = res
  BY <1>1 DEF Exchange
<1>3. net'[w] = IF x.late THEN None ELSE y
  BY DEF LInv, LifecycleTypeOK, Reply
<1>4. \A v \in Worker : v # w => net'[v] = net[v]
  BY DEF LInv, LifecycleTypeOK, Reply
<1>5. y # None
  <2>1. y \in Exchange
    BY <1>1 DEF Exchange
  <2>2. QED
    BY <2>1, LifecycleAssumption
<1> HIDE DEF y
<1>6. net'[w] # None => ~ Granted(w)'
  BY <1>2, <1>3 DEF Granted
<1>7. \A v \in Worker : Granted(v)' => v # w
  BY <1>6 DEF Granted
<1>8. \A v \in Worker : net'[v] # None =>
            /\ net[v] # None
            /\ net'[v].kind = net[v].kind /\ net'[v].room = net[v].room
            /\ net'[v].late = net[v].late
  BY <1>2, <1>3, <1>4
<1>9. \A v \in Worker : Granted(v)' => Granted(v) /\ ReplyRule(v)' = ReplyRule(v)
  BY <1>4, <1>7 DEF Granted, ReplyRule
<1>10. QED
  BY <1>3, <1>4, <1>5, <1>8, <1>9

\* What is asked with credentials stays asked, or is answered.
LEMMA AskedStays ==
  ASSUME LInv, NEW w \in Worker, NEW res, Answer(w, res)
  PROVE  \A v \in Worker : req'[v].pc # "idle" =>
            /\ req'[v].pc = "authed" /\ req'[v].op.kind = "deleteRoom"
            /\ Doomed(req'[v].op.room)
<1>1. \A v \in Worker : req'[v] = IF v = w THEN Idle(res) ELSE req[v]
  BY DEF LInv, IInv, TypeOK, Answer
<1>2. QED
  BY <1>1 DEF LInv, Ruled, OnlyDeletes, Doomed, Idle

LEMMA FrpcLoginKeeps == ASSUME LInv, NEW w \in Worker, FrpcLogin(w) PROVE Ruled'
<1>1. PICK res : Answer(w, res)
  BY DEF FrpcLogin, RoomLogin, UpdateThenAnswer
<1>2. UNCHANGED <<acked, job, issued, net>>
  BY DEF FrpcLogin, RoomLogin, clientVars
<1>3. \A v \in Worker : Granted(v)' => Granted(v) /\ ReplyRule(v)' = ReplyRule(v)
  BY <1>2 DEF Granted, ReplyRule
<1>4. \A rule \in Rule : Kept(rule) => Kept(rule)'
  BY ReadingKeeps DEF FrpcLogin
<1>5. QED
  BY <1>1, <1>2, <1>3, <1>4, AskedStays, ServingKeeps

LEMMA ServeAuthKeeps == ASSUME LInv, NEW w \in Worker, ServeAuth(w) PROVE Ruled'
<1>1. net[w] # None /\ net[w].state = "sent" /\ net[w].kind = "delete" /\ net[w] \in Exchange
  BY DEF LInv, LifecycleTypeOK, Opt, ServeAuth, Waiting
<1>2. UNCHANGED <<acked, job, issued>>
  BY DEF ServeAuth, Authenticate
<1>3. \A rule \in Rule : Kept(rule) => Kept(rule)'
  BY ReadingKeeps DEF ServeAuth
<1>4. CASE req'[w].pc = "authed"
  <2>1. \A v \in Worker : v # w => req'[v] = req[v]
    BY DEF LInv, IInv, TypeOK, ServeAuth, Authenticate, Answer
  <2>2. req'[w].op.kind = "deleteRoom" /\ req'[w].op.room = net[w].room /\ net' = net
    BY <1>4 DEF ServeAuth, DeleteOp
  <2>3. \A v \in Worker : req'[v].pc # "idle" =>
            /\ req'[v].pc = "authed" /\ req'[v].op.kind = "deleteRoom"
            /\ Doomed(req'[v].op.room)
    BY <1>1, <1>4, <2>1, <2>2 DEF LInv, Ruled, OnlyDeletes, Doomed
  <2>4. \A v \in Worker : Granted(v)' => Granted(v) /\ ReplyRule(v)' = ReplyRule(v)
    BY <2>2 DEF Granted, ReplyRule
  <2>5. QED
    BY <1>2, <1>3, <2>2, <2>3, <2>4, ServingKeeps
<1>5. CASE req'[w].pc # "authed"
  <2>1. Answer(w, "err")
    BY <1>5 DEF LInv, IInv, TypeOK, ServeAuth, Authenticate
  <2>2. net[w].member \in Opt(Member) /\ Reply(w, net[w].room, net[w].member, "err")
    BY <1>1, <1>5 DEF Exchange, ServeAuth
  <2>3. QED
    BY <1>1, <1>2, <1>3, <2>1, <2>2, AskedStays, RefusingReply, ServingKeeps
<1>6. QED
  BY <1>4, <1>5

LEMMA ServeDeleteKeeps == ASSUME LInv, NEW w \in Worker, ServeDelete(w) PROVE Ruled'
<1>1. net[w] # None /\ net[w].state = "sent" /\ net[w].kind = "delete" /\ net[w] \in Exchange
  BY DEF LInv, LifecycleTypeOK, Opt, ServeDelete, Waiting
<1>2. UNCHANGED <<acked, job, issued>>
  BY DEF ServeDelete, DeleteRoom, Refuse
<1>3. PICK res \in {"ok", "err"} : Answer(w, res)
  BY DEF ServeDelete, DeleteRoom, Refuse, UpdateThenAnswer
<1>4. net[w].member \in Opt(Member) /\ Reply(w, net[w].room, net[w].member, res)
  <2>1. req'[w].res = res
    BY <1>3 DEF LInv, IInv, TypeOK, Answer, Idle
  <2>2. QED
    BY <1>1, <2>1 DEF Exchange, ServeDelete
<1>5. \A rule \in Rule : Kept(rule) /\ ~ Doomed(rule.room) => Kept(rule)'
  <2>1. Doomed(req[w].op.room)
    BY DEF ServeDelete, DeleteRoom, Authed, Doomed
  <2>2. QED
    BY <2>1, DeletingKeeps DEF LInv, ServeDelete
<1>6. QED
  BY <1>1, <1>2, <1>3, <1>4, <1>5, AskedStays, RefusingReply, ServingKeeps

LEMMA RestartServerKeeps == ASSUME LInv, RestartServer PROVE Ruled'
<1>1. UNCHANGED <<acked, job, issued>>
  BY DEF RestartServer, Restart
<1>2. \A v \in Worker : req'[v].pc = "idle"
  BY DEF RestartServer, Restart, Idle
<1>3. \A v \in Worker : net[v] # None => net[v] \in Exchange
  BY DEF LInv, LifecycleTypeOK, Opt
<1>4. \A v \in Worker :
        net'[v] = IF net[v] = None \/ net[v].late THEN None
                  ELSE IF net[v].state = "sent" THEN [net[v] EXCEPT !.state = "err"] ELSE net[v]
  BY DEF RestartServer
<1>5. \A v \in Worker : net[v] # None =>
        LET x == [net[v] EXCEPT !.state = "err"] IN
        /\ x.kind = net[v].kind /\ x.room = net[v].room /\ x.late = net[v].late
        /\ x.state = "err" /\ x # None
  <2>1. ASSUME NEW v \in Worker, net[v] # None
        PROVE  [net[v] EXCEPT !.state = "err"] \in Exchange
    BY <1>3, <2>1 DEF Exchange
  <2>2. QED
    BY <1>3, <2>1, LifecycleAssumption DEF Exchange
<1>6. \A v \in Worker : net'[v] # None =>
        /\ net[v] # None
        /\ net'[v].kind = net[v].kind /\ net'[v].room = net[v].room
        /\ net'[v].late = net[v].late
  BY <1>4, <1>5
<1>7. \A v \in Worker : Granted(v)' => Granted(v) /\ ReplyRule(v)' = ReplyRule(v)
  BY <1>4, <1>5 DEF Granted, ReplyRule
<1>8. \A v \in Worker : net'[v] = None => net[v] = None \/ net[v].late
  BY <1>4, <1>5
<1>9. \A rule \in Rule : Kept(rule) => Kept(rule)'
  BY RestartKeeps DEF RestartServer
<1>10. QED
  BY <1>1, <1>2, <1>6, <1>7, <1>8, <1>9, ServingKeeps

-----------------------------------------------------------------------------
(* The steps of the control server that grant a rule.                       *)

\* The rooms with a code, and the rooms being deleted, were issued.
LEMMA CodesIssued ==
  ASSUME LInv
  PROVE  \A r \in Codes : r \in Room \intersect issued
BY KeptIsIssued DEF LInv, LifecycleTypeOK, Ruled, AckedKept, Codes

\* A reply of success brings a rule that is kept, of a new room for a creation.
LEMMA GrantingKeeps ==
  ASSUME LInv, NEW w \in Worker, UNCHANGED <<acked, job>>, issued \subseteq issued',
         net[w] # None, net[w].state = "sent", net[w].kind \in {"create", "join"},
         \A v \in Worker : v # w => net'[v] = net[v],
         net'[w] = None => net[w].late,
         net'[w] # None =>
            /\ net'[w].kind = net[w].kind /\ net'[w].late = net[w].late
            /\ net[w].kind = "join" => net'[w].room = net[w].room
            /\ net'[w].state = "ok" =>
                  /\ ReplyRule(w)' \in Rule
                  /\ Kept(ReplyRule(w))'
                  /\ net[w].kind = "create" => net'[w].room \notin issued,
         \A rule \in Rule : Kept(rule) => Kept(rule)',
         NEW res, Answer(w, res)
  PROVE  Ruled'
<1>1. acked' = acked /\ Codes' = Codes /\ job' = job
  BY DEF Codes
<1>2. \A v \in Worker : req'[v].pc # "idle" => req'[v] = req[v]
  BY DEF LInv, IInv, TypeOK, Answer, Idle
<1>3. \A r \in Room : Doomed(r)' => Doomed(r)
  <2>1. \A v \in Worker : net'[v] # None /\ net'[v].kind = "delete" => net'[v] = net[v]
    OBVIOUS
  <2>2. \A v \in Worker : req'[v].pc = "authed" => req'[v] = req[v]
    BY <1>2
  <2>3. QED
    BY <2>1, <2>2 DEF Doomed
<1>4. \A v \in Worker : v # w => (Granted(v)' => Granted(v) /\ ReplyRule(v)' = ReplyRule(v)
                                                 /\ net'[v] = net[v])
  BY DEF Granted, ReplyRule
<1>5. Granted(w)' => net'[w] # None /\ net'[w].state = "ok"
  BY DEF Granted
<1>6. \A m \in Machine : Hosting(m)' <=> Hosting(m)
  BY <1>1 DEF Hosting
<1>7. \A r \in Codes : r \in Room \intersect issued
  BY CodesIssued
<1>8. Created(w)' => net'[w].room \in Room /\ net'[w].room \notin issued
  BY <1>5 DEF Created, Rule, ReplyRule
<1>9. \A v \in Worker : v # w => (Created(v)' => Created(v) /\ net'[v] = net[v])
  BY <1>4 DEF Created
<1>10. AckedKept'
  BY <1>1 DEF LInv, LifecycleTypeOK, Ruled, AckedKept
<1>11. SavingKept'
  BY <1>1 DEF LInv, Ruled, SavingKept
<1>12. RepliesKept'
  <2>1. Granted(w)' => /\ ReplyRule(w)' \in Rule
                       /\ Kept(ReplyRule(w))'
                       /\ (net'[w].kind = "join" <=> net'[w].room \in Codes)
    BY <1>5, <1>7 DEF LInv, Ruled, JoinsCoded
  <2>2. ASSUME NEW v \in Worker, v # w, Granted(v)'
        PROVE  /\ ReplyRule(v)' \in Rule
               /\ Kept(ReplyRule(v))'
               /\ (net'[v].kind = "join" <=> net'[v].room \in Codes)
    <3>1. Granted(v) /\ ReplyRule(v)' = ReplyRule(v) /\ net'[v] = net[v]
      BY <1>4, <2>2
    <3>2. QED
      BY <3>1 DEF LInv, Ruled, RepliesKept, Kept
  <2>3. QED
    BY <1>1, <2>1, <2>2 DEF RepliesKept
<1>13. JoinsCoded'
  BY <1>1 DEF LInv, Ruled, JoinsCoded
<1>14. RoomsDoomedOnce'
  <2>1. \A v \in Worker : Created(v)' => net'[v].room \in Room /\ ~ Doomed(net'[v].room)
    BY <1>8, <1>9, HeldRooms DEF LInv, Ruled, RoomsDoomedOnce
  <2>2. QED
    BY <1>1, <1>3, <1>6, <2>1, HeldRooms DEF LInv, Ruled, RoomsDoomedOnce
<1>15. RoomsHostedOnce'
  BY <1>1, <1>6, <1>8, <1>9, HeldRooms DEF LInv, Ruled, RoomsHostedOnce
<1>16. OnlyDeletes'
  BY <1>2 DEF LInv, Ruled, OnlyDeletes
<1>17. ConnectionsOwned'
  BY <1>1 DEF LInv, Ruled, ConnectionsOwned, Conversing
<1>18. QED
  BY <1>10, <1>11, <1>12, <1>13, <1>14, <1>15, <1>16, <1>17 DEF Ruled

\* What the reply to a creation or a join is.
LEMMA GrantingReply ==
  ASSUME LInv, NEW w \in Worker, net[w] # None,
         NEW room \in Room, NEW member \in Member, NEW res \in {"ok", "err"},
         Reply(w, room, member, res)
  PROVE  /\ \A v \in Worker : v # w => net'[v] = net[v]
         /\ net'[w] = None => net[w].late
         /\ net'[w] # None =>
              /\ net'[w].kind = net[w].kind /\ net'[w].late = net[w].late
              /\ net'[w].room = room /\ net'[w].member = member /\ net'[w].state = res
<1>1. net[w] \in Exchange
  BY DEF LInv, LifecycleTypeOK, Opt
<1> DEFINE x == net[w]
           y == [x EXCEPT !.room = room, !.member = member, !.state = res]
<1>2. /\ y.kind = x.kind /\ y.late = x.late
      /\ y.room = room /\ y.member = member /\ y.state = res
  BY <1>1 DEF Exchange
<1>3. y # None
  <2>1. y \in Exchange
    BY <1>1 DEF Exchange, Opt
  <2>2. QED
    BY <2>1, LifecycleAssumption
<1>4. net'[w] = IF x.late THEN None ELSE y
  BY DEF LInv, LifecycleTypeOK, Reply
<1>5. \A v \in Worker : v # w => net'[v] = net[v]
  BY DEF LInv, LifecycleTypeOK, Reply
<1> HIDE DEF y
<1>6. QED
  BY <1>2, <1>3, <1>4, <1>5

LEMMA UpdateOutcome ==
  ASSUME LInv, NEW w \in Worker, CreateRoom(w) \/ JoinRoom(w)
  PROVE  /\ \E res \in {"ok", "err"} :
              Answer(w, res) /\ req'[w].res = res /\ (res = "ok" => disk' = mem')
         /\ issued \subseteq issued'
<1>1. PICK d : UpdateThenAnswer(w, d)
  BY DEF CreateRoom, JoinRoom
<1>2. PICK res \in {"ok", "err"} : Answer(w, res) /\ (res = "ok" => disk' = mem')
  BY <1>1 DEF UpdateThenAnswer, Saved
<1>3. req'[w].res = res
  BY <1>2 DEF LInv, IInv, TypeOK, Answer, Idle
<1>4. QED
  BY <1>2, <1>3 DEF CreateRoom, JoinRoom, Issue

LEMMA ServeCreateKeeps == ASSUME LInv, NEW w \in Worker, ServeCreate(w) PROVE Ruled'
<1>1. net[w] # None /\ net[w].state = "sent" /\ net[w].kind = "create" /\ CreateRoom(w)
  BY DEF ServeCreate, Waiting
<1>2. PICK res \in {"ok", "err"} :
         Answer(w, res) /\ req'[w].res = res /\ (res = "ok" => disk' = mem')
  BY <1>1, UpdateOutcome
<1>3. PICK r \in Room \ issued, x \in Member \ issued :
         mem'.rooms[r] # None /\ mem'.rooms[r].host = x /\ Reply(w, r, x, res)
  BY <1>2 DEF ServeCreate
<1>4. /\ \A v \in Worker : v # w => net'[v] = net[v]
      /\ net'[w] = None => net[w].late
      /\ net'[w] # None =>
            /\ net'[w].kind = net[w].kind /\ net'[w].late = net[w].late
            /\ net'[w].room = r /\ net'[w].member = x /\ net'[w].state = res
  BY <1>1, <1>3, GrantingReply
<1>5. mem'.members[x] = [room |-> r, role |-> "host"]
  <2>1. IInv'
    BY <1>1, CreateRoomOK DEF LInv
  <2>2. mem' \in Data /\ RoomsHosted(mem')
    BY <2>1 DEF IInv, TypeOK, Sound, Consistent
  <2>3. QED
    BY <1>3, <2>2 DEF RoomsHosted, Present, Data
<1>6. net'[w] # None /\ res = "ok" => ReplyRule(w)' \in Rule /\ Kept(ReplyRule(w))'
  <2>1. net'[w] # None => ReplyRule(w)' = [role |-> "host", room |-> r, member |-> x]
    BY <1>1, <1>4 DEF ReplyRule
  <2>2. [role |-> "host", room |-> r, member |-> x] \in Rule
    BY DEF Rule
  <2>3. res = "ok" => Kept([role |-> "host", room |-> r, member |-> x])'
    BY <1>2, <1>3, <1>5 DEF Kept, Registered
  <2>4. QED
    BY <2>1, <2>2, <2>3 DEF Kept
<1>7. \A rule \in Rule : Kept(rule) => Kept(rule)'
  BY <1>1, CreatingKeeps DEF LInv
<1>8. UNCHANGED <<acked, job>> /\ issued \subseteq issued'
  BY <1>1, UpdateOutcome DEF ServeCreate
<1>9. QED
  BY <1>1, <1>2, <1>4, <1>6, <1>7, <1>8, GrantingKeeps

LEMMA ServeJoinKeeps == ASSUME LInv, NEW w \in Worker, ServeJoin(w) PROVE Ruled'
<1>1. net[w] # None /\ net[w].state = "sent" /\ net[w].kind = "join" /\ JoinRoom(w)
  BY DEF ServeJoin, Waiting
<1>2. PICK res \in {"ok", "err"} :
         Answer(w, res) /\ req'[w].res = res /\ (res = "ok" => disk' = mem')
  BY <1>1, UpdateOutcome
<1>3. PICK r \in Room : r = net[w].room /\ r \in Codes
  BY <1>1, CodesIssued DEF LInv, Ruled, JoinsCoded
<1>4. PICK x \in Member \ issued :
         mem'.members[x] = [room |-> r, role |-> "visitor"] /\ Reply(w, r, x, res)
  BY <1>2, <1>3 DEF ServeJoin
<1>5. /\ \A v \in Worker : v # w => net'[v] = net[v]
      /\ net'[w] = None => net[w].late
      /\ net'[w] # None =>
            /\ net'[w].kind = net[w].kind /\ net'[w].late = net[w].late
            /\ net'[w].room = r /\ net'[w].member = x /\ net'[w].state = res
  BY <1>1, <1>3, <1>4, GrantingReply
<1>6. \A rule \in Rule : Kept(rule) => Kept(rule)'
  BY <1>1, CreatingKeeps DEF LInv
<1>7. mem'.rooms[r] # None
  <2>1. PICK rule \in acked : rule.room = r
    BY <1>3 DEF Codes
  <2>2. Kept(rule)'
    BY <1>6 DEF LInv, LifecycleTypeOK, Ruled, AckedKept
  <2>3. QED
    BY <2>1, <2>2 DEF Kept, Registered
<1>8. net'[w] # None /\ res = "ok" => ReplyRule(w)' \in Rule /\ Kept(ReplyRule(w))'
  <2>1. net'[w] # None => ReplyRule(w)' = [role |-> "visitor", room |-> r, member |-> x]
    BY <1>1, <1>5 DEF ReplyRule
  <2>2. [role |-> "visitor", room |-> r, member |-> x] \in Rule
    BY <1>3 DEF Rule
  <2>3. res = "ok" => Kept([role |-> "visitor", room |-> r, member |-> x])'
    BY <1>2, <1>4, <1>7 DEF Kept, Registered
  <2>4. QED
    BY <2>1, <2>2, <2>3 DEF Kept
<1>9. UNCHANGED <<acked, job>> /\ issued \subseteq issued'
  BY <1>1, UpdateOutcome DEF ServeJoin
<1>10. QED
  BY <1>1, <1>2, <1>3, <1>5, <1>6, <1>8, <1>9, GrantingKeeps

-----------------------------------------------------------------------------
(* Types.                                                                   *)

LEMMA NoJobTyped == ASSUME NEW res \in {"none", "ok", "err"} PROVE NoJob(res) \in Jobs
BY DEF NoJob, Jobs, Opt

LEMMA ReplyTyped ==
  ASSUME LifecycleTypeOK, NEW w \in Worker, net[w] # None, NEW room \in Opt(Room),
         NEW member \in Opt(Member), NEW res \in {"ok", "err"}, Reply(w, room, member, res)
  PROVE  net' \in [Worker -> Opt(Exchange)]
<1>1. net[w] \in Exchange
  BY DEF LifecycleTypeOK, Opt
<1>2. [net[w] EXCEPT !.room = room, !.member = member, !.state = res] \in Exchange
  BY <1>1 DEF Exchange
<1>3. QED
  BY <1>2 DEF LifecycleTypeOK, Reply, Opt

LEMMA HangUpTyped ==
  ASSUME LifecycleTypeOK, NEW w \in Worker, net[w] # None, HangUp(w)
  PROVE  net' \in [Worker -> Opt(Exchange)]
<1>1. [net[w] EXCEPT !.late = TRUE] \in Exchange
  BY DEF LifecycleTypeOK, Opt, Exchange
<1>2. QED
  BY <1>1 DEF LifecycleTypeOK, HangUp, Opt

LEMMA SendTyped ==
  ASSUME LifecycleTypeOK, NEW m \in Machine, NEW kind \in Kinds, NEW room \in Opt(Room),
         NEW member \in Opt(Member), NEW pc \in {"posted", "cleaning"}, NEW rule \in Opt(Rule),
         Send(m, kind, room, member, pc, rule)
  PROVE  net' \in [Worker -> Opt(Exchange)] /\ job' \in [Machine -> Jobs]
<1>1. PICK w \in Worker :
         /\ net' = [net EXCEPT ![w] = [kind |-> kind, room |-> room, member |-> member,
                                       state |-> "sent", late |-> FALSE]]
         /\ job' = [job EXCEPT ![m] = [pc |-> pc, kind |-> kind, conn |-> w,
                                       rule |-> rule, res |-> "none"]]
  BY DEF Send
<1>2. [kind |-> kind, room |-> room, member |-> member, state |-> "sent", late |-> FALSE]
      \in Opt(Exchange)
  BY DEF Exchange, Opt
<1>3. [pc |-> pc, kind |-> kind, conn |-> w, rule |-> rule, res |-> "none"] \in Jobs
  BY DEF Jobs, Opt
<1>4. QED
  BY <1>1, <1>2, <1>3 DEF LifecycleTypeOK

LEMMA RoomsTyped ==
  ASSUME LifecycleTypeOK, NEW w \in Worker, net[w] # None
  PROVE  net[w].room \in Opt(Room) /\ net[w].member \in Opt(Member) /\ net[w].late \in BOOLEAN
BY DEF LifecycleTypeOK, Opt, Exchange

LEMMA ServeTyped ==
  ASSUME LInv, NEW w \in Worker, Serve(w)
  PROVE  LifecycleTypeOK'
<1>1. ASSUME UNCHANGED <<local, acked, job, jobs>>, excused' \subseteq Opt(Room),
             net' \in [Worker -> Opt(Exchange)]
      PROVE  LifecycleTypeOK'
  BY <1>1 DEF LInv, LifecycleTypeOK
<1>2. /\ LifecycleTypeOK /\ excused \subseteq Opt(Room) /\ net \in [Worker -> Opt(Exchange)]
      /\ Room \subseteq Opt(Room) /\ Member \subseteq Opt(Member)
  BY DEF LInv, LifecycleTypeOK, Opt
<1>3. CASE ServeCreate(w)
  <2>1. net[w] # None /\ CreateRoom(w)
    BY <1>3 DEF ServeCreate, Waiting
  <2>2. req'[w].res \in {"ok", "err"}
    BY <2>1, UpdateOutcome
  <2>3. PICK r \in Room, x \in Member :
           Reply(w, r, x, req'[w].res) /\ excused' \subseteq excused \union {r}
    BY <1>3 DEF ServeCreate, Excuse
  <2>4. net' \in [Worker -> Opt(Exchange)]
    BY <1>2, <2>1, <2>2, <2>3, ReplyTyped
  <2>5. QED
    BY <1>1, <1>2, <1>3, <2>3, <2>4 DEF ServeCreate
<1>4. CASE ServeJoin(w)
  <2>1. net[w] # None /\ JoinRoom(w)
    BY <1>4 DEF ServeJoin, Waiting
  <2>2. req'[w].res \in {"ok", "err"}
    BY <2>1, UpdateOutcome
  <2>3. PICK x \in Member : Reply(w, net[w].room, x, req'[w].res)
    BY <1>4 DEF ServeJoin
  <2>4. net' \in [Worker -> Opt(Exchange)]
    BY <1>2, <2>1, <2>2, <2>3, RoomsTyped, ReplyTyped
  <2>5. QED
    BY <1>1, <1>2, <1>4, <2>4 DEF ServeJoin
<1>5. CASE ServeAuth(w)
  <2>1. net[w] # None
    BY <1>5 DEF ServeAuth, Waiting
  <2>2. \/ UNCHANGED <<net, excused>>
        \/ /\ Reply(w, net[w].room, net[w].member, "err")
           /\ excused' = excused \union {net[w].room}
    BY <1>5 DEF ServeAuth, Excuse
  <2>3. net' \in [Worker -> Opt(Exchange)] /\ excused' \subseteq Opt(Room)
    BY <1>2, <2>1, <2>2, RoomsTyped, ReplyTyped
  <2>4. QED
    BY <1>1, <1>5, <2>3 DEF ServeAuth
<1>6. CASE ServeDelete(w)
  <2>1. net[w] # None
    BY <1>6 DEF ServeDelete, Waiting
  <2>2. req'[w].res \in {"ok", "err"}
    BY <1>6 DEF ServeDelete, DeleteRoom, Refuse, UpdateThenAnswer, Answer, LInv, IInv, TypeOK, Idle
  <2>3. /\ Reply(w, net[w].room, net[w].member, req'[w].res)
        /\ excused' \subseteq excused \union {net[w].room}
    BY <1>6 DEF ServeDelete, Excuse
  <2>4. net' \in [Worker -> Opt(Exchange)]
    BY <1>2, <2>1, <2>2, <2>3, RoomsTyped, ReplyTyped
  <2>5. QED
    BY <1>1, <1>2, <1>6, <2>1, <2>3, <2>4, RoomsTyped DEF ServeDelete
<1>7. CASE FrpcLogin(w)
  BY <1>1, <1>2, <1>7 DEF FrpcLogin, clientVars
<1>8. QED
  BY <1>3, <1>4, <1>5, <1>6, <1>7 DEF Serve

LEMMA RestartServerTyped == ASSUME LInv, RestartServer PROVE LifecycleTypeOK'
<1>1. \A w \in Worker : net[w] # None => [net[w] EXCEPT !.state = "err"] \in Exchange
  BY DEF LInv, LifecycleTypeOK, Opt, Exchange
<1>2. net' \in [Worker -> Opt(Exchange)]
  BY <1>1 DEF LInv, LifecycleTypeOK, Opt, RestartServer
<1>3. excused' \subseteq Opt(Room)
  BY RoomsTyped DEF LInv, LifecycleTypeOK, RestartServer, Waiting
<1>4. QED
  BY <1>2, <1>3 DEF LInv, LifecycleTypeOK, RestartServer

LEMMA MachineTyped ==
  ASSUME LInv, NEW m \in Machine,
         \/ CreateRoomHost(m) \/ JoinByCode(m) \/ DeleteRoomRule(m)
         \/ JobStep(m) \/ RestartMachine(m)
  PROVE  LifecycleTypeOK'
<1>1. /\ LifecycleTypeOK
      /\ local \in [Machine -> [mem : SUBSET Rule, disk : SUBSET Rule]]
      /\ local[m].mem \subseteq Rule /\ local[m].disk \subseteq Rule
      /\ acked \subseteq Rule
      /\ job \in [Machine -> Jobs]
      /\ net \in [Worker -> Opt(Exchange)]
      /\ jobs \in 0..MaxJobs
      /\ excused \subseteq Opt(Room)
  BY DEF LInv, LifecycleTypeOK
<1>2. Begin(m) => jobs' \in 0..MaxJobs
  BY <1>1, LifecycleAssumption DEF Begin
<1>3. Conversing(m) => job[m].conn \in Worker /\ net[job[m].conn] # None
  BY DEF LInv, Ruled, ConnectionsOwned
<1>4. job[m].pc = "saving" => job[m].rule \in Rule /\ job[m].conn = None
  BY DEF LInv, Ruled, SavingKept, ConnectionsOwned, Conversing
<1>5. CASE CreateRoomHost(m)
  <2>1. net' \in [Worker -> Opt(Exchange)] /\ job' \in [Machine -> Jobs]
    BY <1>1, <1>5, SendTyped DEF CreateRoomHost, Kinds, Opt
  <2>2. QED
    BY <1>1, <1>2, <1>5, <2>1 DEF CreateRoomHost, LifecycleTypeOK
<1>6. CASE JoinByCode(m)
  <2>1. PICK r \in Codes : Send(m, "join", r, None, "posted", None)
    BY <1>6 DEF JoinByCode
  <2>2. r \in Opt(Room) /\ None \in Opt(Member) /\ None \in Opt(Rule) /\ "join" \in Kinds
    BY <1>1 DEF Codes, Rule, Opt, Kinds
  <2>3. net' \in [Worker -> Opt(Exchange)] /\ job' \in [Machine -> Jobs]
    BY <1>1, <2>1, <2>2, SendTyped
  <2>4. QED
    BY <1>1, <1>2, <1>6, <2>3 DEF JoinByCode, LifecycleTypeOK
<1>7. CASE DeleteRoomRule(m)
  <2>1. PICK rule \in local[m].mem :
           LET left == local[m].mem \ {rule} IN
           /\ \/ local' = [local EXCEPT ![m] = [mem |-> left, disk |-> left]]
              \/ local' = [local EXCEPT ![m].mem = left]
           /\ excused' \subseteq excused \union {rule.room}
    BY <1>7 DEF DeleteRoomRule, Excuse
  <2>2. excused' \subseteq Opt(Room)
    BY <1>1, <2>1 DEF Rule, Opt
  <2>3. local' \in [Machine -> [mem : SUBSET Rule, disk : SUBSET Rule]]
    BY <1>1, <2>1
  <2>4. QED
    BY <1>1, <1>2, <1>7, <2>2, <2>3 DEF DeleteRoomRule, LifecycleTypeOK
<1>8. CASE Receive(m)
  <2>1. job[m].conn \in Worker /\ net[job[m].conn] # None
    BY <1>3, <1>8 DEF Receive, Conversing
  <2>2. net' \in [Worker -> Opt(Exchange)]
    BY <1>1, <1>8 DEF Receive, Opt
  <2>3. CASE net[job[m].conn].state = "err"
    BY <1>1, <1>8, <2>2, <2>3, NoJobTyped DEF Receive, LifecycleTypeOK
  <2>4. CASE net[job[m].conn].state # "err"
    <3>1. Granted(job[m].conn)
      BY <1>8, <2>1, <2>4 DEF LInv, LifecycleTypeOK, Opt, Exchange, Ruled, ConnectionsOwned,
         Conversing, Receive, Granted
    <3>2. ReplyRule(job[m].conn) \in Rule
      BY <2>1, <3>1 DEF LInv, Ruled, RepliesKept
    <3>3. job' = [job EXCEPT ![m] = [job[m] EXCEPT !.pc = "saving", !.conn = None,
                                                   !.rule = ReplyRule(job[m].conn)]]
      BY <1>8, <2>4 DEF Receive, ReplyRule
    <3>4. job' \in [Machine -> Jobs]
      BY <1>1, <3>2, <3>3 DEF Jobs, Opt
    <3>5. QED
      BY <1>1, <1>8, <2>2, <3>4 DEF Receive, LifecycleTypeOK
  <2>5. QED
    BY <2>3, <2>4
<1>9. CASE GiveUp(m) \/ CleanupEnds(m)
  <2>1. job[m].conn \in Worker /\ net[job[m].conn] # None
    BY <1>3, <1>9 DEF GiveUp, CleanupEnds, Conversing
  <2>2. net' \in [Worker -> Opt(Exchange)]
    BY <1>1, <1>9, <2>1, HangUpTyped DEF GiveUp, CleanupEnds
  <2>3. excused' \subseteq Opt(Room)
    BY <1>1, <1>9, <2>1, RoomsTyped DEF GiveUp, CleanupEnds, Unclaimed
  <2>4. QED
    BY <1>1, <1>9, <2>2, <2>3, NoJobTyped DEF GiveUp, CleanupEnds, LifecycleTypeOK
<1>10. CASE SaveRoomRule(m)
  <2>1. job[m].rule \in Rule
    BY <1>4, <1>10 DEF SaveRoomRule
  <2>2. Fails(m) => net' \in [Worker -> Opt(Exchange)] /\ job' \in [Machine -> Jobs]
    <3>1. job[m].rule.room \in Opt(Room) /\ job[m].rule.member \in Opt(Member)
          /\ job[m].rule \in Opt(Rule) /\ "delete" \in Kinds
      BY <2>1 DEF Rule, Opt, Kinds
    <3>2. QED
      BY <1>1, <3>1, SendTyped, NoJobTyped DEF Fails
  <2>3. /\ local' \in [Machine -> [mem : SUBSET Rule, disk : SUBSET Rule]]
        /\ acked' \subseteq Rule
    BY <1>1, <1>10, <2>1 DEF SaveRoomRule
  <2>4. net' \in [Worker -> Opt(Exchange)] /\ job' \in [Machine -> Jobs]
    BY <1>1, <1>10, <2>2, NoJobTyped DEF SaveRoomRule
  <2>5. QED
    BY <1>1, <1>10, <2>3, <2>4 DEF SaveRoomRule, LifecycleTypeOK
<1>11. CASE RestartMachine(m)
  <2>1. jobs' \in 0..MaxJobs
    BY <1>1, <1>11, LifecycleAssumption DEF RestartMachine
  <2>2. job[m].conn # None => job[m].conn \in Worker /\ net[job[m].conn] # None
    BY <1>3 DEF LInv, Ruled, ConnectionsOwned
  <2>3. net' \in [Worker -> Opt(Exchange)]
    BY <1>1, <1>11, <2>2, HangUpTyped DEF RestartMachine
  <2>4. job' \in [Machine -> Jobs]
    BY <1>1, <1>11, NoJobTyped DEF RestartMachine
  <2>5. local' \in [Machine -> [mem : SUBSET Rule, disk : SUBSET Rule]]
    <3>1. PICK rules \in SUBSET Rule :
             local' = [local EXCEPT ![m] = [mem |-> rules, disk |-> rules]]
      BY <1>1, <1>4, <1>11 DEF RestartMachine
    <3>2. QED
      BY <1>1, <3>1
  <2>6. excused' \subseteq Opt(Room)
    <3>1. job[m].rule # None => job[m].rule.room \in Room
      BY <1>1 DEF Jobs, Opt, Rule
    <3>2. \A x \in local[m].mem : x.room \in Room
      BY <1>1 DEF Rule
    <3>3. job[m].conn # None => Unclaimed(job[m].conn) \subseteq Opt(Room)
      BY <1>1, <2>2, RoomsTyped DEF Unclaimed
    <3>4. QED
      BY <1>1, <1>11, <3>1, <3>2, <3>3 DEF RestartMachine, Opt
  <2>7. QED
    BY <1>1, <1>11, <2>1, <2>3, <2>4, <2>5, <2>6 DEF RestartMachine, LifecycleTypeOK
<1>12. QED
  BY <1>5, <1>6, <1>7, <1>8, <1>9, <1>10, <1>11 DEF JobStep

-----------------------------------------------------------------------------
(* The theorems.                                                            *)

LEMMA LifecycleInitOK == ASSUME LifecycleInit PROVE LInv
<1>1. IInv
  BY InitOK DEF LifecycleInit
<1>2. Codes = {}
  BY DEF LifecycleInit, Codes
<1>3. /\ \A m \in Machine : job[m].pc = "idle" /\ job[m].conn = None
      /\ \A w \in Worker : net[w] = None /\ req[w].pc = "idle"
  BY DEF LifecycleInit, NoJob, Init, Idle
<1>4. LifecycleTypeOK
  <2>1. job \in [Machine -> Jobs] /\ None \in Opt(Exchange) /\ 0 \in 0..MaxJobs
    BY NoJobTyped, LifecycleAssumption DEF LifecycleInit, Opt
  <2>2. QED
    BY <2>1 DEF LifecycleInit, LifecycleTypeOK
<1>5. Ruled
  BY <1>2, <1>3 DEF LifecycleInit, Ruled, AckedKept, SavingKept, RepliesKept, JoinsCoded,
     RoomsDoomedOnce, RoomsHostedOnce, OnlyDeletes, ConnectionsOwned, Granted, Created,
     Hosting, Doomed, Conversing
<1>6. QED
  BY <1>1, <1>4, <1>5 DEF LInv

LEMMA LifecycleNextOK == ASSUME LInv, [LifecycleNext]_lifecycleVars PROVE LInv'
<1>1. IInv'
  BY StepIsServerStep, NextOK DEF LInv
<1>2. CASE UNCHANGED lifecycleVars
  <2>1. UNCHANGED <<mem, disk, issued, req, acked, job, net, local, jobs, excused>>
    BY <1>2 DEF lifecycleVars, clientVars, vars
  <2>2. Ruled'
    BY <2>1 DEF LInv, Ruled, AckedKept, SavingKept, RepliesKept, JoinsCoded, RoomsDoomedOnce,
       RoomsHostedOnce, OnlyDeletes, ConnectionsOwned, Kept, Registered, ReplyRule, Granted,
       Codes, Created, Hosting, Doomed, Conversing
  <2>3. LifecycleTypeOK'
    BY <2>1 DEF LInv, LifecycleTypeOK
  <2>4. QED
    BY <1>1, <2>2, <2>3 DEF LInv
<1>3. ASSUME NEW w \in Worker, Serve(w) PROVE LInv'
  <2>1. Ruled'
    BY <1>3, ServeCreateKeeps, ServeJoinKeeps, ServeAuthKeeps, ServeDeleteKeeps,
       FrpcLoginKeeps DEF Serve
  <2>2. QED
    BY <1>1, <1>3, <2>1, ServeTyped DEF LInv
<1>4. CASE RestartServer
  BY <1>1, <1>4, RestartServerKeeps, RestartServerTyped DEF LInv
<1>5. ASSUME NEW m \in Machine,
             \/ CreateRoomHost(m) \/ JoinByCode(m) \/ DeleteRoomRule(m)
             \/ JobStep(m) \/ RestartMachine(m)
      PROVE  LInv'
  BY <1>1, <1>5, MachineKeeps, MachineTyped DEF LInv
<1>6. QED
  BY <1>2, <1>3, <1>4, <1>5 DEF LifecycleNext

\* LInv is inductive.
THEOREM LifecycleInvariance == LifecycleSpec => []LInv
<1>1. LifecycleInit => LInv
  BY LifecycleInitOK
<1>2. LInv /\ [LifecycleNext]_lifecycleVars => LInv'
  BY LifecycleNextOK
<1>3. QED
  BY <1>1, <1>2, PTL DEF LifecycleSpec

\* The backends' stores, their requests and the connections are well typed.
THEOREM LifecycleTyped == LifecycleSpec => []LifecycleTypeOK
<1>1. LInv => LifecycleTypeOK
  BY DEF LInv
<1>2. QED
  BY <1>1, LifecycleInvariance, PTL

\* A rule a user was told of stays registered on the control server, in memory and
\* on disk, for any number of backends, connections and rooms: no clean-up, no delete
\* served late, no failed save and no crash takes its room or its device away.
THEOREM AckedRulesStayRegistered == LifecycleSpec => []AckedRuleIsRegistered
<1>1. LInv => AckedRuleIsRegistered
  BY DEF LInv, Ruled, AckedKept, Kept, AckedRuleIsRegistered
<1>2. QED
  BY <1>1, LifecycleInvariance, PTL

=============================================================================
