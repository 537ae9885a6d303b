--------------------------- MODULE RoomCleanupProofs ---------------------------
(***************************************************************************)
(* No room is left behind: for any number of backends and connections, a room *)
(* that is on the control server, in memory or on disk, met an excusing fault  *)
(* or somebody still deals with it.  The invariant follows the room from hand  *)
(* to hand: the reply of its creation, the backend that saves its rule, the    *)
(* rule, the request that deletes it.                                       *)
(***************************************************************************)
EXTENDS RoomLifecycleProofs

\* On the control server, or there again after a crash.
There(r) == mem.rooms[r] # None \/ disk.rooms[r] # None

RoomsCared == \A r \in Room : There(r) => r \in excused \/ Handled(r)

\* A creation names a room once it was served, and a deletion that succeeded left
\* nothing of its room.
ReplyCared(x) ==
    /\ x.late => x.state = "sent"
    /\ x.kind = "create" =>
          /\ x.state = "sent" => x.room = None
          /\ x.state = "err" => x.room \in excused \union {None}
    /\ x.kind = "delete" /\ x.state = "ok" => ~ There(x.room)

RepliesCared == \A w \in Worker : net[w] # None => ReplyCared(net[w])

\* What the control server deletes is what the connection asks for.
DeletionsServed ==
    \A w \in Worker : req[w].pc = "authed" =>
        /\ net[w] # None /\ net[w].kind = "delete" /\ net[w].state = "sent"
        /\ req[w].op.room = net[w].room

\* A backend has a rule at hand only between a reply and the end of the clean-up,
\* which is about the room of the rule.
JobsRuled ==
    \A m \in Machine :
        /\ job[m].pc \in {"idle", "posted"} => job[m].rule = None
        /\ job[m].pc = "cleaning" => net[job[m].conn].room = job[m].rule.room

CInv == LInv /\ RoomsCared /\ RepliesCared /\ DeletionsServed /\ JobsRuled

-----------------------------------------------------------------------------
(* What the steps of the control server do to rooms.                         *)

\* A connection that deals with room r, and a rule of its host that does.
Carries(x, r) == x # None /\ x.room = r /\ x.kind # "join"

Rules(m) == local[m].mem \union ({job[m].rule} \ {None})

\* Who deals with a room: a connection or a rule.
LEMMA HandledBy ==
  ASSUME NEW r
  PROVE  Handled(r) <=> \/ \E w \in Worker : Carries(net[w], r)
                        \/ \E m \in Machine : \E rule \in Rules(m) :
                               rule.room = r /\ rule.role = "host"
BY DEF Handled, Carries, Rules

\* A save writes memory.
LEMMA DiskFollows ==
  ASSUME NEW w \in Worker, Handle(w)
  PROVE  disk' = disk \/ disk' = mem'
<1>1. \A d : UpdateThenAnswer(w, d) => disk' = disk \/ disk' = mem'
  BY DEF UpdateThenAnswer, Saved, SaveFails
<1>2. CASE \/ CreateGroup(w) \/ JoinGroup(w) \/ CreateNode(w) \/ DeleteNode(w)
           \/ CreateRoom(w) \/ JoinRoom(w) \/ RoomLogin(w)
  BY <1>1, <1>2, Zenon DEF CreateGroup, JoinGroup, CreateNode, DeleteNode, CreateRoom, JoinRoom,
     RoomLogin
<1>3. CASE \/ CreatePrivateExposure(w) \/ CreatePublicExposure(w) \/ UpdateExposure(w)
           \/ DeleteExposure(w) \/ CreateAccessRoute(w) \/ DeleteRoom(w)
  BY <1>1, <1>3, Zenon DEF CreatePrivateExposure, CreatePublicExposure, UpdateExposure,
     DeleteExposure, CreateAccessRoute, DeleteRoom, Refuse
<1>4. CASE Authenticate(w) \/ UpdateRoom(w) \/ ViewRoom(w) \/ NewProxy(w)
  BY <1>4 DEF Authenticate, UpdateRoom, ViewRoom, NewProxy, Refuse, Saved, SaveFails
<1> QED BY <1>2, <1>3, <1>4 DEF Handle

\* Rooms that are there were issued.
LEMMA ThereIssued == ASSUME IInv, NEW r \in Room, There(r) PROVE r \in issued
BY DEF IInv, TypeOK, Sound, IdsIssued, Present, Data, There

\* A room that is gone stays gone.
LEMMA GoneStays ==
  ASSUME IInv, [Next]_vars, NEW r \in Room \intersect issued, There(r)'
  PROVE  There(r)
<1>1. CASE UNCHANGED vars
  BY <1>1 DEF vars, There
<1>2. CASE Restart
  BY <1>2 DEF Restart, Saved, There
<1>3. ASSUME NEW w \in Worker, Handle(w) PROVE There(r)
  <2>1. mem'.rooms[r] # None => mem.rooms[r] # None
    BY <1>3, HostsStay
  <2> QED BY <1>3, <2>1, DiskFollows DEF There
<1> QED BY <1>1, <1>2, <1>3 DEF Next

\* Other steps than creations add no rooms.
LEMMA NoRoomAdded ==
  ASSUME IInv, NEW w \in Worker,
         Authenticate(w) \/ JoinRoom(w) \/ RoomLogin(w) \/ DeleteRoom(w), NEW r \in Room, There(r)'
  PROVE  There(r)
<1>1. mem \in Data
  BY DEF IInv, TypeOK
<1>2. disk' = disk \/ disk' = mem'
  BY DiskFollows DEF Handle
<1>3. mem'.rooms[r] # None => mem.rooms[r] # None
  <2>1. CASE Authenticate(w)
    BY <2>1 DEF Authenticate, Saved, SaveFails
  <2>2. CASE JoinRoom(w) \/ RoomLogin(w)
    BY <1>1, <2>2 DEF JoinRoom, RoomLogin, UpdateThenAnswer, Saved, SaveFails, Data
  <2>3. CASE DeleteRoom(w)
    BY <1>1, <2>3 DEF DeleteRoom, Refuse, UpdateThenAnswer, Saved, SaveFails, Data
  <2> QED BY <2>1, <2>2, <2>3
<1> QED BY <1>2, <1>3 DEF There

\* The room of a delete request was issued.
LEMMA DeletedIssued ==
  ASSUME LInv, NEW w \in Worker, net[w] # None, net[w].kind = "delete"
  PROVE  net[w].room \in Room \intersect issued
BY DEF LInv, Ruled, OnlyDeletes, RoomsDoomedOnce, Doomed

Cares == RoomsCared /\ RepliesCared /\ DeletionsServed /\ JobsRuled

\* What a step of the control server on connection w must see to.
LEMMA ServingCares ==
  ASSUME CInv, NEW w \in Worker, [Next]_vars, UNCHANGED <<local, job>>, excused \subseteq excused',
         \A v \in Worker \ {w} : net'[v] = net[v],
         \A r \in Room : There(r)' => \/ r \in excused' \/ Carries(net'[w], r)
                                      \/ (There(r) /\ ~ Carries(net[w], r)),
         (net[w] # None => ReplyCared(net[w]))',
         \A v \in Worker : req'[v].pc = "authed" =>
             \/ v # w /\ req'[v] = req[v]
             \/ /\ v = w /\ net'[w] # None /\ net'[w].kind = "delete" /\ net'[w].state = "sent"
                /\ req'[w].op.room = net'[w].room,
         net[w] # None /\ net[w].kind = "delete" /\ ~ net[w].late => net'[w].room = net[w].room
  PROVE  Cares'
<1>1. RoomsCared'
  <2> SUFFICES ASSUME NEW r \in Room, There(r)', r \notin excused', ~ Carries(net'[w], r)
               PROVE  Handled(r)'
    BY DEF RoomsCared, Handled, Carries
  <2>1. There(r) /\ ~ Carries(net[w], r) /\ r \notin excused
    OBVIOUS
  <2>2. Handled(r)
    BY <2>1 DEF CInv, RoomsCared
  <2>3. CASE \E v \in Worker : Carries(net[v], r)
    BY <2>1, <2>3 DEF Handled, Carries
  <2>4. CASE \E m \in Machine : \E rule \in Rules(m) : rule.room = r /\ rule.role = "host"
    BY <2>4 DEF Handled, Rules
  <2> QED BY <2>2, <2>3, <2>4, HandledBy
<1>2. RepliesCared'
  <2> SUFFICES ASSUME NEW v \in Worker, v # w, net[v] # None PROVE ReplyCared(net[v])'
    BY DEF RepliesCared
  <2>1. ReplyCared(net[v]) /\ net'[v] = net[v]
    BY DEF CInv, RepliesCared
  <2>2. net[v].kind = "delete" => net[v].room \in Room \intersect issued
    BY DeletedIssued DEF CInv
  <2>3. net[v].kind = "delete" /\ net[v].state = "ok" => ~ There(net[v].room)'
    BY <2>1, <2>2, GoneStays DEF ReplyCared, CInv, LInv
  <2> QED BY <2>1, <2>3 DEF ReplyCared, There
<1>3. DeletionsServed'
  BY DEF CInv, DeletionsServed
<1>4. JobsRuled'
  <2> SUFFICES ASSUME NEW m \in Machine, job[m].pc = "cleaning"
               PROVE  net'[job[m].conn].room = job[m].rule.room
    BY DEF CInv, JobsRuled
  <2>1. /\ job[m].conn \in Worker /\ net[job[m].conn] # None
        /\ ~ net[job[m].conn].late /\ ~ net[job[m].conn].kind # "delete"
    BY DEF CInv, LInv, Ruled, ConnectionsOwned, Conversing
  <2>2. net[job[m].conn].room = job[m].rule.room
    BY DEF CInv, JobsRuled
  <2> QED BY <2>1, <2>2
<1> QED BY <1>1, <1>2, <1>3, <1>4 DEF Cares

\* The reply of a request that is not late.
LEMMA ReplyIs ==
  ASSUME LInv, NEW w \in Worker, net[w] # None, NEW room, NEW member, NEW res,
         Reply(w, room, member, res)
  PROVE  /\ \A v \in Worker \ {w} : net'[v] = net[v]
         /\ net[w].late => net'[w] = None
         /\ ~ net[w].late => /\ net'[w].kind = net[w].kind /\ net'[w].room = room
                             /\ net'[w].state = res /\ net'[w].late = FALSE
<1>1. net[w] \in Exchange /\ net \in [Worker -> Opt(Exchange)]
  BY DEF LInv, LifecycleTypeOK, Opt
<1> DEFINE y == [net[w] EXCEPT !.room = room, !.member = member, !.state = res]
<1>2. net' = [net EXCEPT ![w] = IF net[w].late THEN None ELSE y]
  BY DEF Reply
<1>3. y.kind = net[w].kind /\ y.room = room /\ y.state = res /\ y.late = net[w].late
  BY <1>1 DEF Exchange
<1>4. net[w].late \in BOOLEAN
  BY <1>1 DEF Exchange
<1> HIDE DEF y
<1> QED BY <1>1, <1>2, <1>3, <1>4

\* An answer takes the request of its handler away.
LEMMA AnsweredIs ==
  ASSUME IInv, NEW w \in Worker, NEW res, Answer(w, res)
  PROVE  /\ req'[w].res = res
         /\ \A v \in Worker : req'[v].pc = "authed" => v # w /\ req'[v] = req[v]
<1>1. req \in [Worker -> Requests]
  BY DEF IInv, TypeOK
<1> QED BY <1>1 DEF Answer, Idle

\* A room appears with its reply, or excused.
LEMMA ServeCreateCares == ASSUME CInv, NEW w \in Worker, ServeCreate(w) PROVE Cares'
<1>1. LInv /\ IInv /\ Waiting(w, "create") /\ CreateRoom(w)
  BY DEF CInv, LInv, ServeCreate
<1>2. [Next]_vars /\ UNCHANGED <<local, job>>
  BY DEF ServeCreate, Next, Handle
<1>3. PICK res \in {"ok", "err"} : Answer(w, res) /\ req'[w].res = res
  BY <1>1, UpdateOutcome
<1>4. PICK r \in Room \ issued, x \in Member \ issued :
         /\ mem'.rooms[r] # None
         /\ Reply(w, r, x, res)
         /\ Excuse(r, res = "err" \/ net[w].late)
  BY <1>3 DEF ServeCreate
<1>5. /\ net[w] # None /\ net[w].kind = "create" /\ net[w].state = "sent" /\ net[w].room = None
  BY <1>1 DEF Waiting, CInv, RepliesCared, ReplyCared
<1>6. /\ \A v \in Worker \ {w} : net'[v] = net[v]
      /\ net[w].late => net'[w] = None
      /\ ~ net[w].late => /\ net'[w].kind = "create" /\ net'[w].room = r
                          /\ net'[w].state = res /\ net'[w].late = FALSE
  <2>1. LInv /\ net[w] # None /\ Reply(w, r, x, res)
    BY <1>1, <1>4, <1>5
  <2>2. /\ \A v \in Worker \ {w} : net'[v] = net[v]
        /\ net[w].late => net'[w] = None
        /\ ~ net[w].late => /\ net'[w].kind = net[w].kind /\ net'[w].room = r
                            /\ net'[w].state = res /\ net'[w].late = FALSE
    BY <2>1, ReplyIs
  <2> QED BY <1>5, <2>2
<1>7. excused \subseteq excused' /\ (res = "err" \/ net[w].late => r \in excused')
  BY <1>4 DEF Excuse
<1>8. net'[w] = None => net[w].late
  <2>1. LifecycleTypeOK'
    BY <1>1, ServeTyped DEF Serve
  <2>2. ASSUME ~ net[w].late PROVE net'[w] # None
    <3>1. net[w] \in Exchange /\ net \in [Worker -> Opt(Exchange)]
      BY <1>1, <1>5 DEF LInv, LifecycleTypeOK, Opt
    <3>2. [net[w] EXCEPT !.room = r, !.member = x, !.state = res] \in Exchange
      BY <3>1 DEF Exchange, Opt
    <3> QED BY <1>4, <2>2, <3>1, <3>2, LifecycleAssumption DEF Reply
  <2> QED BY <2>2
<1>9. ASSUME NEW s \in Room, There(s)'
      PROVE  s \in excused' \/ Carries(net'[w], s) \/ (There(s) /\ ~ Carries(net[w], s))
  <2>1. CASE s = r
    BY <1>6, <1>7, <1>8, <2>1 DEF Carries
  <2>2. CASE s # r
    <3>1. PICK t \in Room, y \in Member :
             /\ t \notin issued /\ y \notin issued
             /\ UpdateThenAnswer(w, [mem EXCEPT !.rooms[t] = [host |-> y, enabled |-> TRUE],
                                                !.members[y] = [room |-> t, role |-> "host"]])
      BY <1>1 DEF CreateRoom, Issue
    <3>2. mem \in Data /\ mem.rooms[r] = None
      BY <1>1, <1>4, ThereIssued DEF IInv, TypeOK, There
    <3>3. mem'.rooms = [mem.rooms EXCEPT ![t] = [host |-> y, enabled |-> TRUE]]
      BY <3>1, <3>2 DEF UpdateThenAnswer, Saved, SaveFails, Data
    <3>4. t = r
      BY <1>4, <3>2, <3>3 DEF Data
    <3>5. mem'.rooms[s] = mem.rooms[s]
      BY <2>2, <3>2, <3>3, <3>4 DEF Data
    <3>6. There(s)
      BY <1>1, <1>9, <3>5, DiskFollows DEF There, Handle
    <3> QED BY <1>5, <3>6, LifecycleAssumption DEF Carries
  <2> QED BY <2>1, <2>2
<1>10. (net[w] # None => ReplyCared(net[w]))'
  BY <1>3, <1>6, <1>7 DEF ReplyCared
<1>11. \A v \in Worker : req'[v].pc = "authed" => v # w /\ req'[v] = req[v]
  BY <1>1, <1>3, AnsweredIs
<1> QED BY <1>2, <1>5, <1>6, <1>7, <1>9, <1>10, <1>11, ServingCares

\* A reply to a join is about no room that needs a hand.
LEMMA ServeJoinCares == ASSUME CInv, NEW w \in Worker, ServeJoin(w) PROVE Cares'
<1>1. LInv /\ IInv /\ Waiting(w, "join") /\ JoinRoom(w)
  BY DEF CInv, LInv, ServeJoin
<1>2. [Next]_vars /\ UNCHANGED <<local, job, excused>>
  BY DEF ServeJoin, Next, Handle
<1>3. PICK res \in {"ok", "err"} : Answer(w, res) /\ req'[w].res = res
  BY <1>1, UpdateOutcome
<1>4. PICK x \in Member : Reply(w, net[w].room, x, res)
  BY <1>3 DEF ServeJoin
<1>5. net[w] # None /\ net[w].kind = "join"
  BY <1>1 DEF Waiting
<1>6. /\ \A v \in Worker \ {w} : net'[v] = net[v]
      /\ net[w].late => net'[w] = None
      /\ ~ net[w].late => /\ net'[w].kind = net[w].kind /\ net'[w].room = net[w].room
                          /\ net'[w].state = res /\ net'[w].late = FALSE
  BY <1>1, <1>4, <1>5, ReplyIs
<1>7. \A r \in Room : There(r)' => There(r) /\ ~ Carries(net[w], r)
  BY <1>1, <1>5, NoRoomAdded DEF Carries
<1>8. (net[w] # None => ReplyCared(net[w]))'
  BY <1>5, <1>6 DEF ReplyCared
<1>9. \A v \in Worker : req'[v].pc = "authed" => v # w /\ req'[v] = req[v]
  BY <1>1, <1>3, AnsweredIs
<1> QED BY <1>2, <1>5, <1>6, <1>7, <1>8, <1>9, ServingCares

\* A login changes no room and no connection.
LEMMA FrpcLoginCares == ASSUME CInv, NEW w \in Worker, FrpcLogin(w) PROVE Cares'
<1>1. IInv /\ RoomLogin(w) /\ net[w] = None
  BY DEF CInv, LInv, FrpcLogin
<1>2. [Next]_vars /\ UNCHANGED <<local, job, net, excused>>
  BY DEF FrpcLogin, clientVars, Next, Handle
<1>3. PICK res \in {"ok", "err"} : Answer(w, res)
  BY <1>1 DEF RoomLogin, UpdateThenAnswer
<1>4. \A r \in Room : There(r)' => There(r) /\ ~ Carries(net[w], r)
  BY <1>1, NoRoomAdded DEF Carries
<1>5. \A v \in Worker : req'[v].pc = "authed" => v # w /\ req'[v] = req[v]
  BY <1>1, <1>3, AnsweredIs
<1> QED BY <1>1, <1>2, <1>4, <1>5, ServingCares

\* A deletion keeps its connection until it is served; if it is refused the room is
\* excused.
LEMMA ServeAuthCares == ASSUME CInv, NEW w \in Worker, ServeAuth(w) PROVE Cares'
<1>1. LInv /\ IInv /\ Waiting(w, "delete") /\ Authenticate(w)
  BY DEF CInv, LInv, ServeAuth
<1>2. [Next]_vars /\ UNCHANGED <<local, job>>
  BY DEF ServeAuth, Next, Handle
<1>3. net[w] # None /\ net[w].kind = "delete" /\ net[w].state = "sent" /\ ReplyCared(net[w])
  BY <1>1 DEF Waiting, CInv, RepliesCared
<1>4. \A r \in Room : There(r)' => There(r)
  BY <1>1, NoRoomAdded
<1>5. req \in [Worker -> Requests]
  BY <1>1 DEF IInv, TypeOK
<1>6. CASE req'[w].pc = "authed"
  <2>1. UNCHANGED <<net, excused>> /\ req'[w].op = DeleteOp(w)
    BY <1>6 DEF ServeAuth
  <2>2. req'[w].op.room = net[w].room
    BY <2>1 DEF DeleteOp
  <2>3. \A v \in Worker \ {w} : req'[v] = req[v]
    BY <1>1, <1>5 DEF Authenticate, Answer
  <2>4. \A r \in Room : There(r)' => Carries(net'[w], r) \/ (There(r) /\ ~ Carries(net[w], r))
    BY <1>4, <2>1
  <2>5. (net[w] # None => ReplyCared(net[w]))'
    BY <1>3, <2>1 DEF ReplyCared
  <2> QED BY <1>2, <1>3, <2>1, <2>2, <2>3, <2>4, <2>5, ServingCares
<1>7. CASE req'[w].pc # "authed"
  <2>1. Reply(w, net[w].room, net[w].member, "err") /\ excused' = excused \union {net[w].room}
    BY <1>7 DEF ServeAuth, Excuse
  <2>2. /\ \A v \in Worker \ {w} : net'[v] = net[v]
        /\ net[w].late => net'[w] = None
        /\ ~ net[w].late => /\ net'[w].kind = net[w].kind /\ net'[w].room = net[w].room
                            /\ net'[w].state = "err" /\ net'[w].late = FALSE
    BY <1>1, <1>3, <2>1, ReplyIs
  <2>3. Answer(w, "err")
    BY <1>1, <1>5, <1>7 DEF Authenticate
  <2>4. \A v \in Worker : req'[v].pc = "authed" => v # w /\ req'[v] = req[v]
    BY <1>1, <2>3, AnsweredIs
  <2>5. \A r \in Room : There(r)' => r \in excused' \/ (There(r) /\ ~ Carries(net[w], r))
    BY <1>4, <2>1 DEF Carries
  <2>6. (net[w] # None => ReplyCared(net[w]))'
    BY <1>3, <2>2 DEF ReplyCared
  <2> QED BY <1>2, <1>3, <2>1, <2>2, <2>4, <2>5, <2>6, ServingCares
<1> QED BY <1>6, <1>7

\* A deletion that succeeds leaves nothing of the room, in memory or on disk.
LEMMA ServeDeleteCares == ASSUME CInv, NEW w \in Worker, ServeDelete(w) PROVE Cares'
<1>1. LInv /\ IInv /\ Waiting(w, "delete") /\ DeleteRoom(w)
  BY DEF CInv, LInv, ServeDelete
<1>2. [Next]_vars /\ UNCHANGED <<local, job>>
  BY DEF ServeDelete, Next, Handle
<1>3. net[w] # None /\ net[w].kind = "delete" /\ net[w].room \in Room
  BY <1>1, DeletedIssued DEF Waiting
<1>4. req[w].op.room = net[w].room
  BY <1>1 DEF DeleteRoom, Authed, CInv, DeletionsServed
<1>5. PICK res \in {"ok", "err"} : Answer(w, res)
  BY <1>1 DEF DeleteRoom, Refuse, UpdateThenAnswer
<1>6. req'[w].res = res
  BY <1>1, <1>5, AnsweredIs
<1>7. Reply(w, net[w].room, net[w].member, res) /\ Excuse(net[w].room, res = "err")
  BY <1>6 DEF ServeDelete
<1>8. /\ \A v \in Worker \ {w} : net'[v] = net[v]
      /\ net[w].late => net'[w] = None
      /\ ~ net[w].late => /\ net'[w].kind = net[w].kind /\ net'[w].room = net[w].room
                          /\ net'[w].state = res /\ net'[w].late = FALSE
  BY <1>1, <1>3, <1>7, ReplyIs
<1>9. excused \subseteq excused' /\ (res = "err" => net[w].room \in excused')
  BY <1>7 DEF Excuse
<1>10. ASSUME res = "ok", NEW r \in Room, r = net[w].room PROVE ~ There(r)'
  <2>1. ~ Answer(w, "err")
    BY <1>1, <1>6, <1>10, AnsweredIs
  <2>2. PICK kept : UpdateThenAnswer(w, [mem EXCEPT !.rooms[req[w].op.room] = None, !.members = kept])
    BY <1>1, <2>1, Zenon DEF DeleteRoom, Refuse
  <2>3. /\ mem' = [mem EXCEPT !.rooms[net[w].room] = None, !.members = kept]
        /\ disk' = mem'
    BY <1>4, <2>1, <2>2 DEF UpdateThenAnswer, Saved
  <2>4. mem \in Data
    BY <1>1 DEF IInv, TypeOK
  <2>5. mem'.rooms[r] = None
    BY <1>10, <2>3, <2>4 DEF Data
  <2> QED BY <2>3, <2>5 DEF There
<1>11. ASSUME NEW r \in Room, There(r)'
       PROVE  r \in excused' \/ (There(r) /\ ~ Carries(net[w], r))
  <2>1. There(r)
    BY <1>1, <1>11, NoRoomAdded
  <2>2. r = net[w].room => r \in excused'
    BY <1>9, <1>10, <1>11
  <2> QED BY <2>1, <2>2 DEF Carries
<1>12. (net[w] # None => ReplyCared(net[w]))'
  <2>1. CASE net[w].late
    BY <1>8, <2>1
  <2>2. CASE ~ net[w].late
    <3>1. ~ (net[w].state = "ok" /\ There(net[w].room))'
      <4> SUFFICES ASSUME res = "ok", NEW r \in Room, r = net[w].room, There(r)'
                   PROVE  FALSE
        BY <1>3, <1>8, <2>2 DEF There
      <4> QED BY <1>10
    <3>2. net'[w].kind = "delete" /\ ~ net'[w].late
      BY <1>3, <1>8, <2>2
    <3> QED BY <3>1, <3>2 DEF ReplyCared
  <2> QED BY <2>1, <2>2
<1>13. \A v \in Worker : req'[v].pc = "authed" => v # w /\ req'[v] = req[v]
  BY <1>1, <1>5, AnsweredIs
<1> QED BY <1>2, <1>3, <1>8, <1>9, <1>11, <1>12, <1>13, ServingCares

\* The rooms whose deletion a crash interrupts are excused.
LEMMA RestartServerCares == ASSUME CInv, RestartServer PROVE Cares'
<1>1. /\ LInv /\ IInv /\ [Next]_vars /\ UNCHANGED <<local, job>> /\ excused \subseteq excused'
      /\ \A r \in Room : There(r)' => There(r)
      /\ \A w \in Worker : req'[w].pc = "idle"
  BY DEF CInv, LInv, RestartServer, Restart, Next, Saved, There, Idle
<1>2. ASSUME NEW w \in Worker, net[w] # None
      PROVE  /\ net[w].late => net'[w] = None
             /\ ~ net[w].late =>
                    /\ net'[w].kind = net[w].kind /\ net'[w].room = net[w].room
                    /\ net'[w].late = net[w].late /\ net'[w] # None
                    /\ net'[w].state = IF net[w].state = "sent" THEN "err" ELSE net[w].state
  <2>1. net[w] \in Exchange
    BY <1>1, <1>2 DEF LInv, LifecycleTypeOK, Opt
  <2>2. [net[w] EXCEPT !.state = "err"] \in Exchange
    BY <2>1 DEF Exchange
  <2>3. net'[w] = IF net[w].late THEN None
                  ELSE IF net[w].state = "sent" THEN [net[w] EXCEPT !.state = "err"] ELSE net[w]
    BY <1>2 DEF RestartServer
  <2> QED BY <1>2, <2>1, <2>2, <2>3, LifecycleAssumption DEF Exchange
<1>3. \A w \in Worker : net[w] = None => net'[w] = None
  BY DEF RestartServer
<1>4. RoomsCared'
  <2> SUFFICES ASSUME NEW r \in Room, There(r)', r \notin excused' PROVE Handled(r)'
    BY DEF RoomsCared
  <2>1. Handled(r)
    BY <1>1 DEF CInv, RoomsCared
  <2>2. ASSUME NEW w \in Worker, Carries(net[w], r) PROVE Handled(r)'
    <3>1. ~ net[w].late
      <4>1. ASSUME net[w].late PROVE FALSE
        <5>1. net[w].state = "sent" /\ net[w].kind \in {"create", "delete"}
          BY <1>1, <2>2, <4>1 DEF CInv, RepliesCared, ReplyCared, Carries, LInv, LifecycleTypeOK,
             Opt, Exchange, Kinds
        <5>2. net[w].kind = "delete"
          BY <2>2, <5>1, LifecycleAssumption DEF CInv, RepliesCared, ReplyCared, Carries
        <5> QED BY <2>2, <5>1, <5>2 DEF RestartServer, Waiting, Carries
      <4> QED BY <4>1
    <3> QED BY <1>2, <2>2, <3>1 DEF Handled, Carries
  <2>3. CASE \E m \in Machine : \E rule \in Rules(m) : rule.room = r /\ rule.role = "host"
    BY <1>1, <2>3 DEF Handled, Rules
  <2> QED BY <2>1, <2>2, <2>3, HandledBy
<1>5. RepliesCared'
  <2> SUFFICES ASSUME NEW w \in Worker, net'[w] # None PROVE ReplyCared(net[w])'
    BY DEF RepliesCared
  <2>1. net[w] # None /\ ReplyCared(net[w]) /\ ~ net[w].late
    BY <1>2, <1>3 DEF CInv, RepliesCared
  <2>2. net[w].kind = "delete" => net[w].room \in Room
    BY <1>1, <2>1, DeletedIssued
  <2>3. net'[w].kind = net[w].kind /\ net'[w].room = net[w].room /\ ~ net'[w].late
        /\ net'[w].state = IF net[w].state = "sent" THEN "err" ELSE net[w].state
    BY <1>2, <2>1
  <2>4. net'[w].kind = "create" =>
            /\ net'[w].state = "sent" => net'[w].room = None
            /\ net'[w].state = "err" => net'[w].room \in excused' \union {None}
    BY <1>1, <2>1, <2>3 DEF ReplyCared
  <2>5. ~ (net[w].kind = "delete" /\ net[w].state = "ok" /\ There(net[w].room))'
    <3> SUFFICES ASSUME net[w].kind = "delete", net[w].state = "ok",
                        NEW r \in Room, r = net[w].room, There(r)'
                 PROVE  FALSE
      BY <2>2, <2>3 DEF There
    <3> QED BY <1>1, <2>1 DEF ReplyCared
  <2> QED BY <2>3, <2>4, <2>5 DEF ReplyCared, There
<1>6. DeletionsServed'
  BY <1>1 DEF DeletionsServed
<1>7. JobsRuled'
  <2> SUFFICES ASSUME NEW m \in Machine, job[m].pc = "cleaning"
               PROVE  net'[job[m].conn].room = job[m].rule.room
    BY <1>1 DEF CInv, JobsRuled
  <2> QED BY <1>1, <1>2 DEF CInv, LInv, Ruled, ConnectionsOwned, Conversing, JobsRuled
<1> QED BY <1>4, <1>5, <1>6, <1>7 DEF Cares

-----------------------------------------------------------------------------
(* What the steps of the backends do to rooms.                               *)

\* Connection v has the request and the reply it had.
Alike(v) == net'[v].kind = net[v].kind /\ net'[v].room = net[v].room /\ net'[v].state = net[v].state

\* What a step of a backend must see to.
LEMMA AskingCares ==
  ASSUME CInv, UNCHANGED vars, excused \subseteq excused', JobsRuled',
         \A v \in Worker : net'[v] # None =>
             \/ net[v] # None /\ Alike(v) /\ (net'[v].late => net[v].state = "sent")
             \/ /\ net'[v].state = "sent"
                /\ net'[v].kind = "create" => net'[v].room = None,
         \A v \in Worker : net[v] # None /\ net[v].state = "sent" => net'[v] # None /\ Alike(v),
         \A r \in Room : There(r) /\ r \notin excused' /\ Handled(r) => Handled(r)'
  PROVE  Cares'
<1>1. \A r \in Room : There(r)' => There(r)
  BY DEF vars, There
<1>2. RoomsCared'
  <2> SUFFICES ASSUME NEW r \in Room, There(r)', r \notin excused' PROVE Handled(r)'
    BY DEF RoomsCared
  <2> QED BY <1>1 DEF CInv, RoomsCared
<1>3. RepliesCared'
  <2> SUFFICES ASSUME NEW v \in Worker, net'[v] # None PROVE ReplyCared(net[v])'
    BY DEF RepliesCared
  <2>1. CASE net[v] # None /\ Alike(v) /\ (net'[v].late => net[v].state = "sent")
    <3>1. ReplyCared(net[v])
      BY <2>1 DEF CInv, RepliesCared
    <3>2. net[v].kind = "delete" => net[v].room \in Room
      BY <2>1, DeletedIssued DEF CInv
    <3>3. ~ (net[v].kind = "delete" /\ net[v].state = "ok" /\ There(net[v].room))'
      <4> SUFFICES ASSUME net[v].kind = "delete", net[v].state = "ok",
                          NEW r \in Room, r = net[v].room, There(r)'
                   PROVE  FALSE
        BY <2>1, <3>2 DEF Alike
      <4> QED BY <1>1, <3>1 DEF ReplyCared
    <3>4. /\ net'[v].late => net'[v].state = "sent"
          /\ net'[v].kind = "create" =>
                /\ net'[v].state = "sent" => net'[v].room = None
                /\ net'[v].state = "err" => net'[v].room \in excused' \union {None}
      BY <2>1, <3>1 DEF Alike, ReplyCared
    <3> QED BY <3>3, <3>4 DEF ReplyCared
  <2>2. CASE /\ net'[v].state = "sent"
             /\ net'[v].kind = "create" => net'[v].room = None
    BY <2>2 DEF ReplyCared
  <2> QED BY <2>1, <2>2
<1>4. DeletionsServed'
  BY DEF CInv, DeletionsServed, vars, Alike
<1> QED BY <1>2, <1>3, <1>4 DEF Cares

\* A request on a connection of its own.
LEMMA SendIs ==
  ASSUME LInv, NEW m \in Machine, NEW kind \in Kinds, NEW room \in Opt(Room),
         NEW member \in Opt(Member), NEW pc \in {"posted", "cleaning"}, NEW rule \in Opt(Rule),
         Send(m, kind, room, member, pc, rule)
  PROVE  \E w \in Worker :
            /\ net[w] = None /\ \A v \in Worker \ {w} : net'[v] = net[v]
            /\ net'[w] # None /\ net'[w].kind = kind /\ net'[w].room = room
            /\ net'[w].state = "sent" /\ net'[w].late = FALSE
            /\ \A n \in Machine \ {m} : job'[n] = job[n]
            /\ job'[m].pc = pc /\ job'[m].conn = w /\ job'[m].rule = rule
<1> DEFINE x == [kind |-> kind, room |-> room, member |-> member,
                 state |-> "sent", late |-> FALSE]
<1>1. PICK w \in Worker :
         /\ net[w] = None
         /\ net' = [net EXCEPT ![w] = x]
         /\ job' = [job EXCEPT ![m] = [pc |-> pc, kind |-> kind, conn |-> w,
                                       rule |-> rule, res |-> "none"]]
  BY DEF Send
<1>2. x \in Exchange
  BY DEF Exchange
<1>3. net \in [Worker -> Opt(Exchange)] /\ job \in [Machine -> Jobs]
  BY DEF LInv, LifecycleTypeOK
<1>4. x.kind = kind /\ x.room = room /\ x.state = "sent" /\ x.late = FALSE
  OBVIOUS
<1> HIDE DEF x
<1>5. x # None
  BY <1>2, LifecycleAssumption
<1>6. net'[w] = x /\ \A v \in Worker \ {w} : net'[v] = net[v]
  BY <1>1, <1>3
<1>7. /\ \A n \in Machine \ {m} : job'[n] = job[n]
      /\ job'[m].pc = pc /\ job'[m].conn = w /\ job'[m].rule = rule
  BY <1>1, <1>3
<1> QED BY <1>1, <1>4, <1>5, <1>6, <1>7

\* The connections in use are other than a new one.
LEMMA OthersClean ==
  ASSUME CInv, NEW n \in Machine, job[n].pc = "cleaning"
  PROVE  /\ job[n].conn \in Worker /\ net[job[n].conn] # None
         /\ ~ net[job[n].conn].late
         /\ net[job[n].conn].room = job[n].rule.room
BY DEF CInv, LInv, Ruled, ConnectionsOwned, Conversing, JobsRuled

\* A new request deals with no room yet.
LEMMA PostingCares ==
  ASSUME CInv, NEW m \in Machine, CreateRoomHost(m) \/ JoinByCode(m)
  PROVE  Cares'
<1>1. UNCHANGED <<vars, local, excused>> /\ job[m].pc = "idle" /\ LInv
  BY DEF CreateRoomHost, JoinByCode, Begin, CInv
<1>2. PICK kind \in {"create", "join"}, room \in Opt(Room) :
         /\ Send(m, kind, room, None, "posted", None)
         /\ kind = "create" => room = None
  <2>1. Codes \subseteq Room
    BY <1>1, CodesIssued
  <2> QED BY <2>1 DEF CreateRoomHost, JoinByCode, Opt
<1>3. kind \in Kinds /\ None \in Opt(Member)
  BY DEF Kinds, Opt
<1>4. PICK w \in Worker :
         /\ net[w] = None /\ \A v \in Worker \ {w} : net'[v] = net[v]
         /\ net'[w] # None /\ net'[w].kind = kind /\ net'[w].room = room
         /\ net'[w].state = "sent" /\ net'[w].late = FALSE
         /\ \A n \in Machine \ {m} : job'[n] = job[n]
         /\ job'[m].pc = "posted" /\ job'[m].conn = w /\ job'[m].rule = None
  <2>1. LInv /\ Send(m, kind, room, None, "posted", None)
    BY <1>1, <1>2
  <2> QED BY <1>3, <2>1, SendIs DEF Opt
<1>5. JobsRuled'
  BY <1>4, OthersClean DEF CInv, JobsRuled
<1>6. ASSUME NEW r \in Room, Handled(r) PROVE Handled(r)'
  <2>1. ASSUME NEW v \in Worker, Carries(net[v], r) PROVE Handled(r)'
    BY <1>4, <2>1 DEF Handled, Carries
  <2>2. ASSUME NEW n \in Machine, NEW rule \in Rules(n), rule.room = r, rule.role = "host"
        PROVE  Handled(r)'
    <3>1. job[m].rule = None
      BY <1>1 DEF CInv, JobsRuled
    <3>2. rule \in Rules(n)'
      BY <1>1, <1>4, <2>2, <3>1 DEF Rules
    <3> QED BY <2>2, <3>2 DEF Handled, Rules
  <2> QED BY <1>6, <2>1, <2>2, HandledBy
<1>7. \A v \in Worker : net'[v] # None =>
          \/ net[v] # None /\ Alike(v) /\ (net'[v].late => net[v].state = "sent")
          \/ net'[v].state = "sent" /\ (net'[v].kind = "create" => net'[v].room = None)
  BY <1>2, <1>4 DEF Alike, CInv, RepliesCared, ReplyCared
<1>8. \A v \in Worker : net[v] # None /\ net[v].state = "sent" => net'[v] # None /\ Alike(v)
  BY <1>4 DEF Alike
<1> QED BY <1>1, <1>5, <1>6, <1>7, <1>8, AskingCares

\* The reply of a creation goes over to the rule, or its room is excused.
LEMMA ReceiveCares == ASSUME CInv, NEW m \in Machine, Receive(m) PROVE Cares'
<1> DEFINE w == job[m].conn
<1>1. UNCHANGED <<vars, local, excused>> /\ job[m].pc = "posted" /\ LInv
      /\ net[w].state # "sent" /\ net' = [net EXCEPT ![w] = None]
  BY DEF Receive, CInv
<1>2. /\ w \in Worker /\ net[w] # None /\ net[w].kind # "delete"
      /\ \A n \in Machine : Conversing(n) /\ job[n].conn = w => n = m
  BY <1>1 DEF LInv, Ruled, ConnectionsOwned, Conversing
<1>3. net'[w] = None /\ \A v \in Worker \ {w} : net'[v] = net[v]
  BY <1>1, <1>2 DEF LInv, LifecycleTypeOK
<1>4. net[w] \in Exchange /\ job \in [Machine -> Jobs] /\ job[m].rule = None
  BY <1>1, <1>2 DEF LInv, LifecycleTypeOK, Opt, CInv, JobsRuled
<1>5. \A n \in Machine \ {m} : job'[n] = job[n]
  BY <1>4 DEF Receive
<1>6. CASE net[w].state = "err"
  <2>1. job'[m].pc = "idle" /\ job'[m].rule = None
    BY <1>4, <1>6 DEF Receive, NoJob
  <2>2. JobsRuled'
    BY <1>2, <1>3, <1>5, <2>1, OthersClean DEF CInv, JobsRuled, Conversing
  <2>3. ASSUME NEW r \in Room, r \notin excused, Handled(r) PROVE Handled(r)'
    <3>1. ~ Carries(net[w], r)
      BY <1>2, <1>4, <1>6, <2>3, LifecycleAssumption DEF Carries, CInv, RepliesCared, ReplyCared,
         Exchange, Kinds
    <3>2. ASSUME NEW v \in Worker, Carries(net[v], r) PROVE Handled(r)'
      BY <1>3, <3>1, <3>2 DEF Handled, Carries
    <3>3. ASSUME NEW n \in Machine, NEW rule \in Rules(n), rule.room = r, rule.role = "host"
          PROVE  Handled(r)'
      <4>1. rule \in Rules(n)'
        BY <1>1, <1>4, <1>5, <3>3 DEF Rules
      <4> QED BY <3>3, <4>1 DEF Handled, Rules
    <3> QED BY <2>3, <3>2, <3>3, HandledBy
  <2> QED BY <1>1, <1>3, <2>2, <2>3, AskingCares DEF Alike, CInv, RepliesCared, ReplyCared
<1>7. CASE net[w].state = "ok"
  <2> DEFINE rule == ReplyRule(w)
  <2>1. rule \in Rule /\ rule # None
    BY <1>1, <1>2, <1>7, LifecycleAssumption DEF LInv, Ruled, RepliesKept, Granted
  <2>2. job'[m].pc = "saving" /\ job'[m].rule = rule
    <3>1. job' = [job EXCEPT ![m] = [job[m] EXCEPT !.pc = "saving", !.conn = None, !.rule = rule]]
      BY <1>7 DEF Receive, ReplyRule
    <3> HIDE DEF rule
    <3> QED BY <1>4, <3>1 DEF Jobs
  <2>3. JobsRuled'
    BY <1>2, <1>3, <1>5, <2>2, OthersClean DEF CInv, JobsRuled, Conversing
  <2>4. ASSUME NEW r \in Room, Handled(r) PROVE Handled(r)'
    <3>1. ASSUME NEW v \in Worker, Carries(net[v], r) PROVE Handled(r)'
      <4>1. CASE v # w
        BY <1>3, <3>1, <4>1 DEF Handled, Carries
      <4>2. CASE v = w
        <5>1. net[w].kind = "create" /\ net[w].room = r
          BY <1>2, <1>4, <3>1, <4>2 DEF Carries, Exchange, Kinds
        <5>2. rule.room = r /\ rule.role = "host"
          BY <5>1 DEF ReplyRule
        <5> HIDE DEF rule
        <5> QED BY <2>1, <2>2, <5>2 DEF Handled
      <4> QED BY <4>1, <4>2
    <3>2. ASSUME NEW n \in Machine, NEW x \in Rules(n), x.room = r, x.role = "host"
          PROVE  Handled(r)'
      <4>1. x \in Rules(n)'
        BY <1>1, <1>4, <1>5, <3>2 DEF Rules
      <4> QED BY <3>2, <4>1 DEF Handled, Rules
    <3> QED BY <2>4, <3>1, <3>2, HandledBy
  <2> QED BY <1>1, <1>3, <2>3, <2>4, AskingCares DEF Alike, CInv, RepliesCared, ReplyCared
<1> QED BY <1>1, <1>4, <1>6, <1>7 DEF Exchange

\* Whoever stops waiting leaves a request that may still be served, or none.
LEMMA HangUpIs ==
  ASSUME LInv, NEW w \in Worker, net[w] # None, HangUp(w)
  PROVE  /\ \A v \in Worker \ {w} : net'[v] = net[v]
         /\ net[w].state = "sent" => net'[w] # None /\ Alike(w)
         /\ net[w].state # "sent" => net'[w] = None
<1>1. net[w] \in Exchange /\ net \in [Worker -> Opt(Exchange)]
  BY DEF LInv, LifecycleTypeOK, Opt
<1> DEFINE y == [net[w] EXCEPT !.late = TRUE]
<1>2. y \in Exchange /\ y.kind = net[w].kind /\ y.room = net[w].room /\ y.state = net[w].state
  BY <1>1 DEF Exchange
<1>3. net' = [net EXCEPT ![w] = IF net[w].state = "sent" THEN y ELSE None]
  BY DEF HangUp
<1> HIDE DEF y
<1>4. y # None
  BY <1>2, LifecycleAssumption
<1> QED BY <1>1, <1>2, <1>3, <1>4 DEF Alike

\* A connection that is left lets go of no room, except into the excused ones.
LEMMA LeftConnection ==
  ASSUME CInv, NEW w \in Worker, net[w] # None, HangUp(w), NEW r \in Room, There(r),
         Carries(net[w], r)
  PROVE  Carries(net'[w], r) \/ r \in excused \union Unclaimed(w)
<1>1. LInv /\ net[w] \in Exchange /\ ReplyCared(net[w])
  BY DEF CInv, LInv, LifecycleTypeOK, Opt, RepliesCared
<1>2. CASE net[w].state = "sent"
  BY <1>1, <1>2, HangUpIs DEF Carries, Alike
<1>3. CASE net[w].kind = "create" /\ net[w].state # "sent"
  BY <1>1, <1>3, LifecycleAssumption DEF Carries, ReplyCared, Unclaimed, Exchange
<1>4. CASE net[w].kind = "delete" /\ net[w].state # "sent"
  BY <1>1, <1>4 DEF Carries, ReplyCared, Unclaimed
<1> QED BY <1>1, <1>2, <1>3, <1>4 DEF Carries, Exchange, Kinds

\* The state of the connections after one was left.
LEMMA LeavingCares ==
  ASSUME CInv, NEW m \in Machine, job[m].conn # None, HangUp(job[m].conn)
  PROVE  /\ job[m].conn \in Worker /\ net[job[m].conn] # None
         /\ \A v \in Worker : net'[v] # None =>
                net[v] # None /\ Alike(v) /\ (net'[v].late => net[v].state = "sent")
         /\ \A v \in Worker : net[v] # None /\ net[v].state = "sent" => net'[v] # None /\ Alike(v)
         /\ \A n \in Machine \ {m} : job[n].pc = "cleaning" =>
                net'[job[n].conn].room = job[n].rule.room
<1> DEFINE w == job[m].conn
<1>1. LInv /\ w \in Worker /\ net[w] # None
      /\ \A n \in Machine : Conversing(n) /\ job[n].conn = w => n = m
  BY DEF CInv, LInv, Ruled, ConnectionsOwned
<1>2. /\ \A v \in Worker \ {w} : net'[v] = net[v]
      /\ net[w].state = "sent" => net'[w] # None /\ Alike(w)
      /\ net[w].state # "sent" => net'[w] = None
  BY <1>1, HangUpIs
<1>3. \A v \in Worker : net[v] # None => (net[v].late => net[v].state = "sent")
  BY DEF CInv, RepliesCared, ReplyCared
<1>4. \A n \in Machine \ {m} : job[n].pc = "cleaning" => net'[job[n].conn].room = job[n].rule.room
  BY <1>1, <1>2, OthersClean DEF Conversing
<1> QED BY <1>1, <1>2, <1>3, <1>4 DEF Alike

\* A request given up, or a clean-up that ends, lets go of no room.
LEMMA LeavesCares == ASSUME CInv, NEW m \in Machine, GiveUp(m) \/ CleanupEnds(m) PROVE Cares'
<1> DEFINE w == job[m].conn
<1>1. /\ UNCHANGED <<vars, local>> /\ job[m].pc \in {"posted", "cleaning"} /\ HangUp(w)
      /\ job' = [job EXCEPT ![m] = NoJob("err")]
      /\ excused' = excused \union Unclaimed(w)
  BY DEF GiveUp, CleanupEnds
<1>2. w # None /\ job \in [Machine -> Jobs] /\ net[w] # None
  BY <1>1 DEF CInv, LInv, LifecycleTypeOK, Ruled, ConnectionsOwned, Conversing
<1>3. /\ w \in Worker
      /\ \A v \in Worker : net'[v] # None =>
             net[v] # None /\ Alike(v) /\ (net'[v].late => net[v].state = "sent")
      /\ \A v \in Worker : net[v] # None /\ net[v].state = "sent" => net'[v] # None /\ Alike(v)
      /\ \A n \in Machine \ {m} : job[n].pc = "cleaning" =>
             net'[job[n].conn].room = job[n].rule.room
  BY <1>1, <1>2, LeavingCares
<1>4. \A v \in Worker \ {w} : net'[v] = net[v]
  BY <1>1, <1>2, <1>3, HangUpIs DEF CInv
<1>5. job'[m].pc = "idle" /\ job'[m].rule = None /\ \A n \in Machine \ {m} : job'[n] = job[n]
  BY <1>1, <1>2 DEF NoJob
<1>6. JobsRuled'
  BY <1>3, <1>5 DEF CInv, JobsRuled
<1>7. ASSUME NEW r \in Room, There(r), r \notin excused', Handled(r) PROVE Handled(r)'
  <2>1. ASSUME NEW v \in Worker, Carries(net[v], r) PROVE Handled(r)'
    <3>1. Carries(net'[v], r)
      <4>1. CASE v = w
        BY <1>1, <1>2, <1>3, <1>7, <2>1, <4>1, LeftConnection
      <4>2. CASE v # w
        BY <1>4, <2>1, <4>2
      <4> QED BY <4>1, <4>2
    <3> QED BY <3>1 DEF Handled, Carries
  <2>2. ASSUME NEW n \in Machine, NEW rule \in Rules(n), rule.room = r, rule.role = "host"
        PROVE  Handled(r)'
    <3>1. CASE rule \in Rules(n)'
      BY <2>2, <3>1 DEF Handled, Rules
    <3>2. CASE rule \notin Rules(n)'
      <4>1. n = m /\ rule = job[m].rule /\ rule # None
        BY <1>1, <1>5, <2>2, <3>2 DEF Rules
      <4>2. job[m].pc = "cleaning"
        BY <1>1, <4>1 DEF CInv, JobsRuled
      <4>3. net[w].kind = "delete" /\ net[w].room = r
        BY <2>2, <4>1, <4>2 DEF CInv, LInv, Ruled, ConnectionsOwned, Conversing, JobsRuled
      <4>4. Carries(net[w], r)
        BY <1>2, <4>3 DEF Carries
      <4> QED BY <1>3, <2>1, <4>4
    <3> QED BY <3>1, <3>2
  <2> QED BY <1>7, <2>1, <2>2, HandledBy
<1>8. UNCHANGED vars /\ excused \subseteq excused'
  BY <1>1
<1> QED BY <1>3, <1>6, <1>7, <1>8, AskingCares

\* The rule of a creation is saved, or its room is about to be deleted.
LEMMA SaveRoomRuleCares == ASSUME CInv, NEW m \in Machine, SaveRoomRule(m) PROVE Cares'
<1> DEFINE rule == job[m].rule
<1>1. UNCHANGED <<vars, excused>> /\ job[m].pc = "saving" /\ LInv
  BY DEF SaveRoomRule, CInv
<1>2. /\ rule \in Rule /\ rule # None
      /\ local \in [Machine -> [mem : SUBSET Rule, disk : SUBSET Rule]]
      /\ job \in [Machine -> Jobs]
  BY <1>1, LifecycleAssumption DEF LInv, LifecycleTypeOK, Ruled, SavingKept
<1>3. /\ \A n \in Machine \ {m} : local'[n] = local[n]
      /\ local[m].mem \subseteq local'[m].mem
  BY <1>2 DEF SaveRoomRule
<1>4. ASSUME UNCHANGED net, job'[m].pc = "idle", job'[m].rule = None,
             \A n \in Machine \ {m} : job'[n] = job[n],
             rule \in local'[m].mem \/ rule.role # "host"
      PROVE  Cares'
  <2>1. JobsRuled'
    BY <1>4, OthersClean DEF CInv, JobsRuled
  <2>2. ASSUME NEW r \in Room, Handled(r) PROVE Handled(r)'
    <3>1. ASSUME NEW v \in Worker, Carries(net[v], r) PROVE Handled(r)'
      BY <1>4, <3>1 DEF Handled, Carries
    <3>2. ASSUME NEW n \in Machine, NEW x \in Rules(n), x.room = r, x.role = "host"
          PROVE  Handled(r)'
      <4>1. x \in local'[n].mem \union ({job'[n].rule} \ {None})
        BY <1>3, <1>4, <3>2 DEF Rules
      <4> QED BY <3>2, <4>1 DEF Handled
    <3> QED BY <2>2, <3>1, <3>2, HandledBy
  <2> QED BY <1>1, <1>4, <2>1, <2>2, AskingCares DEF Alike, CInv, RepliesCared, ReplyCared
<1>5. CASE /\ job' = [job EXCEPT ![m] = NoJob("ok")] /\ UNCHANGED net
           /\ local' = [local EXCEPT ![m] = [mem  |-> local[m].mem \union {rule},
                                             disk |-> local[m].mem \union {rule}]]
  BY <1>2, <1>4, <1>5 DEF NoJob
<1>6. CASE Fails(m) /\ rule.role # "host"
  BY <1>2, <1>4, <1>6 DEF Fails, NoJob
<1>7. CASE Fails(m) /\ rule.role = "host"
  <2>1. Send(m, "delete", rule.room, rule.member, "cleaning", rule)
    BY <1>7 DEF Fails
  <2>2. rule.room \in Opt(Room) /\ rule.member \in Opt(Member) /\ rule \in Opt(Rule)
        /\ "delete" \in Kinds
    BY <1>2 DEF Rule, Opt, Kinds
  <2>3. PICK w \in Worker :
           /\ net[w] = None /\ \A v \in Worker \ {w} : net'[v] = net[v]
           /\ net'[w] # None /\ net'[w].kind = "delete" /\ net'[w].room = rule.room
           /\ net'[w].state = "sent" /\ net'[w].late = FALSE
           /\ \A n \in Machine \ {m} : job'[n] = job[n]
           /\ job'[m].pc = "cleaning" /\ job'[m].conn = w /\ job'[m].rule = rule
    <3>1. ASSUME NEW x \in Opt(Rule), NEW room \in Opt(Room), NEW member \in Opt(Member),
                 Send(m, "delete", room, member, "cleaning", x)
          PROVE  \E w \in Worker :
                    /\ net[w] = None /\ \A v \in Worker \ {w} : net'[v] = net[v]
                    /\ net'[w] # None /\ net'[w].kind = "delete" /\ net'[w].room = room
                    /\ net'[w].state = "sent" /\ net'[w].late = FALSE
                    /\ \A n \in Machine \ {m} : job'[n] = job[n]
                    /\ job'[m].pc = "cleaning" /\ job'[m].conn = w /\ job'[m].rule = x
      BY <1>1, <2>2, <3>1, SendIs
    <3> QED BY <2>1, <2>2, <3>1
  <2>4. JobsRuled'
    BY <2>3, OthersClean DEF CInv, JobsRuled
  <2>5. ASSUME NEW r \in Room, Handled(r) PROVE Handled(r)'
    <3>1. ASSUME NEW v \in Worker, Carries(net[v], r) PROVE Handled(r)'
      BY <2>3, <3>1 DEF Handled, Carries
    <3>2. ASSUME NEW n \in Machine, NEW x \in Rules(n), x.room = r, x.role = "host"
          PROVE  Handled(r)'
      <4>1. x \in local'[n].mem \union ({job'[n].rule} \ {None})
        BY <1>3, <2>3, <3>2 DEF Rules
      <4> QED BY <3>2, <4>1 DEF Handled
    <3> QED BY <2>5, <3>1, <3>2, HandledBy
  <2>6. \A v \in Worker : net'[v] # None =>
            \/ net[v] # None /\ Alike(v) /\ (net'[v].late => net[v].state = "sent")
            \/ net'[v].state = "sent" /\ (net'[v].kind = "create" => net'[v].room = None)
    BY <2>3 DEF Alike, CInv, RepliesCared, ReplyCared
  <2>7. \A v \in Worker : net[v] # None /\ net[v].state = "sent" => net'[v] # None /\ Alike(v)
    BY <2>3 DEF Alike
  <2> QED BY <1>1, <2>4, <2>5, <2>6, <2>7, AskingCares
<1> QED BY <1>5, <1>6, <1>7 DEF SaveRoomRule

\* A rule its host deletes excuses the room.
LEMMA DeleteRoomRuleCares == ASSUME CInv, NEW m \in Machine, DeleteRoomRule(m) PROVE Cares'
<1>1. UNCHANGED <<vars, job, net>>
  BY DEF DeleteRoomRule
<1>2. PICK rule \in local[m].mem :
         LET left == local[m].mem \ {rule} IN
         /\ \/ local' = [local EXCEPT ![m] = [mem |-> left, disk |-> left]]
            \/ local' = [local EXCEPT ![m].mem = left]
         /\ Excuse(rule.room, rule.role = "host")
  BY DEF DeleteRoomRule
<1>3. local \in [Machine -> [mem : SUBSET Rule, disk : SUBSET Rule]]
  BY DEF CInv, LInv, LifecycleTypeOK
<1>4. /\ \A n \in Machine \ {m} : local'[n] = local[n]
      /\ local'[m].mem = local[m].mem \ {rule}
      /\ excused \subseteq excused' /\ (rule.role = "host" => rule.room \in excused')
  BY <1>2, <1>3 DEF Excuse
<1>5. JobsRuled'
  BY <1>1 DEF CInv, JobsRuled
<1>6. ASSUME NEW r \in Room, r \notin excused', Handled(r) PROVE Handled(r)'
  <2>1. ASSUME NEW v \in Worker, Carries(net[v], r) PROVE Handled(r)'
    BY <1>1, <2>1 DEF Handled, Carries
  <2>2. ASSUME NEW n \in Machine, NEW x \in Rules(n), x.room = r, x.role = "host"
        PROVE  Handled(r)'
    <3>1. x \in local'[n].mem \union ({job'[n].rule} \ {None})
      BY <1>1, <1>4, <1>6, <2>2 DEF Rules
    <3> QED BY <2>2, <3>1 DEF Handled
  <2> QED BY <1>6, <2>1, <2>2, HandledBy
<1> QED BY <1>1, <1>4, <1>5, <1>6, AskingCares DEF Alike, CInv, RepliesCared, ReplyCared

\* A backend that dies keeps the rules of its store and excuses the others' rooms.
LEMMA RestartMachineCares == ASSUME CInv, NEW m \in Machine, RestartMachine(m) PROVE Cares'
<1> DEFINE rule == job[m].rule
           w == job[m].conn
<1>1. /\ UNCHANGED vars /\ job' = [job EXCEPT ![m] = NoJob("none")]
      /\ IF w = None THEN UNCHANGED net ELSE HangUp(w)
      /\ excused' = excused \union (IF w # None THEN Unclaimed(w) ELSE {})
                            \union (IF rule # None THEN {rule.room} ELSE {})
                            \union {x.room : x \in local[m].mem \ local[m].disk}
  BY DEF RestartMachine
<1>2. /\ local \in [Machine -> [mem : SUBSET Rule, disk : SUBSET Rule]] /\ job \in [Machine -> Jobs]
      /\ \E kept : local[m].disk \intersect local[m].mem \subseteq kept
                   /\ local' = [local EXCEPT ![m] = [mem |-> kept, disk |-> kept]]
  BY DEF CInv, LInv, LifecycleTypeOK, RestartMachine
<1>3. /\ \A n \in Machine \ {m} : local'[n] = local[n]
      /\ local[m].disk \intersect local[m].mem \subseteq local'[m].mem
  BY <1>2
<1>4. job'[m].pc = "idle" /\ job'[m].rule = None /\ \A n \in Machine \ {m} : job'[n] = job[n]
  BY <1>1, <1>2 DEF NoJob
<1>5. /\ w # None => w \in Worker /\ net[w] # None
      /\ \A v \in Worker : net'[v] # None =>
             net[v] # None /\ Alike(v) /\ (net'[v].late => net[v].state = "sent")
      /\ \A v \in Worker : net[v] # None /\ net[v].state = "sent" => net'[v] # None /\ Alike(v)
      /\ \A n \in Machine \ {m} : job[n].pc = "cleaning" =>
             net'[job[n].conn].room = job[n].rule.room
  <2>1. CASE w # None
    BY <1>1, <2>1, LeavingCares
  <2>2. CASE w = None
    BY <1>1, <2>2, OthersClean DEF Alike, CInv, RepliesCared, ReplyCared
  <2> QED BY <2>1, <2>2
<1>6. JobsRuled'
  BY <1>4, <1>5 DEF CInv, JobsRuled
<1>7. ASSUME NEW r \in Room, There(r), r \notin excused', Handled(r) PROVE Handled(r)'
  <2>1. ASSUME NEW v \in Worker, Carries(net[v], r) PROVE Handled(r)'
    <3>1. Carries(net'[v], r)
      <4>1. CASE w = None
        BY <1>1, <2>1, <4>1
      <4>2. CASE w # None /\ v = w
        BY <1>1, <1>5, <1>7, <2>1, <4>2, LeftConnection
      <4>3. CASE w # None /\ v # w
        BY <1>1, <1>5, <2>1, <4>3, HangUpIs DEF CInv
      <4> QED BY <4>1, <4>2, <4>3
    <3> QED BY <3>1 DEF Handled, Carries
  <2>2. ASSUME NEW n \in Machine, NEW x \in Rules(n), x.room = r, x.role = "host"
        PROVE  Handled(r)'
    <3>1. x \in local'[n].mem \union ({job'[n].rule} \ {None})
      BY <1>1, <1>3, <1>4, <1>7, <2>2 DEF Rules
    <3> QED BY <2>2, <3>1 DEF Handled
  <2> QED BY <1>7, <2>1, <2>2, HandledBy
<1>8. excused \subseteq excused'
  BY <1>1
<1> QED BY <1>1, <1>5, <1>6, <1>7, <1>8, AskingCares

-----------------------------------------------------------------------------

\* There are no rooms at first.
LEMMA CleanupInitOK == ASSUME LifecycleInit PROVE CInv
<1>1. LInv
  BY LifecycleInitOK
<1>2. /\ \A r \in Room : ~ There(r)
      /\ \A w \in Worker : net[w] = None /\ req[w].pc = "idle"
      /\ \A m \in Machine : job[m] = NoJob("none")
  BY DEF LifecycleInit, Init, Empty, There, Idle
<1> QED BY <1>1, <1>2 DEF CInv, RoomsCared, RepliesCared, DeletionsServed, JobsRuled, NoJob

\* CInv is inductive.
LEMMA CleanupNextOK == ASSUME CInv, [LifecycleNext]_lifecycleVars PROVE CInv'
<1>1. LInv'
  BY LifecycleNextOK DEF CInv
<1>2. CASE UNCHANGED lifecycleVars
  <2>1. UNCHANGED <<mem, disk, req, job, net, local, excused>>
    BY <1>2 DEF lifecycleVars, clientVars, vars
  <2>2. Cares'
    BY <2>1 DEF CInv, Cares, RoomsCared, RepliesCared, DeletionsServed, JobsRuled, There,
       Handled, ReplyCared
  <2> QED BY <1>1, <2>2 DEF CInv, Cares
<1>3. CASE \E w \in Worker : Serve(w)
  BY <1>1, <1>3, ServeCreateCares, ServeJoinCares, ServeAuthCares, ServeDeleteCares,
     FrpcLoginCares DEF Serve, CInv, Cares
<1>4. CASE RestartServer
  BY <1>1, <1>4, RestartServerCares DEF CInv, Cares
<1>5. ASSUME NEW m \in Machine,
             \/ CreateRoomHost(m) \/ JoinByCode(m) \/ DeleteRoomRule(m)
             \/ JobStep(m) \/ RestartMachine(m)
      PROVE  Cares'
  BY <1>5, PostingCares, DeleteRoomRuleCares, ReceiveCares, LeavesCares, SaveRoomRuleCares,
     RestartMachineCares DEF JobStep
<1> QED BY <1>1, <1>2, <1>3, <1>4, <1>5 DEF LifecycleNext, CInv, Cares

\* For any number of backends, connections and rooms: a room that is there met a
\* fault that excuses it, or somebody still deals with it.
THEOREM RoomsAreCleanedUp == LifecycleSpec => []NoRoomIsLeftBehind
<1>1. LifecycleInit => CInv
  BY CleanupInitOK
<1>2. CInv /\ [LifecycleNext]_lifecycleVars => CInv'
  BY CleanupNextOK
<1>3. CInv => NoRoomIsLeftBehind
  BY DEF CInv, LInv, IInv, TypeOK, Data, RoomsCared, There, NoRoomIsLeftBehind, Present
<1> QED BY <1>1, <1>2, <1>3, PTL DEF LifecycleSpec
=============================================================================
