--------------------------- MODULE ProcessServeProofs ---------------------------
(***************************************************************************)
(* What an Apply of the process manager leaves behind when it succeeds, and    *)
(* that its configs have separate admin ports, for any goroutines, keys and    *)
(* processes.                                                                *)
(*                                                                         *)
(* While calls succeed one after the other, the files are the configs of the   *)
(* call under way, so what boots runs them; and at most one frpc is up on a     *)
(* port, so the one that frpc reload talks to is the one of the key.            *)
(***************************************************************************)
EXTENDS ProcessManagerProofs

-----------------------------------------------------------------------------
(* The admin ports.  The assignment is a recursive function, in the order of     *)
(* rendering; that it has a solution is proved by induction along this order.   *)

\* What the loop ends with is not taken; a candidate that is free is kept.
LEMMA FirstFreeIsFree ==
    ASSUME NEW candidate \in Nat, NEW used
    PROVE  /\ FirstFree(candidate, used) \notin used \/ FirstFree(candidate, used) = None
           /\ candidate \in 1 .. MaxPort \ used => FirstFree(candidate, used) = candidate
<1> DEFINE last == IF candidate < Base THEN Base - 1 ELSE MaxPort
           upwards == (candidate .. last) \ used
           again == (Base + 1 .. candidate - 1) \ used
<1>1. last \in Nat /\ Base \in Nat /\ MaxPort \in Nat
  BY PortAssumption
<1>2. FirstFree(candidate, used) =
        IF upwards # {} THEN First(upwards) ELSE IF again # {} THEN First(again) ELSE None
  BY DEF FirstFree
<1>3. upwards \in SUBSET Nat /\ again \in SUBSET Nat
  BY <1>1
<1>4. candidate \in 1 .. MaxPort \ used => candidate \in upwards /\ \A j \in upwards : candidate <= j
  BY <1>1
<1>5. upwards \intersect used = {} /\ again \intersect used = {}
  OBVIOUS
<1> HIDE DEF upwards, again, last
<1>6. candidate \in 1 .. MaxPort \ used => First(upwards) = candidate
  <2> SUFFICES ASSUME candidate \in 1 .. MaxPort \ used PROVE First(upwards) = candidate
    OBVIOUS
  <2> DEFINE n == First(upwards)
  <2>1. n \in upwards /\ n <= candidate /\ candidate <= n
    BY <1>3, <1>4, FirstIn
  <2> HIDE DEF n
  <2>2. n = candidate
    BY <2>1, <1>3
  <2> QED BY <2>2 DEF n
<1> QED BY <1>2, <1>3, <1>4, <1>5, <1>6, FirstIn

\* The port a key gets when f has those of the keys rendered before it.
Candidate(k) == IF k = Default THEN Base ELSE CandidateAdminPort(k)
PortAfter(f, active, k) == FirstFree(Candidate(k), {f[j] : j \in {i \in active : RenderedBefore(i, k)}})

\* The place of a key in the order of rendering, and the keys before place n.
Place(k) == IF k = Default THEN 0 ELSE k + 1
UpTo(active, n) == {k \in active : Place(k) < n}

\* Keys are rendered in the order of their places.
LEMMA Places ==
    ASSUME NEW j \in Key, NEW k \in Key
    PROVE  Place(j) \in Nat /\ (RenderedBefore(j, k) <=> Place(j) < Place(k)) /\ (Place(j) = Place(k) => j = k)
BY Present DEF Place, RenderedBefore

\* The port of a key depends on the ports before it only.
LEMMA SamePorts ==
    ASSUME NEW active \in SUBSET Key, NEW k \in active, NEW f, NEW g,
           \A j \in active : Place(j) < Place(k) => f[j] = g[j]
    PROVE  PortAfter(f, active, k) = PortAfter(g, active, k)
<1>1. {f[j] : j \in {i \in active : RenderedBefore(i, k)}} = {g[j] : j \in {i \in active : RenderedBefore(i, k)}}
  BY Places
<1> QED BY <1>1 DEF PortAfter

\* f assigns the keys of D as the loop does.
Solves(f, active, D) == f = [k \in D |-> PortAfter(f, active, k)]

\* Induction over the natural numbers: a set without a least element is empty.
LEMMA NoLeastException ==
    ASSUME NEW S \in SUBSET Nat, \A n \in Nat : (\A m \in Nat : m < n => m \notin S) => n \notin S
    PROVE  S = {}
<1> SUFFICES ASSUME S # {} PROVE FALSE
  OBVIOUS
<1>1. PICK n \in S : \A j \in S : n <= j
  BY FirstIn
<1>2. n \in Nat /\ \A m \in Nat : m < n => m \notin S
  BY <1>1
<1> QED BY <1>2

\* Two assignments that follow the loop agree where both are defined.
LEMMA SolutionsAgree ==
    ASSUME NEW active \in SUBSET Key, NEW n \in Nat, NEW m \in Nat, NEW f, NEW g,
           Solves(f, active, UpTo(active, n)), Solves(g, active, UpTo(active, m))
    PROVE  \A k \in UpTo(active, n) \intersect UpTo(active, m) : f[k] = g[k]
<1> DEFINE both == UpTo(active, n) \intersect UpTo(active, m)
           S == {Place(k) : k \in {i \in both : f[i] # g[i]}}
<1>1. S \in SUBSET Nat
  BY Places DEF UpTo
<1>2. ASSUME NEW i \in Nat, \A j \in Nat : j < i => j \notin S
      PROVE  i \notin S
  <2> SUFFICES ASSUME NEW k \in both, i = Place(k) PROVE f[k] = g[k]
    OBVIOUS
  <2>1. ASSUME NEW j \in active, Place(j) < Place(k)
        PROVE  f[j] = g[j]
    <3>1. j \in both
      BY <2>1, Places, Present DEF UpTo
    <3>2. Place(j) \notin S
      BY <1>2, <2>1, Places
    <3> QED BY <3>1, <3>2
  <2>2. PortAfter(f, active, k) = PortAfter(g, active, k)
    BY <2>1, SamePorts DEF UpTo
  <2>3. f[k] = PortAfter(f, active, k) /\ g[k] = PortAfter(g, active, k)
    BY Zenon DEF Solves
  <2> QED BY <2>2, <2>3
<1> HIDE DEF S
<1>3. S = {}
  BY <1>1, <1>2, NoLeastException
<1> QED BY <1>3 DEF S

\* One more key can always be assigned.
LEMMA SolvedUpTo ==
    ASSUME NEW active \in SUBSET Key
    PROVE  \A n \in Nat : \E f : Solves(f, active, UpTo(active, n))
<1> DEFINE S == {n \in Nat : ~ \E f : Solves(f, active, UpTo(active, n))}
<1>1. ASSUME NEW n \in Nat, \A m \in Nat : m < n => m \notin S
      PROVE  n \notin S
  <2>1. CASE n = 0
    <3>1. UpTo(active, 0) = {}
      BY Places DEF UpTo
    <3>2. Solves([k \in {} |-> 0], active, {})
      BY DEF Solves
    <3> QED BY <2>1, <3>1, <3>2
  <2>2. CASE n # 0
    <3>1. PICK f : Solves(f, active, UpTo(active, n - 1))
      BY <1>1, <2>2
    <3> DEFINE g == [k \in UpTo(active, n) |-> PortAfter(f, active, k)]
    <3>2. \A k \in UpTo(active, n - 1) : k \in UpTo(active, n) /\ f[k] = g[k]
      <4>1. \A k \in UpTo(active, n - 1) : k \in UpTo(active, n)
        BY Places DEF UpTo
      <4>2. \A k \in UpTo(active, n - 1) : f[k] = PortAfter(f, active, k)
        BY <3>1, Zenon DEF Solves
      <4> QED BY <4>1, <4>2
    <3>3. ASSUME NEW k \in UpTo(active, n)
          PROVE  PortAfter(f, active, k) = PortAfter(g, active, k)
      <4>1. k \in active /\ Place(k) <= n - 1
        BY Places DEF UpTo
      <4>2. ASSUME NEW j \in active, Place(j) < Place(k)
            PROVE  f[j] = g[j]
        <5>1. j \in UpTo(active, n - 1)
          BY <4>1, <4>2, Places DEF UpTo
        <5> QED BY <5>1, <3>2
      <4> HIDE DEF g
      <4> QED BY <4>1, <4>2, SamePorts
    <3>4. g = [k \in UpTo(active, n) |-> PortAfter(g, active, k)]
      BY <3>3
    <3> HIDE DEF g
    <3>5. Solves(g, active, UpTo(active, n))
      BY <3>4 DEF Solves
    <3> QED BY <3>5
  <2> QED BY <2>1, <2>2
<1> HIDE DEF S
<1>2. S = {}
  BY <1>1, NoLeastException DEF S
<1> QED BY <1>2 DEF S

\* The recursion in the order of rendering is well founded: its equation has a solution.
LEMMA Solved ==
    ASSUME NEW active \in SUBSET Key
    PROVE  \E f : Solves(f, active, active)
<1> DEFINE upTo(n) == CHOOSE f : Solves(f, active, UpTo(active, n))
           g == [k \in active |-> upTo(Place(k) + 1)[k]]
<1>1. \A n \in Nat : Solves(upTo(n), active, UpTo(active, n))
  BY SolvedUpTo
<1> HIDE DEF upTo
<1>2. ASSUME NEW k \in active
      PROVE  g[k] = PortAfter(g, active, k)
  <2>1. Place(k) \in Nat /\ k \in UpTo(active, Place(k) + 1)
    BY Places DEF UpTo
  <2> DEFINE f == upTo(Place(k) + 1)
  <2>2. Solves(f, active, UpTo(active, Place(k) + 1))
    BY <1>1, <2>1
  <2>3. f[k] = PortAfter(f, active, k)
    BY <2>1, <2>2, Zenon DEF Solves
  <2>4. ASSUME NEW j \in active, Place(j) < Place(k)
        PROVE  f[j] = g[j]
    <3>1. Place(j) \in Nat /\ j \in UpTo(active, Place(j) + 1) /\ j \in UpTo(active, Place(k) + 1)
      BY <2>1, <2>4, Places DEF UpTo
    <3>2. Solves(upTo(Place(j) + 1), active, UpTo(active, Place(j) + 1))
      BY <1>1, <3>1
    <3>3. f[j] = upTo(Place(j) + 1)[j]
      BY <2>1, <2>2, <3>1, <3>2, SolutionsAgree
    <3> QED BY <3>3
  <2>5. g[k] = f[k]
    OBVIOUS
  <2> HIDE DEF g, f
  <2>6. PortAfter(f, active, k) = PortAfter(g, active, k)
    BY <2>4, SamePorts
  <2> QED BY <2>3, <2>5, <2>6
<1>3. g = [k \in active |-> PortAfter(g, active, k)]
  BY <1>2
<1> HIDE DEF g
<1> QED BY <1>3 DEF Solves

\* So the assignment follows the loop: the recursion means what it says.
LEMMA AssignmentSolves ==
    ASSUME NEW active \in SUBSET Key
    PROVE  Solves(AssignAdminPorts(active), active, active)
<1>1. AssignAdminPorts(active) = CHOOSE f : f = [k \in active |-> PortAfter(f, active, k)]
  BY DEF AssignAdminPorts, PortAfter, Candidate
<1>2. AssignAdminPorts(active) = CHOOSE f : Solves(f, active, active)
  BY <1>1 DEF Solves
<1> QED BY <1>2, Solved

\* assignAdminPorts gives no port twice and the default node the configured one,
\* for any set of keys, any hashes and any base port.
THEOREM AdminPortsAreSeparate ==
    ASSUME NEW active \in SUBSET Key, NEW ports, ports = AssignAdminPorts(active)
    PROVE  /\ \A j, k \in active : ports[j] = ports[k] /\ ports[j] # None => j = k
           /\ Default \in active => ports[Default] = Base
<1>1. \A k \in active : ports[k] = PortAfter(ports, active, k)
  BY AssignmentSolves, Zenon DEF Solves
<1>2. \A k \in active : Candidate(k) \in Nat
  BY PortAssumption DEF Candidate, CandidateAdminPort
<1>3. ASSUME NEW j \in active, NEW k \in active, RenderedBefore(j, k), ports[j] # None
      PROVE  ports[j] # ports[k]
  <2>1. ports[j] \in {ports[i] : i \in {i \in active : RenderedBefore(i, k)}}
    BY <1>3
  <2> DEFINE used == {ports[i] : i \in {i \in active : RenderedBefore(i, k)}}
  <2>2. ports[k] = FirstFree(Candidate(k), used)
    BY <1>1 DEF PortAfter
  <2> HIDE DEF used
  <2>3. ports[k] \notin used \/ ports[k] = None
    BY <1>2, <2>2, FirstFreeIsFree
  <2> QED BY <1>3, <2>1, <2>3 DEF used
<1>4. \A j, k \in active : j = k \/ RenderedBefore(j, k) \/ RenderedBefore(k, j)
  BY Present DEF RenderedBefore
<1>5. Default \in active => ports[Default] = Base
  <2> SUFFICES ASSUME Default \in active PROVE ports[Default] = Base
    OBVIOUS
  <2>1. ports[Default] = FirstFree(Base, {})
    BY <1>1 DEF PortAfter, Candidate, RenderedBefore
  <2>2. Base \in Nat /\ Base \in 1 .. MaxPort \ {}
    BY PortAssumption
  <2> QED BY <2>1, <2>2, FirstFreeIsFree
<1> QED BY <1>3, <1>4, <1>5

-----------------------------------------------------------------------------
(* The steps of a call, exactly.                                            *)

\* The configs of a call have distinct ports.
Separate(cfg) ==
    /\ \A j, k \in Active(cfg) : cfg[j].port = cfg[k].port => j = k
    /\ Default \in Active(cfg) => cfg[Default].port = Base

\* What is rendered has types and separate ports.
LEMMA RenderedSeparate ==
    ASSUME NEW content \in [Key -> Opt(Content)],
           \A k \in Active(content) : Rendered(content)[k].port \in Port
    PROVE  /\ Rendered(content) \in [Key -> Opt(Config)]
           /\ Active(Rendered(content)) = Active(content)
           /\ Separate(Rendered(content))
<1> DEFINE ports == AssignAdminPorts(Active(content))
           cfg == Rendered(content)
<1>1. cfg = [k \in Key |-> IF content[k] = None THEN None
                 ELSE [section |-> content[k].section, proxies |-> content[k].proxies,
                       port |-> ports[k]]]
  BY DEF Rendered
<1>2. /\ \A j, k \in Active(content) : ports[j] = ports[k] /\ ports[j] # None => j = k
      /\ Default \in Active(content) => ports[Default] = Base
  <2>1. Active(content) \in SUBSET Key
    BY DEF Active
  <2> QED BY <2>1, AdminPortsAreSeparate
<1> HIDE DEF ports
<1>3. \A k \in Active(content) : cfg[k] \in Config /\ cfg[k].port = ports[k]
  <2> SUFFICES ASSUME NEW k \in Active(content) PROVE cfg[k] \in Config /\ cfg[k].port = ports[k]
    OBVIOUS
  <2>1. k \in Key /\ content[k] # None /\ content[k] \in [section : Section, proxies : Proxies]
    BY ManagerAssumption DEF Active, Opt
  <2>2. cfg[k].port \in Port
    OBVIOUS
  <2>3. cfg[k] = [section |-> content[k].section, proxies |-> content[k].proxies, port |-> ports[k]]
    BY <1>1, <2>1
  <2> HIDE DEF cfg
  <2> QED BY <2>1, <2>2, <2>3 DEF Config
<1>4. \A k \in Key \ Active(content) : cfg[k] = None
  BY <1>1 DEF Active
<1>5. DOMAIN cfg = Key /\ cfg = [k \in Key |-> cfg[k]]
  BY <1>1
<1>6. \A k \in Active(content) : ports[k] # None
  BY <1>3, PortAssumption DEF Port
<1> HIDE DEF cfg
<1>7. Active(cfg) = Active(content)
  BY <1>3, <1>4, Present DEF Active
<1>8. cfg \in [Key -> Opt(Config)]
  BY <1>3, <1>4, <1>5 DEF Opt
<1>9. Separate(cfg)
  BY <1>2, <1>3, <1>6, <1>7 DEF Separate
<1> QED BY <1>7, <1>8, <1>9 DEF cfg

\* A call after Finish.
LEMMA FinishIs ==
    ASSUME TypeOK, NEW c \in Caller, NEW res, Finish(c, res)
    PROVE  /\ call'[c] = Idle(res) /\ \A d \in Caller \ {c} : call'[d] = call[d]
           /\ clean' => clean /\ res = "ok"
           /\ clean /\ res = "ok" => clean'
BY DEF Finish, TypeOK

\* A call that is over.
LEMMA IdleIs ==
    ASSUME NEW res
    PROVE  /\ Idle(res).pc = "idle" /\ Idle(res).cfg = NoConfig /\ Idle(res).res = res
           /\ Active(NoConfig) = {}
BY DEF Idle, NoConfig, Active

\* A call after Continue.
LEMMA ContinueIs ==
    ASSUME TypeOK, NEW c \in Caller, NEW stops, NEW todo, Continue(c, stops, todo)
    PROVE  /\ \A d \in Caller \ {c} : call'[d] = call[d]
           /\ clean' <=> clean
           /\ stops = {} /\ todo = {} => call'[c] = Idle("ok")
           /\ ~ (stops = {} /\ todo = {}) =>
                /\ call'[c].cfg = call[c].cfg /\ call'[c].stops = stops /\ call'[c].todo = todo
                /\ call'[c].pc = IF stops # {} THEN "stop" ELSE "check"
                /\ call'[c].key = IF stops # {} THEN None ELSE First(todo)
<1>1. CASE stops = {} /\ todo = {}
  BY <1>1, FinishIs DEF Continue
<1>2. CASE ~ (stops = {} /\ todo = {})
  <2> DEFINE r == [call[c] EXCEPT
                      !.pc = IF stops # {} THEN "stop" ELSE "check",
                      !.stops = stops, !.todo = todo, !.victim = None,
                      !.key = IF stops # {} THEN None ELSE First(todo)]
  <2>1. call' = [call EXCEPT ![c] = r] /\ UNCHANGED clean
    BY <1>2 DEF Continue
  <2>2. call \in [Caller -> Calls] /\ call[c] \in Calls
    BY DEF TypeOK
  <2>3. /\ r.cfg = call[c].cfg /\ r.stops = stops /\ r.todo = todo
        /\ r.pc = IF stops # {} THEN "stop" ELSE "check"
        /\ r.key = IF stops # {} THEN None ELSE First(todo)
    BY <2>2 DEF Calls
  <2> HIDE DEF r
  <2>4. call'[c] = r /\ \A d \in Caller \ {c} : call'[d] = call[d]
    BY <2>1, <2>2
  <2> QED BY <1>2, <2>1, <2>3, <2>4
<1> QED BY <1>1, <1>2

\* A call after Goto.
LEMMA GotoIs ==
    ASSUME TypeOK, NEW c \in Caller, NEW pc, Goto(c, pc)
    PROVE  /\ \A d \in Caller \ {c} : call'[d] = call[d]
           /\ call'[c].pc = pc /\ call'[c].cfg = call[c].cfg /\ call'[c].stops = call[c].stops
           /\ call'[c].todo = call[c].todo /\ call'[c].key = call[c].key
           /\ call'[c].victim = call[c].victim /\ call'[c].res = call[c].res
<1> DEFINE r == [call[c] EXCEPT !.pc = pc]
<1>1. call \in [Caller -> Calls] /\ call[c] \in Calls
  BY DEF TypeOK
<1>2. /\ r.pc = pc /\ r.cfg = call[c].cfg /\ r.stops = call[c].stops /\ r.todo = call[c].todo
      /\ r.key = call[c].key /\ r.victim = call[c].victim /\ r.res = call[c].res
  BY <1>1 DEF Calls
<1>3. call' = [call EXCEPT ![c] = r]
  BY <1>1 DEF Goto
<1> HIDE DEF r
<1> QED BY <1>1, <1>2, <1>3

-----------------------------------------------------------------------------
(* The invariant of calls that succeed one after the other.                  *)

\* A managed process that runs, or will run, a config.
Serves(k, config) ==
    /\ table[k] # None
    /\ proc[table[k]].restartKey = RestartKey(config)
    /\ proc[table[k]].state = "up" => proc[table[k]].loaded = config

\* Two frpc never listen on one port.
OneFrpcPerPort ==
    \A p, q \in Proc :
        /\ proc[p].state = "up" /\ proc[q].state = "up"
        /\ proc[p].loaded.port = proc[q].loaded.port
        => p = q

\* What a managed process runs, or will run when it booted, has the restart key
\* the manager remembers.
RunsAsStarted ==
    \A k \in Key : table[k] # None =>
        /\ proc[table[k]].state = "booting" => proc[table[k]].restartKey = RestartKey(file[k])
        /\ proc[table[k]].state = "up" =>
               proc[table[k]].restartKey = RestartKey(proc[table[k]].loaded)

\* The key a call r stops, starts or reloads.
Current(r) == IF r.key # None THEN r.key ELSE First(r.stops)

\* The keys a call r is done with are served; the stale ones that run will be stopped.
ServedSoFar(r) ==
    /\ \A k \in Active(r.cfg) \ r.todo : Serves(k, r.cfg[k])
    /\ Active(r.cfg) # {} =>
           \A k \in Key \ Active(r.cfg) : Running(table[k]) => k \in r.stops

\* What a call r alone relies on from step to step.
Orderly(r) ==
    /\ \A k \in Active(r.cfg) : file[k] = r.cfg[k]
    /\ r.stops \intersect Active(r.cfg) = {}
    /\ r.key # None => r.stops = {} /\ r.key \in r.todo
    /\ IF r.pc = "scan" THEN r.todo = Active(r.cfg) ELSE ServedSoFar(r)
    /\ r.pc \in {"kill", "wait", "start"} => ~ Running(table[Current(r)])
    /\ r.pc \in {"reload", "record"} =>
           /\ table[r.key] # None
           /\ proc[table[r.key]].restartKey = RestartKey(r.cfg[r.key])
    /\ r.pc = "record" /\ r.res = "ok" => Serves(r.key, r.cfg[r.key])

\* The inductive invariant, beside IInv.
ServeInv ==
    /\ OneFrpcPerPort
    /\ \A c \in Caller : call[c].pc = "idle" => call[c].cfg = NoConfig
    /\ clean =>
         /\ RunsAsStarted
         /\ \A c, d \in Caller : c # d => call[c].pc = "idle" \/ call[d].pc = "idle"
         /\ \A c \in Caller : call[c].pc # "idle" => Orderly(call[c])

\* What a call with the configs cfg has to have done.
AllServed(cfg) ==
    /\ \A k \in Active(cfg) : Serves(k, cfg[k])
    /\ Active(cfg) # {} => \A k \in Key \ Active(cfg) : ~ Running(table[k])

\* What a step of the call of c with the configs cfg leaves behind.
LeavesOrder(c, cfg) ==
    /\ \A d \in Caller \ {c} : call'[d] = call[d]
    /\ clean' => clean
    /\ call'[c].pc = "idle" => call'[c].cfg = NoConfig
    /\ clean' /\ call'[c].pc # "idle" => Orderly(call[c])'
    /\ clean /\ call'[c].pc = "idle" /\ call'[c].res = "ok" => AllServed(cfg)'
    /\ call'[c].cfg \in {cfg, NoConfig}

\* The parts of the invariant while every call succeeded.
LEMMA CleanParts ==
    ASSUME ServeInv, clean, NEW c \in Caller, call[c].pc # "idle"
    PROVE  /\ Orderly(call[c]) /\ RunsAsStarted
           /\ \A d \in Caller \ {c} : call[d].pc = "idle"
BY DEF ServeInv

\* With the processes in order, a step of a call that leaves order keeps the invariant.
LEMMA LeavesServed ==
    ASSUME IInv, ServeInv, NEW c \in Caller, NEW cfg, cfg = call[c].cfg, call[c].pc # "idle",
           LeavesOrder(c, cfg), OneFrpcPerPort', clean' => RunsAsStarted'
    PROVE  ServeInv'
<1>1. \A d \in Caller : call'[d].pc = "idle" => call'[d].cfg = NoConfig
  BY DEF LeavesOrder, ServeInv
<1>2. ASSUME clean'
      PROVE  /\ \A d, e \in Caller : d # e => call'[d].pc = "idle" \/ call'[e].pc = "idle"
             /\ \A d \in Caller : call'[d].pc # "idle" => Orderly(call[d])'
  <2>1. clean /\ \A d \in Caller \ {c} : call'[d].pc = "idle"
    BY <1>2, CleanParts DEF LeavesOrder
  <2> QED BY <1>2, <2>1 DEF LeavesOrder
<1> QED BY <1>1, <1>2 DEF ServeInv

\* A call that goes on with what is left.
LEMMA ContinueLeaves ==
    ASSUME IInv, NEW c \in Caller, NEW cfg, cfg = call[c].cfg,
           NEW stops, NEW todo \in SUBSET Active(cfg), Continue(c, stops, todo),
           clean =>
             /\ stops \intersect Active(cfg) = {}
             /\ \A k \in Active(cfg) : file'[k] = cfg[k]
             /\ \A k \in Active(cfg) \ todo : Serves(k, cfg[k])'
             /\ Active(cfg) # {} => \A k \in Key \ Active(cfg) : Running(table[k])' => k \in stops
    PROVE  LeavesOrder(c, cfg)
<1> USE Parts
<1>1. CASE stops = {} /\ todo = {}
  <2>1. /\ \A d \in Caller \ {c} : call'[d] = call[d]
        /\ clean' <=> clean
        /\ call'[c] = Idle("ok")
    BY <1>1, ContinueIs
  <2>2. clean => AllServed(cfg)'
    BY <1>1 DEF AllServed
  <2> QED BY <2>1, <2>2, IdleIs DEF LeavesOrder
<1>2. CASE ~ (stops = {} /\ todo = {})
  <2>1. /\ \A d \in Caller \ {c} : call'[d] = call[d]
        /\ clean' <=> clean
        /\ call'[c].cfg = cfg /\ call'[c].stops = stops /\ call'[c].todo = todo
        /\ call'[c].pc = IF stops # {} THEN "stop" ELSE "check"
        /\ call'[c].key = IF stops # {} THEN None ELSE First(todo)
    BY <1>2, ContinueIs
  <2>2. stops = {} => First(todo) \in todo
    BY <1>2, FirstIn, Present DEF Active
  <2>3. ASSUME clean
        PROVE  Orderly(call[c])'
    <3>1. ServedSoFar(call[c])'
      BY <2>1, <2>3 DEF ServedSoFar
    <3> QED BY <2>1, <2>2, <2>3, <3>1 DEF Orderly
  <2>4. call'[c].pc # "idle"
    BY <2>1
  <2> QED BY <2>1, <2>3, <2>4 DEF LeavesOrder
<1> QED BY <1>1, <1>2

\* A call that fails.
LEMMA FinishLeaves ==
    ASSUME IInv, NEW c \in Caller, NEW cfg, cfg = call[c].cfg, Finish(c, "err")
    PROVE  LeavesOrder(c, cfg)
BY Parts, FinishIs, IdleIs DEF LeavesOrder

\* A call that goes to another step of the same key.
LEMMA GotoLeaves ==
    ASSUME IInv, NEW c \in Caller, NEW cfg, cfg = call[c].cfg, NEW pc, Goto(c, pc), UNCHANGED clean,
           pc \in {"stop", "wait", "start", "reload"}, call[c].pc # "scan",
           UNCHANGED file,
           clean =>
             /\ Orderly(call[c])
             /\ \A k \in Active(cfg) \ call[c].todo : Serves(k, cfg[k])'
             /\ \A k \in Key : Running(table[k])' => Running(table[k])
             /\ pc \in {"wait", "start"} => ~ Running(table[Current(call[c])])'
             /\ pc = "reload" => (table'[call[c].key] # None /\
                    proc'[table'[call[c].key]].restartKey = RestartKey(cfg[call[c].key]))
    PROVE  LeavesOrder(c, cfg)
<1>1. /\ \A d \in Caller \ {c} : call'[d] = call[d]
      /\ call'[c].pc = pc /\ call'[c].cfg = cfg /\ call'[c].stops = call[c].stops
      /\ call'[c].todo = call[c].todo /\ call'[c].key = call[c].key
  BY Parts, GotoIs
<1>2. ASSUME clean
      PROVE  Orderly(call[c])'
  <2>1. ServedSoFar(call[c])'
    BY <1>1, <1>2 DEF ServedSoFar, Orderly
  <2>2. Current(call[c])' = Current(call[c])
    BY <1>1 DEF Current
  <2>3. pc \in {"wait", "start"} => ~ Running(table[Current(call[c])])'
    BY <1>2
  <2> QED BY <1>1, <1>2, <2>1, <2>2, <2>3 DEF Orderly
<1> QED BY <1>1, <1>2 DEF LeavesOrder

\* A stopped key: the next stale one, or the start of the key that is restarted.
LEMMA StopDoneLeaves ==
    ASSUME IInv, NEW c \in Caller, NEW cfg, cfg = call[c].cfg, StopDone(c),
           call[c].pc \in {"stop", "kill", "wait"}, UNCHANGED file,
           clean =>
             /\ Orderly(call[c])
             /\ \A k \in Active(cfg) \ call[c].todo : Serves(k, cfg[k])'
             /\ \A k \in Key : Running(table[k])' => Running(table[k])
             /\ \A k \in Key : k = Current(call[c]) => ~ Running(table[k])'
    PROVE  LeavesOrder(c, cfg)
<1>1. call[c] \in Calls /\ CallOK(call[c], file) /\ Current(call[c]) \in Key
  BY Parts, StoppedKey DEF Current
<1>2. CASE call[c].key # None
  <2>1. Goto(c, "start") /\ UNCHANGED clean
    BY <1>2 DEF StopDone
  <2>2. Current(call[c])' = Current(call[c])
    BY <2>1, Parts, GotoIs DEF Current
  <2>3. clean => ~ Running(table[Current(call[c])])'
    BY <1>1, <2>2
  <2> QED BY <2>1, <2>3, GotoLeaves
<1>3. CASE call[c].key = None
  <2>1. PICK stops : stops = call[c].stops \ {First(call[c].stops)}
    OBVIOUS
  <2>2. PICK todo : todo = call[c].todo
    OBVIOUS
  <2>3. Continue(c, stops, todo)
    BY <1>3, <2>1, <2>2 DEF StopDone
  <2>4. Current(call[c]) = First(call[c].stops)
    BY <1>3 DEF Current
  <2>5. todo \in SUBSET Active(cfg)
    BY <1>1, <2>2 DEF CallOK
  <2>6. ASSUME clean
        PROVE  /\ stops \intersect Active(cfg) = {}
               /\ \A k \in Active(cfg) : file'[k] = cfg[k]
               /\ \A k \in Active(cfg) \ todo : Serves(k, cfg[k])'
               /\ Active(cfg) # {} => \A k \in Key \ Active(cfg) : Running(table[k])' => k \in stops
    <3>1. Orderly(call[c]) /\ ServedSoFar(call[c])
      BY <2>6 DEF Orderly
    <3>2. \A k \in Key \ Active(cfg) : Active(cfg) # {} /\ Running(table[k])' => k \in stops
      BY <2>1, <2>4, <2>6, <3>1 DEF ServedSoFar
    <3> QED BY <2>1, <2>2, <2>6, <3>1, <3>2 DEF Orderly
  <2> QED BY <2>3, <2>5, <2>6, ContinueLeaves
<1> QED BY <1>2, <1>3

\* A key that is started or reloaded: the next one.
LEMMA KeyDoneLeaves ==
    ASSUME IInv, NEW c \in Caller, NEW cfg, cfg = call[c].cfg, KeyDone(c),
           call[c].pc \in {"start", "record"}, UNCHANGED file,
           clean =>
             /\ Orderly(call[c])
             /\ \A k \in Key \ {call[c].key} :
                  /\ \A config : Serves(k, config) => Serves(k, config)'
                  /\ Running(table[k])' => Running(table[k])
             /\ \A k \in Key : k = call[c].key => Serves(k, cfg[k])'
    PROVE  LeavesOrder(c, cfg)
<1>1. call[c] \in Calls /\ CallOK(call[c], file) /\ call[c].key \in Active(cfg) /\ call[c].key # None
  BY Parts, Present DEF CallOK, Active
<1>2. PICK todo : todo = call[c].todo \ {call[c].key}
  OBVIOUS
<1>3. Continue(c, {}, todo)
  BY <1>2 DEF KeyDone
<1>4. todo \in SUBSET Active(cfg)
  BY <1>1, <1>2 DEF CallOK
<1>5. ASSUME clean
      PROVE  /\ \A k \in Active(cfg) : file'[k] = cfg[k]
             /\ \A k \in Active(cfg) \ todo : Serves(k, cfg[k])'
             /\ Active(cfg) # {} => \A k \in Key \ Active(cfg) : Running(table[k])' => k \in {}
  <2>1. Orderly(call[c]) /\ ServedSoFar(call[c]) /\ call[c].stops = {}
    BY <1>1, <1>5 DEF Orderly
  <2>2. \A k \in Active(cfg) \ todo : Serves(k, cfg[k])'
    BY <1>2, <1>5, <2>1 DEF ServedSoFar, Active
  <2>3. \A k \in Key \ Active(cfg) : Active(cfg) # {} => ~ Running(table[k])'
    BY <1>1, <1>5, <2>1 DEF ServedSoFar
  <2> QED BY <1>5, <2>1, <2>2, <2>3 DEF Orderly
<1> QED BY <1>3, <1>4, <1>5, ContinueLeaves

-----------------------------------------------------------------------------
(* The steps of a call.                                                     *)

\* A step that leaves the processes and the table alone.
LEMMA QuietServes ==
    ASSUME IInv, ServeInv, NEW c \in Caller, NEW cfg, cfg = call[c].cfg, call[c].pc # "idle",
           LeavesOrder(c, cfg), UNCHANGED <<table, proc, file>>
    PROVE  ServeInv'
<1>1. OneFrpcPerPort'
  BY DEF ServeInv, OneFrpcPerPort
<1>2. clean' => RunsAsStarted'
  BY CleanParts DEF LeavesOrder, RunsAsStarted
<1> QED BY <1>1, <1>2, LeavesServed

\* What a step that leaves the processes and the table alone says of them.
LEMMA Quiet ==
    ASSUME UNCHANGED <<table, proc>>
    PROVE  /\ \A k : Running(table[k])' <=> Running(table[k])
           /\ \A k, config : Serves(k, config)' <=> Serves(k, config)
BY DEF Running, Serves

\* The first section of Apply: what runs and has no config is stopped next.
LEMMA ScanLeaves ==
    ASSUME IInv, ServeInv, NEW c \in Caller, NEW cfg, cfg = call[c].cfg, Scan(c)
    PROVE  LeavesOrder(c, cfg)
<1>1. PICK stops : stops = {k \in Key \ call[c].todo : Running(table[k])}
  OBVIOUS
<1>2. PICK todo : todo = call[c].todo
  OBVIOUS
<1>3. Continue(c, stops, todo) /\ call[c].pc = "scan" /\ UNCHANGED <<table, proc, file>>
  BY <1>1, <1>2 DEF Scan
<1>4. todo \in SUBSET Active(cfg)
  BY <1>2, Parts DEF CallOK
<1>5. ASSUME clean
      PROVE  /\ todo = Active(cfg)
             /\ stops \intersect Active(cfg) = {}
             /\ \A k \in Active(cfg) : file'[k] = cfg[k]
             /\ \A k \in Key \ Active(cfg) : Running(table[k])' => k \in stops
  <2>1. Orderly(call[c]) /\ todo = Active(cfg)
    BY <1>2, <1>3, <1>5, CleanParts DEF Orderly
  <2>2. \A k \in Key \ Active(cfg) : Running(table[k])' => k \in stops
    BY <1>1, <1>2, <1>3, <2>1, Quiet
  <2> QED BY <1>1, <1>2, <1>3, <2>1, <2>2 DEF Orderly
<1> QED BY <1>3, <1>4, <1>5, ContinueLeaves

\* It touches no process.
LEMMA ScanServes ==
    ASSUME IInv, ServeInv, NEW c \in Caller, NEW cfg, cfg = call[c].cfg, Scan(c)
    PROVE  ServeInv'
BY ScanLeaves, QuietServes DEF Scan

\* The victim may still live: it is in no table.
LEMMA WaitProcessLeaves ==
    ASSUME IInv, ServeInv, NEW c \in Caller, NEW cfg, cfg = call[c].cfg, WaitProcess(c)
    PROVE  LeavesOrder(c, cfg) /\ ServeInv'
<1>1. call[c].pc = "wait" /\ StopDone(c) /\ UNCHANGED <<table, proc, file>>
  BY DEF WaitProcess
<1>2. clean => /\ Orderly(call[c])
               /\ \A k \in Active(cfg) \ call[c].todo : Serves(k, cfg[k])'
               /\ \A k \in Key : Running(table[k])' => Running(table[k])
               /\ \A k \in Key : k = Current(call[c]) => ~ Running(table[k])'
  BY <1>1, CleanParts, Quiet DEF Orderly, ServedSoFar
<1>3. LeavesOrder(c, cfg)
  BY <1>1, <1>2, StopDoneLeaves
<1> QED BY <1>1, <1>3, QuietServes

\* The key is restarted, reloaded or started by what is in the table now.
LEMMA CheckKeyLeaves ==
    ASSUME IInv, ServeInv, NEW c \in Caller, NEW cfg, cfg = call[c].cfg, CheckKey(c)
    PROVE  LeavesOrder(c, cfg) /\ ServeInv'
<1> DEFINE k == call[c].key
           running == Running(table[k])
           needsRestart == running /\ proc[table[k]].restartKey # RestartKey(cfg[k])
<1>1. PICK pc : pc = IF needsRestart THEN "stop" ELSE IF running THEN "reload" ELSE "start"
  OBVIOUS
<1>2. call[c].pc = "check" /\ Goto(c, pc) /\ UNCHANGED <<table, proc, file, clean>>
  BY <1>1 DEF CheckKey
<1>3. pc \in {"stop", "wait", "start", "reload"} /\ pc # "wait"
  BY <1>1
<1>4. k # None
  BY <1>2, Parts, Present DEF CallOK, Active
<1>5. clean => /\ Orderly(call[c])
               /\ \A j \in Active(cfg) \ call[c].todo : Serves(j, cfg[j])'
               /\ \A j \in Key : Running(table[j])' => Running(table[j])
  BY <1>2, CleanParts, Quiet DEF Orderly, ServedSoFar
<1>6. Current(call[c])' = k
  BY <1>2, <1>4, Parts, GotoIs DEF Current
<1>7. pc \in {"wait", "start"} => ~ Running(table[Current(call[c])])'
  BY <1>1, <1>2, <1>3, <1>6, Quiet
<1>8. pc = "reload" => table'[k] # None /\ proc'[table'[k]].restartKey = RestartKey(cfg[k])
  BY <1>1, <1>2 DEF Running
<1>9. LeavesOrder(c, cfg)
  BY <1>2, <1>3, <1>5, <1>7, <1>8, GotoLeaves
<1> QED BY <1>2, <1>9, QuietServes

\* The process that leaves the table served no key the call is done with.
LEMMA TakeProcessLeaves ==
    ASSUME IInv, ServeInv, NEW c \in Caller, NEW cfg, cfg = call[c].cfg, TakeProcess(c)
    PROVE  LeavesOrder(c, cfg) /\ ServeInv'
<1>1. PICK k : k = Current(call[c])
  OBVIOUS
<1>2. /\ call[c].pc = "stop" /\ table' = [table EXCEPT ![k] = None]
      /\ UNCHANGED <<proc, file>>
  BY <1>1 DEF TakeProcess, Current
<1>3. k \in Key /\ call[c] \in Calls /\ CallOK(call[c], file) /\ table \in [Key -> Opt(Proc)]
  BY <1>1, <1>2, StoppedKey, Parts DEF Current, TypeOK
<1>4. table'[k] = None /\ \A j \in Key \ {k} : table'[j] = table[j]
  BY <1>2, <1>3
<1>5. /\ \A j \in Key : Running(table[j])' => Running(table[j])
      /\ \A j \in Key : j = k => ~ Running(table[j])'
      /\ \A j \in Key \ {k} : \A config : Serves(j, config) => Serves(j, config)'
  BY <1>2, <1>3, <1>4 DEF Running, Serves
<1>6. clean => k \notin Active(cfg) \ call[c].todo
  <2>1. clean => Orderly(call[c])
    BY <1>2, CleanParts
  <2>2. call[c].key = None => k \in call[c].stops
    <3>1. call[c].stops \in SUBSET Key /\ (call[c].key = None => call[c].stops # {})
      BY <1>2, <1>3, Present DEF CallOK, Calls, Active
    <3> QED BY <1>1, <3>1, FirstIn, Present DEF Current
  <2> QED BY <1>1, <2>1, <2>2 DEF Orderly, Current
<1>7. clean => /\ Orderly(call[c])
               /\ \A j \in Active(cfg) \ call[c].todo : Serves(j, cfg[j])'
  BY <1>2, <1>5, <1>6, CleanParts DEF Orderly, ServedSoFar, Active
<1>8. LeavesOrder(c, cfg)
  <2>1. CASE table[k] = None
    <3>1. StopDone(c)
      BY <1>1, <2>1 DEF TakeProcess, Current
    <3> QED BY <1>1, <1>2, <1>5, <1>7, <3>1, StopDoneLeaves
  <2>2. CASE table[k] # None
    <3> DEFINE r == [call[c] EXCEPT !.pc = "kill", !.victim = table[k]]
    <3>1. call' = [call EXCEPT ![c] = r] /\ UNCHANGED clean
      BY <1>1, <2>2 DEF TakeProcess, Current
    <3>2. /\ r.pc = "kill" /\ r.cfg = cfg /\ r.stops = call[c].stops /\ r.todo = call[c].todo
          /\ r.key = call[c].key
      BY <1>3 DEF Calls
    <3> HIDE DEF r
    <3>3. call'[c] = r /\ \A d \in Caller \ {c} : call'[d] = call[d]
      BY <3>1, Parts DEF TypeOK
    <3>4. ASSUME clean
          PROVE  Orderly(call[c])'
      <4>1. ServedSoFar(call[c])'
        BY <1>2, <1>5, <1>7, <3>2, <3>3, <3>4 DEF ServedSoFar, Orderly
      <4>2. Current(call[c])' = k
        BY <1>1, <3>2, <3>3 DEF Current
      <4>3. ~ Running(table[Current(call[c])])'
        BY <1>3, <1>5, <4>2
      <4> QED BY <1>2, <1>7, <3>2, <3>3, <3>4, <4>1, <4>3 DEF Orderly
    <3> QED BY <3>1, <3>2, <3>3, <3>4 DEF LeavesOrder
  <2> QED BY <2>1, <2>2
<1>9. OneFrpcPerPort' /\ (clean' => RunsAsStarted')
  <2>1. OneFrpcPerPort'
    BY <1>2 DEF ServeInv, OneFrpcPerPort
  <2>2. clean => RunsAsStarted
    BY <1>2, CleanParts
  <2>3. clean => RunsAsStarted'
    BY <1>2, <1>4, <2>2 DEF RunsAsStarted
  <2> QED BY <1>8, <2>1, <2>3 DEF LeavesOrder
<1> QED BY <1>2, <1>8, <1>9, LeavesServed

\* Processes that keep what they were started as and what they run serve what they served.
LEMMA SameServe ==
    ASSUME IInv, UNCHANGED table,
           \A p \in Proc : /\ proc'[p].restartKey = proc[p].restartKey
                           /\ proc'[p].state \in {"booting", "up", "dead"} =>
                                  proc[p].state \in {"booting", "up", "dead"}
                           /\ proc'[p].state = "up" =>
                                  proc[p].state = "up" /\ proc'[p].loaded = proc[p].loaded
    PROVE  /\ \A k \in Key : Running(table[k])' => Running(table[k])
           /\ \A k \in Key : \A config : Serves(k, config) => Serves(k, config)'
           /\ OneFrpcPerPort => OneFrpcPerPort'
<1>1. \A k \in Key : Running(table[k])' => Running(table[k])
  BY Parts DEF Running, Opt
<1>2. \A k \in Key : \A config : Serves(k, config) => Serves(k, config)'
  BY Parts DEF Serves, Opt
<1>3. OneFrpcPerPort => OneFrpcPerPort'
  BY DEF OneFrpcPerPort
<1> QED BY <1>1, <1>2, <1>3

\* Processes in the table keep running as they were started.
LEMMA SameRuns ==
    ASSUME IInv, RunsAsStarted, UNCHANGED <<table, file>>,
           \A p \in Proc : /\ proc'[p].restartKey = proc[p].restartKey
                           /\ proc'[p].state = "booting" => proc[p].state = "booting"
                           /\ proc'[p].state = "up" =>
                                  proc[p].state = "up" /\ proc'[p].loaded = proc[p].loaded
    PROVE  RunsAsStarted'
BY Parts DEF RunsAsStarted, Opt

\* A signal changes neither what a process runs nor what it serves.
LEMMA KillProcessLeaves ==
    ASSUME IInv, ServeInv, NEW c \in Caller, NEW cfg, cfg = call[c].cfg, KillProcess(c)
    PROVE  LeavesOrder(c, cfg) /\ ServeInv'
<1> DEFINE p == call[c].victim
<1>1. /\ call[c].pc = "kill" /\ UNCHANGED <<table, file>>
      /\ proc' = IF Running(p) THEN [proc EXCEPT ![p].signalled = TRUE] ELSE proc
  BY DEF KillProcess
<1>2. \A q \in Proc : /\ proc'[q].restartKey = proc[q].restartKey
                      /\ proc'[q].state = proc[q].state /\ proc'[q].loaded = proc[q].loaded
  <2>1. proc \in [Proc -> ProcRecord]
    BY Parts DEF TypeOK
  <2> QED BY <1>1, <2>1 DEF ProcRecord
<1>3. /\ \A k \in Key : Running(table[k])' => Running(table[k])
      /\ \A k \in Key : \A config : Serves(k, config) => Serves(k, config)'
      /\ OneFrpcPerPort'
  BY <1>1, <1>2, SameServe DEF ServeInv
<1>4. clean => RunsAsStarted'
  BY <1>1, <1>2, CleanParts, SameRuns
<1>5. clean => /\ Orderly(call[c])
               /\ \A k \in Active(cfg) \ call[c].todo : Serves(k, cfg[k])'
               /\ \A k \in Key : k = Current(call[c]) => ~ Running(table[k])'
  BY <1>1, <1>3, CleanParts DEF Orderly, ServedSoFar, Active
<1>6. LeavesOrder(c, cfg)
  <2>1. CASE detached
    <3>1. StopDone(c)
      BY <2>1 DEF KillProcess
    <3> QED BY <1>1, <1>3, <1>5, <3>1, StopDoneLeaves
  <2>2. CASE ~ detached
    <3>1. PICK pc : pc = "wait"
      OBVIOUS
    <3>2. Goto(c, pc) /\ UNCHANGED clean
      BY <2>2, <3>1 DEF KillProcess
    <3>3. Current(call[c])' = Current(call[c])
      BY <3>2, Parts, GotoIs DEF Current
    <3>4. Current(call[c]) \in Key
      BY <1>1, StoppedKey DEF Current
    <3>5. clean => ~ Running(table[Current(call[c])])'
      BY <1>5, <3>3, <3>4
    <3> QED BY <1>1, <1>3, <1>5, <3>1, <3>2, <3>5, GotoLeaves
  <2> QED BY <2>1, <2>2
<1> QED BY <1>1, <1>3, <1>4, <1>6, LeavesServed DEF LeavesOrder

\* The process that is started boots with the file of its key.
LEMMA StartKeyLeaves ==
    ASSUME IInv, ServeInv, NEW c \in Caller, NEW cfg, cfg = call[c].cfg, StartKey(c)
    PROVE  LeavesOrder(c, cfg) /\ ServeInv'
<1>1. PICK k : k = call[c].key
  OBVIOUS
<1>2. call[c].pc = "start" /\ UNCHANGED <<file, detached>>
  BY DEF StartKey
<1>3. k \in Key /\ k \in Active(cfg) /\ k # None
  BY <1>1, <1>2, Parts, Present DEF CallOK, Active
<1>4. clean => Orderly(call[c]) /\ RunsAsStarted /\ ~ Running(table[k])
  BY <1>1, <1>2, <1>3, CleanParts DEF Orderly, Current
<1>5. CASE Running(table[k]) /\ KeyDone(c) /\ UNCHANGED <<proc, table>>
  <2>1. LeavesOrder(c, cfg)
    BY <1>2, <1>4, <1>5, KeyDoneLeaves
  <2> QED BY <1>2, <1>5, <2>1, QuietServes
<1>6. CASE Finish(c, "err") /\ UNCHANGED <<proc, table>>
  BY <1>2, <1>6, FinishLeaves, QuietServes
<1>7. CASE /\ ~ Running(table[k]) /\ Unused # {} /\ KeyDone(c)
           /\ proc' = [proc EXCEPT ![First(Unused)] = [Free EXCEPT
                 !.state = "booting", !.key = k, !.restartKey = RestartKey(cfg[k])]]
           /\ table' = [table EXCEPT ![k] = First(Unused)]
  <2>1. PICK p : p = First(Unused)
    OBVIOUS
  <2>2. p \in Proc /\ proc[p].state = "free" /\ p # None
    BY <1>7, <2>1, FirstIn, Present DEF Unused
  <2> DEFINE r == [Free EXCEPT !.state = "booting", !.key = k, !.restartKey = RestartKey(cfg[k])]
  <2>3. r.state = "booting" /\ r.restartKey = RestartKey(cfg[k])
    BY DEF Free
  <2> HIDE DEF r
  <2>4. proc' = [proc EXCEPT ![p] = r] /\ table' = [table EXCEPT ![k] = p]
    BY <1>7, <2>1 DEF r
  <2>5. proc'[p] = r /\ \A q \in Proc \ {p} : proc'[q] = proc[q]
    BY <2>2, <2>4, Parts DEF TypeOK
  <2>6. table'[k] = p /\ \A j \in Key \ {k} : table'[j] = table[j]
    BY <1>3, <2>4, Parts DEF TypeOK
  <2>7. \A j \in Key : table[j] # p
    BY <2>2, Parts DEF TableHeld
  <2>8. \A j \in Key \ {k} : /\ \A config : Serves(j, config) => Serves(j, config)'
                             /\ Running(table[j])' => Running(table[j])
    BY <2>5, <2>6, <2>7, Parts DEF Serves, Running, Opt
  <2>9. Serves(k, cfg[k])'
    BY <2>2, <2>3, <2>5, <2>6 DEF Serves
  <2>10. LeavesOrder(c, cfg)
    BY <1>1, <1>2, <1>4, <1>7, <2>8, <2>9, KeyDoneLeaves
  <2>11. OneFrpcPerPort'
    BY <2>3, <2>5 DEF ServeInv, OneFrpcPerPort
  <2>12. ASSUME clean
         PROVE  RunsAsStarted'
    <3>1. file'[k] = cfg[k]
      BY <1>2, <1>3, <1>4, <2>12 DEF Orderly
    <3>2. ASSUME NEW j \in Key, j # k, table'[j] # None
          PROVE  /\ proc'[table'[j]] = proc[table[j]] /\ table[j] # None
                 /\ table'[j] = table[j]
      BY <2>5, <2>6, <2>7, <3>2, Parts DEF Opt
    <3> QED BY <1>2, <1>4, <2>3, <2>5, <2>6, <2>12, <3>1, <3>2 DEF RunsAsStarted
  <2> QED BY <1>2, <2>10, <2>11, <2>12, LeavesServed DEF LeavesOrder
<1> QED BY <1>1, <1>5, <1>6, <1>7 DEF StartKey

\* A config is its restart key and its proxies.
LEMMA SameConfig ==
    ASSUME NEW a \in Config, NEW b \in Config, RestartKey(a) = RestartKey(b)
    PROVE  /\ a.port = b.port
           /\ \A x : x = b.proxies => [a EXCEPT !.proxies = x] = b
           /\ \A x \in Proxies : /\ RestartKey([a EXCEPT !.proxies = x]) = RestartKey(a)
                                 /\ [a EXCEPT !.proxies = x].port = a.port
BY DEF RestartKey, Config

\* The frpc that is reloaded is the one of the key, if that is up: no other
\* listens on its port.
LEMMA RunReloadLeaves ==
    ASSUME IInv, ServeInv, NEW c \in Caller, NEW cfg, cfg = call[c].cfg, RunReload(c)
    PROVE  LeavesOrder(c, cfg) /\ ServeInv'
<1>1. PICK k : k = call[c].key
  OBVIOUS
<1>2. call[c].pc = "reload" /\ UNCHANGED <<table, file, clean>>
  BY DEF RunReload
<1>3. k \in Key /\ k \in Active(cfg) /\ k # None /\ cfg[k] \in Config /\ call[c] \in Calls
  <2>1. call[c] \in Calls /\ CallOK(call[c], file)
    BY Parts
  <2>2. k \in Active(cfg)
    BY <1>1, <1>2, <2>1 DEF CallOK
  <2>3. cfg \in [Key -> Opt(Config)]
    BY <2>1 DEF Calls
  <2> QED BY <2>1, <2>2, <2>3, Present DEF Active, Opt
<1> DEFINE reloaded(p) == [proc[p].loaded EXCEPT !.proxies = file[proc[p].key].proxies]
           taken == \E p \in Listening(file[k].port) :
                        proc' = [proc EXCEPT ![p].loaded = reloaded(p)]
<1>4. PICK res : /\ call' = [call EXCEPT ![c] = [call[c] EXCEPT !.pc = "record", !.res = res]]
                 /\ taken \/ (UNCHANGED proc /\ res # "ok")
  <2> DEFINE done(res) == call' = [call EXCEPT ![c] = [call[c] EXCEPT !.pc = "record", !.res = res]]
  <2>1. \/ taken /\ done("ok")
        \/ UNCHANGED proc /\ done("err")
        \/ taken /\ done("err")
    BY <1>1 DEF RunReload
  <2> HIDE DEF taken
  <2> QED BY <2>1
<1>5. /\ \A d \in Caller \ {c} : call'[d] = call[d]
      /\ call'[c].pc = "record" /\ call'[c].res = res /\ call'[c].cfg = cfg
      /\ call'[c].key = k /\ call'[c].stops = call[c].stops /\ call'[c].todo = call[c].todo
  <2> DEFINE r == [call[c] EXCEPT !.pc = "record", !.res = res]
  <2>1. /\ r.pc = "record" /\ r.res = res /\ r.cfg = cfg
        /\ r.key = k /\ r.stops = call[c].stops /\ r.todo = call[c].todo
    BY <1>1, <1>3 DEF Calls
  <2> HIDE DEF r
  <2>2. call'[c] = r /\ \A d \in Caller \ {c} : call'[d] = call[d]
    BY <1>4, Parts DEF r, TypeOK
  <2> QED BY <2>1, <2>2
<1>6. \A p \in Proc :
        /\ proc'[p].restartKey = proc[p].restartKey /\ proc'[p].state = proc[p].state
        /\ proc'[p].key = proc[p].key
        /\ proc'[p].loaded = proc[p].loaded \/
             (/\ proc[p].state = "up" /\ proc'[p].loaded = reloaded(p)
              /\ p \in Listening(file[k].port)
              /\ \A q \in Proc \ {p} : proc'[q] = proc[q])
  <2>1. CASE UNCHANGED proc
    BY <2>1
  <2>2. CASE taken
    <3>1. PICK p \in Listening(file[k].port) : proc' = [proc EXCEPT ![p].loaded = reloaded(p)]
      BY <2>2
    <3>2. p \in Proc /\ proc[p].state = "up"
      BY DEF Listening
    <3>3. PICK new : new = reloaded(p)
      OBVIOUS
    <3>4. proc' = [proc EXCEPT ![p].loaded = new]
      BY <3>1, <3>3
    <3> HIDE DEF reloaded
    <3>5. /\ \A q \in Proc \ {p} : proc'[q] = proc[q]
          /\ proc'[p].restartKey = proc[p].restartKey /\ proc'[p].state = proc[p].state
          /\ proc'[p].key = proc[p].key /\ proc'[p].loaded = new
      BY <3>2, <3>4, Parts DEF TypeOK, ProcRecord
    <3> QED BY <3>2, <3>3, <3>5
  <2> QED BY <1>4, <2>1, <2>2
<1>7. \A p \in Proc : proc[p].state = "up" =>
        /\ proc[p].loaded \in Config /\ file[proc[p].key] \in Config
        /\ reloaded(p).port = proc[p].loaded.port
        /\ RestartKey(reloaded(p)) = RestartKey(proc[p].loaded)
  <2> SUFFICES ASSUME NEW p \in Proc, proc[p].state = "up"
               PROVE  /\ proc[p].loaded \in Config /\ file[proc[p].key] \in Config
                      /\ reloaded(p).port = proc[p].loaded.port
                      /\ RestartKey(reloaded(p)) = RestartKey(proc[p].loaded)
    OBVIOUS
  <2>1. proc[p].loaded \in Config /\ file[proc[p].key] \in Config
    BY Parts DEF ProcOK, ProcRecord, Opt, Active
  <2>2. file[proc[p].key].proxies \in Proxies
    BY <2>1 DEF Config
  <2> QED BY <2>1, <2>2, SameConfig
<1> HIDE DEF reloaded
<1>8. OneFrpcPerPort'
  <2>1. \A p \in Proc : proc'[p].state = "up" =>
          proc[p].state = "up" /\ proc'[p].loaded.port = proc[p].loaded.port
    BY <1>6, <1>7
  <2> QED BY <2>1 DEF ServeInv, OneFrpcPerPort
<1>9. ASSUME clean
      PROVE  RunsAsStarted'
  <2>1. RunsAsStarted
    BY <1>2, <1>9, CleanParts
  <2>2. \A p \in Proc : proc'[p].state = "up" =>
          proc[p].state = "up" /\ RestartKey(proc'[p].loaded) = RestartKey(proc[p].loaded)
    BY <1>6, <1>7
  <2> QED BY <1>2, <1>6, <2>1, <2>2, Parts DEF RunsAsStarted, Opt
<1>10. ASSUME clean
       PROVE  Orderly(call[c])'
  <2>1. Orderly(call[c]) /\ RunsAsStarted
    BY <1>2, <1>10, CleanParts
  \* A reload gives a frpc that runs the file of its key that file again.
  <2>2. ASSUME NEW j \in Active(cfg), NEW p \in Proc, table[j] = p, p # None,
               proc[p].restartKey = RestartKey(cfg[j]), proc'[p].loaded = reloaded(p),
               proc[p].state = "up"
        PROVE  proc'[p].loaded = cfg[j]
    <3>1. j \in Key /\ proc[p].key = j /\ file[j] = cfg[j]
      BY <2>1, <2>2, Parts DEF TableHeld, Active, Orderly
    <3>2. RestartKey(proc[p].loaded) = RestartKey(cfg[j])
      BY <2>1, <2>2, <3>1 DEF RunsAsStarted
    <3>3. proc[p].loaded \in Config /\ cfg[j] \in Config
      BY <1>7, <2>2, <3>1
    <3> QED BY <2>2, <3>1, <3>2, <3>3, SameConfig DEF reloaded
  <2>3. \A j \in Key : table[j] # None => table[j] \in Proc
    BY Parts DEF Opt
  <2>4. \A j \in Active(cfg) : Serves(j, cfg[j]) => Serves(j, cfg[j])'
    <3> SUFFICES ASSUME NEW j \in Active(cfg), Serves(j, cfg[j])
                 PROVE  Serves(j, cfg[j])'
      OBVIOUS
    <3>1. PICK p : p = table[j]
      OBVIOUS
    <3>2. p \in Proc /\ p # None /\ table'[j] = p
      BY <1>2, <2>3, <3>1 DEF Serves, Active
    <3>3. proc'[p].state = "up" => proc'[p].loaded = cfg[j]
      BY <1>6, <2>2, <3>1, <3>2 DEF Serves
    <3> QED BY <1>6, <3>1, <3>2, <3>3 DEF Serves
  <2>5. \A j \in Key : Running(table[j])' <=> Running(table[j])
    BY <1>2, <1>6, <2>3 DEF Running
  <2>6. ServedSoFar(call[c])'
    BY <1>2, <1>5, <2>1, <2>4, <2>5 DEF ServedSoFar, Orderly
  <2>7. PICK p : p = table[k]
    OBVIOUS
  <2>8. p \in Proc /\ p # None /\ proc[p].restartKey = RestartKey(cfg[k]) /\ table'[k] = p
    BY <1>1, <1>2, <1>3, <2>1, <2>3, <2>7 DEF Orderly
  <2>9. ASSUME res = "ok"
        PROVE  Serves(k, cfg[k])'
    <3>1. ASSUME proc[p].state = "up"
          PROVE  proc'[p].loaded = cfg[k]
      <4>1. file[k] = cfg[k] /\ proc[p].loaded \in Config
            /\ RestartKey(proc[p].loaded) = RestartKey(cfg[k])
        BY <1>3, <1>7, <2>1, <2>7, <2>8, <3>1 DEF RunsAsStarted, Orderly
      <4>2. proc[p].loaded.port = file[k].port
        BY <1>3, <4>1, SameConfig
      <4>3. PICK q \in Listening(file[k].port) : proc' = [proc EXCEPT ![q].loaded = reloaded(q)]
        BY <1>4, <2>9
      <4>4. q = p
        BY <2>8, <3>1, <4>2 DEF Listening, ServeInv, OneFrpcPerPort
      <4>5. proc'[p].loaded = reloaded(p)
        BY <2>8, <4>3, <4>4, Parts DEF TypeOK, ProcRecord
      <4> QED BY <1>3, <2>2, <2>7, <2>8, <3>1, <4>5
    <3> QED BY <1>6, <2>8, <3>1 DEF Serves
  <2>10. table'[k] # None /\ proc'[table'[k]].restartKey = RestartKey(cfg[k])
    BY <1>6, <2>8
  <2>11. \A j \in Active(cfg) : file'[j] = cfg[j]
    BY <1>2, <2>1 DEF Orderly
  <2>12. /\ call[c].stops \intersect Active(cfg) = {} /\ call[c].stops = {}
         /\ k \in call[c].todo
    BY <1>1, <1>3, <2>1 DEF Orderly
  <2> QED BY <1>5, <2>6, <2>9, <2>10, <2>11, <2>12 DEF Orderly
<1>11. LeavesOrder(c, cfg)
  BY <1>2, <1>5, <1>10 DEF LeavesOrder
<1> QED BY <1>2, <1>8, <1>9, <1>11, LeavesServed

\* What is recorded is what the process was started with.
LEMMA RecordReloadLeaves ==
    ASSUME IInv, ServeInv, NEW c \in Caller, NEW cfg, cfg = call[c].cfg, RecordReload(c)
    PROVE  LeavesOrder(c, cfg) /\ ServeInv'
<1>1. PICK k : k = call[c].key
  OBVIOUS
<1>2. call[c].pc = "record" /\ UNCHANGED <<table, file>>
  BY DEF RecordReload
<1>3. k \in Key /\ k \in Active(cfg) /\ k # None
  BY <1>1, <1>2, Parts, Present DEF CallOK, Active
<1>4. CASE Finish(c, "err") /\ UNCHANGED proc
  BY <1>2, <1>4, FinishLeaves, QuietServes
<1>5. CASE /\ call[c].res = "ok" /\ KeyDone(c)
           /\ proc' = IF table[k] = None THEN proc
                      ELSE [proc EXCEPT ![table[k]].restartKey = RestartKey(cfg[k])]
  <2>1. \A p \in Proc :
          /\ proc'[p].state = proc[p].state /\ proc'[p].loaded = proc[p].loaded
          /\ clean => proc'[p].restartKey = proc[p].restartKey
    <3>1. clean => proc[table[k]].restartKey = RestartKey(cfg[k])
      BY <1>1, <1>2, CleanParts DEF Orderly
    <3> QED BY <1>5, <3>1, Parts DEF TypeOK, ProcRecord
  <2>2. OneFrpcPerPort'
    BY <2>1 DEF ServeInv, OneFrpcPerPort
  <2>3. clean => /\ Orderly(call[c]) /\ RunsAsStarted'
                 /\ \A j \in Key : /\ \A config : Serves(j, config) => Serves(j, config)'
                                   /\ Running(table[j])' => Running(table[j])
    BY <1>2, <2>1, CleanParts, SameRuns, SameServe
  <2>4. clean => \A j \in Key : j = call[c].key => Serves(j, cfg[j])'
    BY <1>1, <1>2, <1>3, <1>5, <2>3 DEF Orderly
  <2>5. LeavesOrder(c, cfg)
    BY <1>2, <1>5, <2>3, <2>4, KeyDoneLeaves
  <2> QED BY <1>2, <2>2, <2>3, <2>5, LeavesServed DEF LeavesOrder
<1> QED BY <1>1, <1>4, <1>5 DEF RecordReload

\* Steps of the machine while every call succeeded.
LEMMA MachineServes ==
    ASSUME IInv, ServeInv, UNCHANGED <<table, file, call, clean>>, OneFrpcPerPort',
           clean => /\ RunsAsStarted'
                    /\ \A k \in Key : Running(table[k])' => Running(table[k])
                    /\ \A p \in Proc : proc'[p].restartKey = proc[p].restartKey
                    /\ \A k \in Key : \A config :
                           config = file[k] /\ Serves(k, config) => Serves(k, config)'
    PROVE  ServeInv'
<1>1. ASSUME clean, NEW c \in Caller, call[c].pc # "idle"
      PROVE  Orderly(call[c])'
  <2>1. PICK r : r = call[c]
    OBVIOUS
  <2>2. Orderly(r) /\ CallOK(r, file) /\ r \in Calls
    BY <1>1, <2>1, Parts, CleanParts
  <2>3. \A k \in Active(r.cfg) : k \in Key /\ r.cfg[k] = file[k]
    BY <2>2 DEF Orderly, Active
  <2>4. ServedSoFar(r) => ServedSoFar(r)'
    BY <1>1, <2>3 DEF ServedSoFar
  <2>5. r.pc \in {"kill", "wait", "start"} => ~ Running(table[Current(r)])'
    <3>1. r.pc \in {"kill", "wait", "start"} => Current(r) \in Key
      BY <2>1, <2>2, StoppedKey, Present DEF Current, CallOK, Active
    <3> QED BY <1>1, <2>2, <3>1 DEF Orderly, Current
  <2>6. r.pc \in {"reload", "record"} =>
          table[r.key] # None /\ proc'[table[r.key]].restartKey = RestartKey(r.cfg[r.key])
    <3>1. r.pc \in {"reload", "record"} => r.key \in Key
      BY <2>2 DEF CallOK, Active
    <3> QED BY <1>1, <2>2, <3>1, Parts DEF Orderly, Opt
  <2>7. r.pc = "record" /\ r.res = "ok" => Serves(r.key, r.cfg[r.key])'
    <3>1. r.pc \in {"reload", "record"} => r.key \in Active(r.cfg)
      BY <2>2 DEF CallOK
    <3> QED BY <1>1, <2>2, <2>3, <3>1 DEF Orderly
  <2>8. Orderly(r)'
    BY <2>2, <2>4, <2>5, <2>6, <2>7 DEF Orderly
  <2> QED BY <2>1, <2>8
<1> QED BY <1>1 DEF ServeInv

\* Processes that end.
LEMMA FallsServes ==
    ASSUME IInv, ServeInv, UNCHANGED <<table, file, call, clean>>,
           \A p \in Proc : /\ proc'[p].restartKey = proc[p].restartKey
                           /\ proc'[p].loaded = proc[p].loaded
                           /\ \/ proc'[p].state \in {proc[p].state, "reaped"}
                              \/ proc'[p].state = "dead" /\ Alive(p)
    PROVE  ServeInv'
<1>1. /\ \A k \in Key : Running(table[k])' => Running(table[k])
      /\ \A k \in Key : \A config : Serves(k, config) => Serves(k, config)'
      /\ OneFrpcPerPort'
  BY SameServe DEF ServeInv, Alive
<1>2. clean => RunsAsStarted'
  <2>1. clean => RunsAsStarted
    BY DEF ServeInv
  <2> QED BY <2>1, SameRuns
<1> QED BY <1>1, <1>2, MachineServes

\* A process that exits is in no way of the others.
LEMMA DieServes == ASSUME IInv, ServeInv, NEW p \in Proc, Die(p) PROVE ServeInv'
<1>1. /\ proc' = [proc EXCEPT ![p].state = "dead"] /\ Alive(p)
      /\ UNCHANGED <<table, file, call, clean>>
  BY DEF Die
<1>2. \A q \in Proc : /\ proc'[q].restartKey = proc[q].restartKey
                      /\ proc'[q].loaded = proc[q].loaded
                      /\ proc'[q].state = IF q = p THEN "dead" ELSE proc[q].state
  BY <1>1, Parts DEF TypeOK, ProcRecord
<1> QED BY <1>1, <1>2, FallsServes

\* A process that was waited for runs no more.
LEMMA ReapServes == ASSUME IInv, ServeInv, NEW p \in Proc, Reap(p) PROVE ServeInv'
<1>1. /\ proc' = [proc EXCEPT ![p].state = "reaped"]
      /\ UNCHANGED <<table, file, call, clean>>
  BY DEF Reap
<1>2. \A q \in Proc : /\ proc'[q].restartKey = proc[q].restartKey
                      /\ proc'[q].loaded = proc[q].loaded
                      /\ proc'[q].state = IF q = p THEN "reaped" ELSE proc[q].state
  BY <1>1, Parts DEF TypeOK, ProcRecord
<1> QED BY <1>1, <1>2, FallsServes

\* A process that boots runs the file of its key, on a port that was free.
LEMMA BootServes == ASSUME IInv, ServeInv, NEW p \in Proc, Boot(p) PROVE ServeInv'
<1> DEFINE config == file[proc[p].key]
           taken == \E q \in Proc \ {p} : proc[q].state = "up" /\ proc[q].loaded.port = config.port
<1>1. /\ proc[p].state = "booting" /\ UNCHANGED <<table, file, call, clean>>
      /\ proc' = [proc EXCEPT ![p] = [proc[p] EXCEPT !.state = IF taken THEN "dead" ELSE "up",
                                               !.loaded = config]]
  BY DEF Boot
<1>2. PICK state \in {"dead", "up"} : state = IF taken THEN "dead" ELSE "up"
  OBVIOUS
<1>3. PICK f : f = config
  OBVIOUS
<1>4. /\ \A q \in Proc \ {p} : proc'[q] = proc[q]
      /\ proc'[p].restartKey = proc[p].restartKey /\ proc'[p].state = state /\ proc'[p].loaded = f
  <2>1. proc' = [proc EXCEPT ![p] = [proc[p] EXCEPT !.state = state, !.loaded = f]]
    BY <1>1, <1>2, <1>3
  <2> HIDE DEF taken, config
  <2> QED BY <2>1, Parts DEF TypeOK, ProcRecord
<1>5. OneFrpcPerPort'
  <2>1. state = "up" => \A q \in Proc \ {p} : proc[q].state = "up" => proc[q].loaded.port # f.port
    BY <1>2, <1>3
  <2> HIDE DEF taken, config
  <2> QED BY <1>4, <2>1 DEF ServeInv, OneFrpcPerPort
<1>6. \A k \in Key : table[k] = p => p # None /\ f = file[k]
  BY <1>3, Parts, Present DEF TableHeld
<1> HIDE DEF taken, config
<1>7. \A k \in Key : Running(table[k])' => Running(table[k])
  BY <1>1, <1>4, Parts DEF Running, Opt
<1>8. \A k \in Key : \A g : g = file[k] /\ Serves(k, g) => Serves(k, g)'
  BY <1>1, <1>4, <1>6, Parts DEF Serves, Opt
<1>9. \A q \in Proc : proc'[q].restartKey = proc[q].restartKey
  BY <1>4
<1>10. ASSUME clean
       PROVE  RunsAsStarted'
  <2>1. RunsAsStarted
    BY <1>10 DEF ServeInv
  <2> QED BY <1>1, <1>4, <1>6, <2>1, Parts DEF RunsAsStarted, Opt
<1> QED BY <1>1, <1>5, <1>7, <1>8, <1>9, <1>10, MachineServes

\* After a restart no call is under way and the table is empty.
LEMMA RestartBackendServes == ASSUME IInv, ServeInv, RestartBackend PROVE ServeInv'
<1>1. /\ table' = [k \in Key |-> None]
      /\ proc' = [p \in Proc |-> IF Alive(p) THEN [proc[p] EXCEPT !.orphan = TRUE] ELSE proc[p]]
      /\ call' = [c \in Caller |-> Idle("none")]
  BY DEF RestartBackend
<1>2. \A p \in Proc : proc'[p].state = proc[p].state /\ proc'[p].loaded = proc[p].loaded
  BY <1>1, Parts DEF ProcRecord
<1>3. OneFrpcPerPort'
  BY <1>2 DEF ServeInv, OneFrpcPerPort
<1>4. \A c \in Caller : call'[c].pc = "idle" /\ call'[c].cfg = NoConfig
  BY <1>1, IdleIs
<1>5. RunsAsStarted'
  BY <1>1 DEF RunsAsStarted
<1> QED BY <1>3, <1>4, <1>5 DEF ServeInv

\* A call that begins.
LEMMA AcceptServes ==
    ASSUME IInv, ServeInv, NEW c \in Caller, Accept(c), UNCHANGED <<table, proc>>,
           NEW r, call' = [call EXCEPT ![c] = r], r.pc \in {"scan", "stop"}, r.key = None,
           r.stops \intersect Active(r.cfg) = {},
           r.pc = "scan" => r.todo = Active(r.cfg),
           r.pc = "stop" => Active(r.cfg) = {},
           \A k \in Active(r.cfg) : file'[k] = r.cfg[k]
    PROVE  ServeInv'
<1>1. call'[c] = r /\ \A d \in Caller \ {c} : call'[d] = call[d]
  BY Parts DEF TypeOK
<1>2. clean' => /\ clean /\ \A d \in Caller : call[d].pc = "idle"
                /\ \A p \in Proc : proc[p].state # "booting"
  BY DEF Accept
<1>3. OneFrpcPerPort'
  BY DEF ServeInv, OneFrpcPerPort
<1>4. clean' => RunsAsStarted'
  BY <1>2, Parts DEF ServeInv, RunsAsStarted, Opt
<1>5. Orderly(call[c])'
  <2>1. r.pc = "stop" => ServedSoFar(call[c])'
    BY <1>1 DEF ServedSoFar
  <2> QED BY <1>1, <2>1 DEF Orderly
<1>6. \A d \in Caller : call'[d].pc = "idle" => call'[d].cfg = NoConfig
  BY <1>1 DEF ServeInv
<1> QED BY <1>1, <1>2, <1>3, <1>4, <1>5, <1>6 DEF ServeInv

\* The configs of a call are those of some choice of the user, and are in the files.
LEMMA ApplyIs ==
    ASSUME NEW c \in Caller, IInv, Apply(c)
    PROVE  \E cfg \in [Key -> Opt(Config)] : \E r :
             /\ Separate(cfg)
             /\ \A k \in Active(cfg) : file'[k] = cfg[k]
             /\ call' = [call EXCEPT ![c] = r]
             /\ r.pc = "scan" /\ r.cfg = cfg /\ r.todo = Active(cfg) /\ r.stops = {} /\ r.key = None
<1>1. PICK content \in [Key -> Opt(Content)] :
        LET cfg == Rendered(content) IN
        /\ \A k \in Active(content) : cfg[k].port \in Port
        /\ file' = [k \in Key |-> IF cfg[k] # None THEN cfg[k] ELSE file[k]]
        /\ call' = [call EXCEPT ![c] =
              [Idle("none") EXCEPT !.pc = "scan", !.cfg = cfg, !.todo = Active(cfg)]]
  BY DEF Apply
<1>2. PICK cfg : cfg = Rendered(content)
  OBVIOUS
<1>3. cfg \in [Key -> Opt(Config)] /\ Separate(cfg)
  BY <1>1, <1>2, RenderedSeparate
<1>4. \A k \in Active(cfg) : file'[k] = cfg[k]
  BY <1>1, <1>2 DEF Active
<1> DEFINE r == [Idle("none") EXCEPT !.pc = "scan", !.cfg = cfg, !.todo = Active(cfg)]
<1>5. /\ r.pc = "scan" /\ r.cfg = cfg /\ r.todo = Active(cfg) /\ r.stops = {} /\ r.key = None
      /\ call' = [call EXCEPT ![c] = r]
  BY <1>1, <1>2 DEF Idle
<1> HIDE DEF r
<1> QED BY <1>3, <1>4, <1>5

\* The files of an Apply are its configs: nothing boots with older ones.
LEMMA ApplyServes == ASSUME IInv, ServeInv, NEW c \in Caller, Apply(c) PROVE ServeInv'
<1>1. PICK cfg \in [Key -> Opt(Config)] : \E r :
        /\ \A k \in Active(cfg) : file'[k] = cfg[k]
        /\ call' = [call EXCEPT ![c] = r]
        /\ r.pc = "scan" /\ r.cfg = cfg /\ r.todo = Active(cfg) /\ r.stops = {} /\ r.key = None
  BY ApplyIs
<1>2. PICK r :
        /\ \A k \in Active(cfg) : file'[k] = cfg[k]
        /\ call' = [call EXCEPT ![c] = r]
        /\ r.pc = "scan" /\ r.cfg = cfg /\ r.todo = Active(cfg) /\ r.stops = {} /\ r.key = None
  BY <1>1
<1>3. Accept(c) /\ UNCHANGED <<table, proc>>
  BY DEF Apply
<1> QED BY <1>2, <1>3, AcceptServes

\* StopAll has no configs.
LEMMA StopAllServes == ASSUME IInv, ServeInv, NEW c \in Caller, StopAll(c) PROVE ServeInv'
<1>1. PICK r : r = [Idle("none") EXCEPT !.pc = "stop", !.stops = {k \in Key : table[k] # None}]
  OBVIOUS
<1>2. r.pc = "stop" /\ r.cfg = NoConfig /\ r.key = None
  BY <1>1 DEF Idle
<1>3. Active(r.cfg) = {}
  BY <1>2, IdleIs
<1>4. Accept(c) /\ UNCHANGED <<table, proc>> /\ call' = [call EXCEPT ![c] = r]
  BY <1>1 DEF StopAll
<1> QED BY <1>2, <1>3, <1>4, AcceptServes

\* Every step of a call.
LEMMA CallStepLeaves ==
    ASSUME IInv, ServeInv, NEW c \in Caller, NEW cfg, cfg = call[c].cfg, CallStep(c)
    PROVE  LeavesOrder(c, cfg) /\ ServeInv'
BY ScanLeaves, ScanServes, TakeProcessLeaves, KillProcessLeaves, WaitProcessLeaves, CheckKeyLeaves,
   StartKeyLeaves, RunReloadLeaves, RecordReloadLeaves DEF CallStep

\* Initially nothing runs.
LEMMA InitServes == ASSUME Init PROVE ServeInv
<1>1. /\ \A p \in Proc : proc[p].state = "free"
      /\ \A k \in Key : table[k] = None
      /\ \A c \in Caller : call[c].pc = "idle" /\ call[c].cfg = NoConfig
  BY IdleIs DEF Init, Free
<1> QED BY <1>1 DEF ServeInv, OneFrpcPerPort, RunsAsStarted

\* Every step.
LEMMA NextServes == ASSUME IInv, ServeInv, [Next]_vars PROVE ServeInv'
<1>1. CASE UNCHANGED vars
  <2>1. UNCHANGED <<table, proc, file, call, clean>>
    BY <1>1 DEF vars
  <2> QED BY <2>1, FallsServes
<1>2. ASSUME NEW c \in Caller, Apply(c) \/ StopAll(c) PROVE ServeInv'
  BY <1>2, ApplyServes, StopAllServes
<1>3. ASSUME NEW c \in Caller, CallStep(c) PROVE ServeInv'
  BY <1>3, CallStepLeaves
<1>4. ASSUME NEW p \in Proc, Boot(p) \/ Die(p) \/ Reap(p) PROVE ServeInv'
  BY <1>4, BootServes, DieServes, ReapServes
<1> QED BY <1>1, <1>2, <1>3, <1>4, RestartBackendServes DEF Next

\* The invariant holds in every reachable state.
THEOREM ServeInvariance == Spec => []ServeInv
<1>1. Init => ServeInv
  BY InitServes
<1>2. IInv /\ ServeInv /\ [Next]_vars => ServeInv'
  BY NextServes
<1> QED BY <1>1, <1>2, ManagerInvariance, PTL DEF Spec

\* Only the last step of the call itself makes it succeed.
LEMMA StepSucceeds ==
    ASSUME IInv, ServeInv, IInv', Next, NEW c \in Caller, NEW cfg, cfg = call[c].cfg,
           Succeeds(c), clean
    PROVE  AllServed(cfg)'
<1>1. Active(cfg) # {} /\ call'[c].pc = "idle" /\ call'[c].res = "ok"
  BY DEF Succeeds
<1>2. call[c].pc # "idle"
  BY <1>1, IdleIs DEF ServeInv
<1>3. CASE CallStep(c)
  BY <1>1, <1>3, CallStepLeaves DEF LeavesOrder
<1>4. call'[c] # call[c]
  BY <1>1, <1>2
<1>5. ASSUME NEW d \in Caller, Apply(d) \/ StopAll(d) PROVE FALSE
  <2>1. d # c
    BY <1>2, <1>5 DEF Apply, StopAll, Accept
  <2>2. call'[c] = call[c]
    <3>1. ASSUME NEW r, call' = [call EXCEPT ![d] = r] PROVE call'[c] = call[c]
      BY <2>1, <3>1, Parts DEF TypeOK
    <3> QED BY <1>5, <3>1, ApplyIs DEF StopAll
  <2> QED BY <1>4, <2>2
<1>6. ASSUME NEW d \in Caller, d # c, CallStep(d) PROVE FALSE
  BY <1>4, <1>6, CallStepLeaves DEF LeavesOrder
<1>7. ASSUME NEW p \in Proc, Boot(p) \/ Die(p) \/ Reap(p) PROVE FALSE
  BY <1>4, <1>7 DEF Boot, Die, Reap
<1>8. ~ RestartBackend
  BY <1>1, IdleIs DEF RestartBackend
<1> QED BY <1>3, <1>5, <1>6, <1>7, <1>8 DEF Next

\* As long as calls succeed one after the other, what an Apply was asked for is what
\* is managed afterwards, and each frpc that is up runs its config: for any number of
\* goroutines, keys and processes, whether they are detached or not, whatever fails
\* (a failure of a call ends the promise) and when the backend restarts.
THEOREM SuccessfulApplyServes == Spec => SuccessIsServed
<1>1. ASSUME IInv, ServeInv, IInv', [Next]_vars
      PROVE  [\A c \in Caller : Succeeds(c) /\ clean =>
                \A k \in Key :
                    LET cfg == call[c].cfg[k]
                        p == table'[k]
                    IN  IF cfg = None THEN p = None \/ proc'[p].state = "reaped"
                        ELSE /\ p # None
                             /\ proc'[p].restartKey = RestartKey(cfg)
                             /\ proc'[p].state = "up" => proc'[p].loaded = cfg]_vars
  <2> SUFFICES ASSUME Next, NEW c \in Caller, Succeeds(c), clean, NEW k \in Key
               PROVE  LET cfg == call[c].cfg[k]
                          p == table'[k]
                      IN  IF cfg = None THEN p = None \/ proc'[p].state = "reaped"
                          ELSE /\ p # None
                               /\ proc'[p].restartKey = RestartKey(cfg)
                               /\ proc'[p].state = "up" => proc'[p].loaded = cfg
    BY <1>1
  <2>1. PICK cfg : cfg = call[c].cfg
    OBVIOUS
  <2>2. AllServed(cfg)' /\ Active(cfg) # {}
    BY <1>1, <2>1, StepSucceeds DEF Succeeds
  <2>3. CASE cfg[k] = None
    <3>1. ~ Running(table[k])'
      BY <2>2, <2>3 DEF AllServed, Active
    <3>2. table'[k] # None => proc'[table'[k]].state # "free" /\ table'[k] \in Proc
      BY <1>1 DEF IInv, TypeOK, TableHeld, Opt
    <3>3. \A p \in Proc : proc'[p].state \in {"free", "booting", "up", "dead", "reaped"}
      BY <1>1 DEF IInv, TypeOK, ProcRecord
    <3> QED BY <2>1, <2>3, <3>1, <3>2, <3>3 DEF Running
  <2>4. CASE cfg[k] # None
    BY <2>1, <2>2, <2>4 DEF AllServed, Serves, Active
  <2> QED BY <2>1, <2>3, <2>4
<1> QED BY <1>1, ManagerInvariance, ServeInvariance, PTL DEF SuccessIsServed, Spec

\* Calls keep the configs they were given.
LEMMA NextKeepsSeparate ==
    ASSUME IInv, ServeInv, [Next]_vars, \A c \in Caller : Separate(call[c].cfg)
    PROVE  \A c \in Caller : Separate(call'[c].cfg)
<1>1. Separate(NoConfig)
  BY IdleIs DEF Separate
<1>2. ASSUME NEW d \in Caller, Apply(d) \/ StopAll(d)
      PROVE  \A c \in Caller : Separate(call'[c].cfg)
  <2>1. ASSUME NEW r, call' = [call EXCEPT ![d] = r], Separate(r.cfg)
        PROVE  \A c \in Caller : Separate(call'[c].cfg)
    BY <2>1, Parts DEF TypeOK
  <2>2. CASE Apply(d)
    BY <2>1, <2>2, ApplyIs
  <2>3. CASE StopAll(d)
    <3>1. PICK r : r = [Idle("none") EXCEPT !.pc = "stop", !.stops = {k \in Key : table[k] # None}]
      OBVIOUS
    <3>2. r.cfg = NoConfig
      BY <3>1 DEF Idle
    <3> QED BY <1>1, <2>1, <2>3, <3>1, <3>2 DEF StopAll
  <2> QED BY <1>2, <2>2, <2>3
<1>3. ASSUME NEW d \in Caller, CallStep(d)
      PROVE  \A c \in Caller : Separate(call'[c].cfg)
  BY <1>1, <1>3, CallStepLeaves DEF LeavesOrder
<1>4. ASSUME UNCHANGED call
      PROVE  \A c \in Caller : Separate(call'[c].cfg)
  BY <1>4
<1>5. CASE RestartBackend
  BY <1>1, <1>5, IdleIs DEF RestartBackend
<1> QED BY <1>2, <1>3, <1>4, <1>5 DEF Next, vars, Boot, Die, Reap

\* The configs of every call have separate admin ports, and the default node the
\* configured one, for any keys and any hashes.
THEOREM CallsUseSeparatePorts == Spec => []PortsSeparate
<1> DEFINE Inv == \A c \in Caller : Separate(call[c].cfg)
<1>1. Init => Inv
  BY IdleIs DEF Init, Separate
<1>2. IInv /\ ServeInv /\ Inv /\ [Next]_vars => Inv'
  BY NextKeepsSeparate
<1>3. Inv <=> PortsSeparate
  BY DEF Separate, PortsSeparate
<1> QED BY <1>1, <1>2, <1>3, ManagerInvariance, ServeInvariance, PTL DEF Spec

=============================================================================
