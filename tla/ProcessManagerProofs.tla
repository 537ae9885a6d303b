------------------------- MODULE ProcessManagerProofs -------------------------
(***************************************************************************)
(* The process manager loses no frpc and kills none that is managed, for any *)
(* number of goroutines, keys and processes, whatever fails.  Beside the two  *)
(* properties the invariant keeps what makes them survive the unlocked steps: *)
(* a process in the table is started, under its own key, and belongs to this  *)
(* backend; the process a call is about to kill was started by this backend.  *)
(***************************************************************************)
EXTENDS ProcessManager, FiniteSetTheorems, WellFoundedInduction, TLAPS

\* What holds of the call a goroutine is in while the files are f.
CallOK(r, f) ==
    /\ r.todo \subseteq Active(r.cfg)
    /\ Active(r.cfg) \subseteq Active(f)
    /\ r.pc \in {"stop", "kill", "wait"} =>
           r.key \in Active(r.cfg) \/ (r.key = None /\ r.stops # {})
    /\ r.pc \in {"check", "start", "reload", "record"} => r.key \in Active(r.cfg)
    /\ r.pc \in {"kill", "wait"} => r.victim # None

\* A process that was started read, or will read, the file of its key.
ProcOK(q, f) ==
    /\ q.state # "free" => q.key \in Active(f)
    /\ q.state = "up" => q.loaded # None

TableHeld ==
    \A k \in Key : table[k] # None =>
        /\ proc[table[k]].key = k
        /\ proc[table[k]].state # "free"
        /\ ~ proc[table[k]].orphan

VictimsHeld ==
    \A c \in Caller : call[c].pc = "kill" =>
        proc[call[c].victim].state # "free" /\ ~ proc[call[c].victim].orphan

\* The inductive invariant.
IInv ==
    /\ TypeOK
    /\ \A c \in Caller : CallOK(call[c], file)
    /\ \A p \in Proc : ProcOK(proc[p], file)
    /\ TableHeld
    /\ VictimsHeld
    /\ NoStrayFrpc
    /\ ManagedIsNotKilled

-----------------------------------------------------------------------------
(* The steps of one call.                                                   *)

\* The absent value is none of the present ones.
LEMMA Present == None \notin Key /\ None \notin Proc /\ None \notin Config /\ Key \subseteq Nat /\ Proc \subseteq Nat
BY ManagerAssumption, PortAssumption

\* First picks the least element.
LEMMA FirstIn ==
    ASSUME NEW S \in SUBSET Nat, S # {}
    PROVE  First(S) \in S /\ \A j \in S : First(S) <= j
<1>1. PICK k \in S : \A j \in S : <<j, k>> \notin OpToRel(<, Nat)
  BY NatLessThanWellFounded, WFMin, Zenon
<1>2. \A j \in S : ~ (j < k)
  BY <1>1, Zenon DEF OpToRel
<1>3. \A j \in S : k <= j
  BY <1>2
<1> QED BY <1>3 DEF First

\* A call moves on by a step that touches neither processes nor the table, and
\* does not make it about to kill.
Moves(c) ==
    /\ call' \in [Caller -> Calls]
    /\ clean' \in BOOLEAN
    /\ CallOK(call'[c], file)
    /\ \A d \in Caller \ {c} : call'[d] = call[d]
    /\ call'[c].pc # "kill"

LEMMA IdleOK == ASSUME NEW res \in {"none", "ok", "err"}, NEW f
                PROVE  Idle(res) \in Calls /\ CallOK(Idle(res), f) /\ Idle(res).pc = "idle"
BY DEF Idle, Calls, CallOK, Active, NoConfig, Opt, Phases

LEMMA FinishMoves ==
    ASSUME TypeOK, NEW c \in Caller, NEW res \in {"none", "ok", "err"}, Finish(c, res)
    PROVE  Moves(c)
<1>1. call' = [call EXCEPT ![c] = Idle(res)] /\ call \in [Caller -> Calls]
  BY DEF Finish, TypeOK
<1>2. call'[c] = Idle(res) /\ call' \in [Caller -> Calls] /\ \A d \in Caller \ {c} : call'[d] = call[d]
  BY <1>1, IdleOK
<1>3. clean' \in BOOLEAN
  BY DEF Finish, TypeOK
<1> QED BY <1>2, <1>3, IdleOK DEF Moves

LEMMA ContinueMoves ==
    ASSUME TypeOK, NEW c \in Caller, CallOK(call[c], file),
           NEW stops \in SUBSET Key, NEW todo \in SUBSET Active(call[c].cfg),
           Continue(c, stops, todo)
    PROVE  Moves(c)
<1>1. CASE stops = {} /\ todo = {}
  BY <1>1, FinishMoves DEF Continue
<1>2. CASE ~ (stops = {} /\ todo = {})
  <2> DEFINE r == [call[c] EXCEPT
                      !.pc = IF stops # {} THEN "stop" ELSE "check",
                      !.stops = stops, !.todo = todo, !.victim = None,
                      !.key = IF stops # {} THEN None ELSE First(todo)]
  <2>1. call' = [call EXCEPT ![c] = r] /\ UNCHANGED clean
    BY <1>2 DEF Continue
  <2>2. call \in [Caller -> Calls] /\ call[c] \in Calls /\ todo \subseteq Key
    BY DEF TypeOK, Active
  <2>3. stops = {} => First(todo) \in todo
    BY <1>2, <2>2, FirstIn, Present
  <2>4. r \in Calls
    BY <2>2, <2>3 DEF Calls, Opt, Phases
  <2>5. CallOK(r, file) /\ r.pc # "kill"
    <3>1. /\ r.todo = todo /\ r.cfg = call[c].cfg /\ r.stops = stops
          /\ r.pc = IF stops # {} THEN "stop" ELSE "check"
          /\ r.key = IF stops # {} THEN None ELSE First(todo)
      BY <2>2 DEF Calls
    <3> HIDE DEF r
    <3> QED BY <3>1, <2>3 DEF CallOK
  <2> HIDE DEF r
  <2>6. call'[c] = r /\ call' \in [Caller -> Calls] /\ \A d \in Caller \ {c} : call'[d] = call[d]
    BY <2>1, <2>2, <2>4
  <2> QED BY <2>1, <2>5, <2>6 DEF Moves, TypeOK
<1> QED BY <1>1, <1>2

LEMMA GotoMoves ==
    ASSUME TypeOK, NEW c \in Caller, CallOK(call[c], file),
           NEW pc \in Phases \ {"kill"}, Goto(c, pc), UNCHANGED clean,
           pc \in {"check", "start", "reload", "record", "stop"} => call[c].key \in Active(call[c].cfg),
           pc = "wait" => call[c].pc = "kill"
    PROVE  Moves(c)
<1> DEFINE r == [call[c] EXCEPT !.pc = pc]
<1>1. call \in [Caller -> Calls] /\ call[c] \in Calls
  BY DEF TypeOK
<1>2. r \in Calls /\ r.pc = pc /\ r.todo = call[c].todo /\ r.cfg = call[c].cfg
      /\ r.key = call[c].key /\ r.stops = call[c].stops /\ r.victim = call[c].victim
  BY <1>1 DEF Calls
<1>3. call' = [call EXCEPT ![c] = r]
  BY <1>1 DEF Goto
<1> HIDE DEF r
<1>4. CallOK(r, file)
  BY <1>2 DEF CallOK
<1> QED BY <1>1, <1>2, <1>3, <1>4 DEF Moves, TypeOK

LEMMA StopDoneMoves ==
    ASSUME TypeOK, NEW c \in Caller, CallOK(call[c], file),
           call[c].pc \in {"stop", "kill", "wait"}, StopDone(c)
    PROVE  Moves(c)
<1>1. CASE call[c].key # None
  BY <1>1, GotoMoves DEF StopDone, CallOK, Phases
<1>2. CASE call[c].key = None
  <2>1. call[c] \in Calls
    BY DEF TypeOK
  <2>2. Continue(c, call[c].stops \ {First(call[c].stops)}, call[c].todo)
    BY <1>2 DEF StopDone
  <2> QED BY <2>1, <2>2, ContinueMoves DEF CallOK, Calls
<1> QED BY <1>1, <1>2

LEMMA KeyDoneMoves ==
    ASSUME TypeOK, NEW c \in Caller, CallOK(call[c], file), KeyDone(c)
    PROVE  Moves(c)
BY ContinueMoves DEF KeyDone, CallOK

-----------------------------------------------------------------------------
(* The invariant.                                                           *)

\* What the parts of the invariant say of the processes depends only on the
\* table, the processes and which calls are about to kill; a call that moves on
\* without being about to kill disturbs none of them.
LEMMA MovesKeep ==
    ASSUME IInv, NEW c \in Caller, Moves(c), call[c].pc # "kill",
           UNCHANGED <<detached, table, proc, file, calls, restarts>>
    PROVE  IInv'
<1>1. TypeOK'
  BY DEF IInv, TypeOK, Moves
<1>2. \A d \in Caller : CallOK(call'[d], file')
  BY DEF IInv, Moves
<1>3. \A p \in Proc : ProcOK(proc'[p], file')
  BY DEF IInv
<1>4. \A d \in Caller : call'[d].pc = "kill" <=> call[d].pc = "kill"
  BY DEF Moves
<1>5. \A d \in Caller : call[d].pc = "kill" => call'[d] = call[d]
  BY DEF Moves
<1>6. \A p : Stopping(p)' <=> Stopping(p)
  BY <1>4, <1>5 DEF Stopping
<1>7. TableHeld' /\ VictimsHeld'
  BY <1>4, <1>5 DEF IInv, TableHeld, VictimsHeld
<1>8. NoStrayFrpc' /\ ManagedIsNotKilled'
  BY <1>6 DEF IInv, NoStrayFrpc, ManagedIsNotKilled, Alive
<1> QED BY <1>1, <1>2, <1>3, <1>7, <1>8 DEF IInv

\* The parts of the invariant, for the current state.
LEMMA Parts ==
    ASSUME IInv
    PROVE  /\ TypeOK
           /\ \A c \in Caller : call[c] \in Calls /\ CallOK(call[c], file)
           /\ \A p \in Proc : proc[p] \in ProcRecord /\ ProcOK(proc[p], file)
           /\ \A k \in Key : table[k] \in Opt(Proc)
           /\ \A k \in Key : file[k] \in Opt(Config)
           /\ TableHeld /\ VictimsHeld /\ NoStrayFrpc /\ ManagedIsNotKilled
BY DEF IInv, TypeOK

LEMMA ScanKeeps == ASSUME IInv, NEW c \in Caller, Scan(c) PROVE IInv'
<1>1. Moves(c)
  <2>1. call[c].todo \subseteq Active(call[c].cfg)
    BY Parts DEF CallOK
  <2>2. Continue(c, {k \in Key \ call[c].todo : Running(table[k])}, call[c].todo)
    BY DEF Scan
  <2> QED BY <2>1, <2>2, Parts, ContinueMoves
<1> QED BY <1>1, MovesKeep DEF Scan

LEMMA WaitProcessKeeps == ASSUME IInv, NEW c \in Caller, WaitProcess(c) PROVE IInv'
<1>1. Moves(c)
  BY Parts, StopDoneMoves DEF WaitProcess
<1> QED BY <1>1, MovesKeep DEF WaitProcess

LEMMA CheckKeyKeeps == ASSUME IInv, NEW c \in Caller, CheckKey(c) PROVE IInv'
<1>1. Moves(c)
  BY Parts, GotoMoves DEF CheckKey, CallOK, Phases
<1> QED BY <1>1, MovesKeep DEF CheckKey

\* The key whose process a call stops.
LEMMA StoppedKey ==
    ASSUME IInv, NEW c \in Caller, call[c].pc \in {"stop", "kill", "wait"}
    PROVE  (IF call[c].key # None THEN call[c].key ELSE First(call[c].stops)) \in Key
<1>1. call[c].stops \in SUBSET Key /\ CallOK(call[c], file)
  BY Parts DEF Calls
<1>2. CASE call[c].key # None
  BY <1>1, <1>2 DEF CallOK, Active
<1>3. CASE call[c].key = None
  BY <1>1, <1>3, FirstIn, Present DEF CallOK, Active
<1> QED BY <1>2, <1>3

LEMMA TakeProcessKeeps == ASSUME IInv, NEW c \in Caller, TakeProcess(c) PROVE IInv'
<1> DEFINE k == IF call[c].key # None THEN call[c].key ELSE First(call[c].stops)
<1>1. k \in Key
  BY StoppedKey DEF TakeProcess
<1>2. /\ call[c].pc = "stop"
      /\ table' = [table EXCEPT ![k] = None]
      /\ UNCHANGED <<detached, proc, file, calls, restarts>>
  BY DEF TakeProcess
<1>3. CASE table[k] = None
  <2>1. StopDone(c)
    BY <1>3 DEF TakeProcess
  <2>2. table' = table
    BY <1>1, <1>2, <1>3, Parts DEF TypeOK
  <2> QED BY <1>2, <2>1, <2>2, Parts, StopDoneMoves, MovesKeep
<1>4. CASE table[k] # None
  <2> DEFINE p == table[k]
             r == [call[c] EXCEPT !.pc = "kill", !.victim = p]
  <2>1. call' = [call EXCEPT ![c] = r] /\ UNCHANGED clean
    BY <1>4 DEF TakeProcess
  <2>2. p \in Proc /\ p # None
    BY <1>1, <1>4, Parts DEF Opt
  <2>3. r \in Calls /\ r.pc = "kill" /\ r.victim = p /\ r.todo = call[c].todo
        /\ r.cfg = call[c].cfg /\ r.key = call[c].key /\ r.stops = call[c].stops
    BY <2>2, Parts DEF Calls, Opt, Phases
  <2> HIDE DEF r
  <2>4. /\ call' \in [Caller -> Calls] /\ call'[c] = r
        /\ \A d \in Caller \ {c} : call'[d] = call[d]
    BY <2>1, <2>3, Parts DEF TypeOK
  <2>5. /\ table' \in [Key -> Opt(Proc)] /\ table'[k] = None
        /\ \A j \in Key \ {k} : table'[j] = table[j]
    BY <1>1, <1>2, Parts DEF TypeOK, Opt
  <2>6. TypeOK'
    BY <1>2, <2>1, <2>4, <2>5, Parts DEF TypeOK
  <2>7. \A d \in Caller : CallOK(call'[d], file')
    <3>1. CallOK(r, file)
      BY <1>2, <2>2, <2>3, Parts, Present DEF CallOK
    <3> QED BY <1>2, <2>4, <3>1, Parts
  <2>8. \A q \in Proc : ProcOK(proc'[q], file')
    BY <1>2, Parts
  <2>9. proc[p].key = k /\ proc[p].state # "free" /\ ~ proc[p].orphan
    BY <1>1, <1>4, Parts DEF TableHeld
  <2>10. \A q : Stopping(q)' <=> Stopping(q) \/ q = p
    BY <1>2, <2>3, <2>4 DEF Stopping
  <2>11. TableHeld' /\ VictimsHeld'
    <3>1. TableHeld'
      BY <1>2, <2>5, Parts DEF TableHeld
    <3>2. \A d \in Caller : call'[d].pc = "kill" =>
             d = c \/ (call[d].pc = "kill" /\ call'[d].victim = call[d].victim)
      BY <2>4
    <3>3. VictimsHeld'
      BY <1>2, <2>3, <2>4, <2>9, <3>2, Parts DEF VictimsHeld
    <3> QED BY <3>1, <3>3
  <2>12. NoStrayFrpc'
    <3> SUFFICES ASSUME NEW q \in Proc, Alive(q), ~ proc[q].orphan
                 PROVE  table'[proc[q].key] = q \/ proc[q].signalled \/ Stopping(q)'
      BY <1>2 DEF NoStrayFrpc, Alive
    <3>1. table[proc[q].key] = q \/ proc[q].signalled \/ Stopping(q)
      BY Parts DEF NoStrayFrpc
    <3>2. proc[q].key \in Key
      BY Parts DEF ProcOK, Alive, Active
    <3> QED BY <2>5, <2>9, <2>10, <3>1, <3>2
  <2>13. ManagedIsNotKilled'
    <3> SUFFICES ASSUME NEW j \in Key, NEW q, q = table'[j], q # None
                 PROVE  ~ proc[q].signalled /\ ~ Stopping(q)'
      BY <1>2 DEF ManagedIsNotKilled, Stopping
    <3>1. j # k /\ table'[j] = table[j]
      BY <2>5
    <3>2. table[j] # p
      BY <1>1, <1>4, <2>9, <3>1, Parts DEF TableHeld
    <3> QED BY <2>10, <3>1, <3>2, Parts DEF ManagedIsNotKilled
  <2> QED BY <2>6, <2>7, <2>8, <2>11, <2>12, <2>13 DEF IInv
<1> QED BY <1>3, <1>4

LEMMA KillProcessKeeps == ASSUME IInv, NEW c \in Caller, KillProcess(c) PROVE IInv'
<1> DEFINE p == call[c].victim
<1>1. /\ call[c].pc = "kill"
      /\ UNCHANGED <<detached, table, file, calls, restarts>>
      /\ proc' = IF Running(p) THEN [proc EXCEPT ![p].signalled = TRUE] ELSE proc
  BY DEF KillProcess
<1>2. Moves(c)
  <2>1. CASE detached
    BY <1>1, <2>1, Parts, StopDoneMoves DEF KillProcess
  <2>2. CASE ~ detached
    BY <1>1, <2>2, Parts, GotoMoves DEF KillProcess, Phases
  <2> QED BY <2>1, <2>2
<1>3. p \in Proc /\ proc[p].state # "free" /\ ~ proc[p].orphan
  BY <1>1, Parts DEF VictimsHeld, Calls, Opt, CallOK
<1>4. /\ proc' \in [Proc -> ProcRecord]
      /\ \A q \in Proc \ {p} : proc'[q] = proc[q]
      /\ proc'[p].state = proc[p].state /\ proc'[p].key = proc[p].key
      /\ proc'[p].orphan = proc[p].orphan /\ proc'[p].loaded = proc[p].loaded
      /\ Alive(p) => proc'[p].signalled
  <2>1. CASE Running(p)
    <3> DEFINE r == [proc[p] EXCEPT !.signalled = TRUE]
    <3>1. r \in ProcRecord /\ r.state = proc[p].state /\ r.key = proc[p].key /\ r.signalled
          /\ r.orphan = proc[p].orphan /\ r.loaded = proc[p].loaded
      BY <1>3, Parts DEF ProcRecord
    <3>2. proc' = [proc EXCEPT ![p] = r] /\ proc \in [Proc -> ProcRecord]
      BY <1>1, <2>1, Parts DEF TypeOK
    <3> HIDE DEF r
    <3> QED BY <1>3, <3>1, <3>2
  <2>2. CASE ~ Running(p)
    BY <1>1, <1>3, <2>2, Parts, Present DEF TypeOK, Running, Alive
  <2> QED BY <2>1, <2>2
<1>5. TypeOK'
  BY <1>1, <1>2, <1>4, Parts DEF TypeOK, Moves
<1>6. \A d \in Caller : CallOK(call'[d], file')
  BY <1>1, <1>2, Parts DEF Moves
<1>7. \A q \in Proc : ProcOK(proc'[q], file')
  BY <1>1, <1>4, Parts DEF ProcOK
<1>8. \A q : Stopping(q)' => Stopping(q)
  BY <1>2 DEF Stopping, Moves
<1>9. \A q : q # p /\ Stopping(q) => Stopping(q)'
  BY <1>2 DEF Stopping, Moves
<1>10. TableHeld'
  BY <1>1, <1>4, Parts DEF TableHeld, Opt
<1>11. VictimsHeld'
  <2> SUFFICES ASSUME NEW d \in Caller, call'[d].pc = "kill"
               PROVE  proc'[call'[d].victim].state # "free" /\ ~ proc'[call'[d].victim].orphan
    BY DEF VictimsHeld
  <2>1. d # c /\ call'[d] = call[d]
    BY <1>2 DEF Moves
  <2>2. call[d].victim \in Proc
    BY <2>1, Parts DEF Calls, Opt, CallOK
  <2> QED BY <1>4, <2>1, <2>2, Parts DEF VictimsHeld
<1>12. NoStrayFrpc'
  <2> SUFFICES ASSUME NEW q \in Proc, Alive(q)', ~ proc'[q].orphan
               PROVE  table'[proc'[q].key] = q \/ proc'[q].signalled \/ Stopping(q)'
    BY DEF NoStrayFrpc
  <2>1. Alive(q) /\ ~ proc[q].orphan
    BY <1>4 DEF Alive
  <2>2. table[proc[q].key] = q \/ proc[q].signalled \/ Stopping(q)
    BY <2>1, Parts DEF NoStrayFrpc
  <2> QED BY <1>1, <1>4, <1>9, <2>1, <2>2
<1>13. ManagedIsNotKilled'
  <2> SUFFICES ASSUME NEW j \in Key, NEW q, q = table'[j], q # None
               PROVE  ~ proc'[q].signalled /\ ~ Stopping(q)'
    BY DEF ManagedIsNotKilled, Stopping
  <2>1. ~ proc[table[j]].signalled /\ ~ Stopping(table[j]) /\ table[j] \in Proc
    BY <1>1, Parts DEF ManagedIsNotKilled, Opt
  <2>2. table[j] # p
    BY <1>1, <2>1 DEF Stopping
  <2> QED BY <1>1, <1>4, <1>8, <2>1, <2>2
<1> QED BY <1>5, <1>6, <1>7, <1>10, <1>11, <1>12, <1>13 DEF IInv

\* A process that stays what it is for the manager: a step may end it, let it
\* read its file or record another restart key.
Same(q, old) ==
    /\ q \in ProcRecord
    /\ ProcOK(q, file)
    /\ q.key = old.key /\ q.orphan = old.orphan /\ q.signalled = old.signalled
    /\ q.state = "free" <=> old.state = "free"
    /\ q.state \in {"booting", "up"} => old.state \in {"booting", "up"}

LEMMA SameKeep ==
    ASSUME IInv, UNCHANGED <<detached, table, file, calls, restarts>>,
           proc' \in [Proc -> ProcRecord], \A q \in Proc : Same(proc'[q], proc[q]),
           \/ UNCHANGED <<call, clean>>
           \/ \E c \in Caller : Moves(c) /\ call[c].pc # "kill"
    PROVE  IInv'
<1>1. /\ call' \in [Caller -> Calls] /\ clean' \in BOOLEAN
      /\ \A d \in Caller : CallOK(call'[d], file')
      /\ \A d \in Caller : call'[d].pc = "kill" <=> call[d].pc = "kill"
      /\ \A d \in Caller : call[d].pc = "kill" => call'[d] = call[d]
  BY Parts DEF Moves, TypeOK
<1>2. TypeOK'
  BY <1>1, Parts DEF TypeOK
<1>3. \A q \in Proc : ProcOK(proc'[q], file')
  BY DEF Same
<1>4. \A q : Stopping(q)' <=> Stopping(q)
  BY <1>1 DEF Stopping
<1>5. TableHeld'
  BY Parts DEF TableHeld, Same, Opt
<1>6. VictimsHeld'
  <2> SUFFICES ASSUME NEW d \in Caller, call'[d].pc = "kill"
               PROVE  proc'[call'[d].victim].state # "free" /\ ~ proc'[call'[d].victim].orphan
    BY DEF VictimsHeld
  <2>1. call'[d] = call[d] /\ call[d].pc = "kill" /\ call[d].victim \in Proc
    BY <1>1, Parts DEF Calls, Opt, CallOK
  <2> QED BY <2>1, Parts DEF VictimsHeld, Same
<1>7. NoStrayFrpc'
  BY <1>4, Parts DEF NoStrayFrpc, Alive, Same
<1>8. ManagedIsNotKilled'
  <2> SUFFICES ASSUME NEW j \in Key, NEW q, q = table'[j], q # None
               PROVE  ~ proc'[q].signalled /\ ~ Stopping(q)'
    BY DEF ManagedIsNotKilled, Stopping
  <2>1. ~ proc[q].signalled /\ ~ Stopping(q) /\ q \in Proc
    BY Parts DEF ManagedIsNotKilled, Opt
  <2> QED BY <1>4, <2>1 DEF Same
<1> QED BY <1>1, <1>2, <1>3, <1>5, <1>6, <1>7, <1>8 DEF IInv

\* A step of one process.
LEMMA OneProcKeeps ==
    ASSUME IInv, UNCHANGED <<detached, table, file, calls, restarts>>,
           NEW p \in Proc, NEW r, Same(r, proc[p]), proc' = [proc EXCEPT ![p] = r],
           \/ UNCHANGED <<call, clean>>
           \/ \E c \in Caller : Moves(c) /\ call[c].pc # "kill"
    PROVE  IInv'
<1>1. \A q \in Proc : Same(proc[q], proc[q])
  BY Parts DEF Same
<1>2. r \in ProcRecord /\ proc \in [Proc -> ProcRecord]
  BY Parts DEF Same, TypeOK
<1> QED BY <1>1, <1>2, SameKeep

LEMMA BootKeeps == ASSUME IInv, NEW p \in Proc, Boot(p) PROVE IInv'
<1> DEFINE config == file[proc[p].key]
<1>1. /\ proc[p].state = "booting"
      /\ UNCHANGED <<detached, table, file, call, calls, restarts, clean>>
      /\ \E st \in {"dead", "up"} :
             proc' = [proc EXCEPT ![p] = [proc[p] EXCEPT !.state = st, !.loaded = config]]
  BY DEF Boot
<1>2. config \in Config
  BY <1>1, Parts DEF ProcOK, Active, Opt
<1>3. PICK st \in {"dead", "up"} :
             proc' = [proc EXCEPT ![p] = [proc[p] EXCEPT !.state = st, !.loaded = config]]
  BY <1>1
<1> DEFINE r == [proc[p] EXCEPT !.state = st, !.loaded = config]
<1>4. r \in ProcRecord /\ r.state = st /\ r.loaded = config /\ r.key = proc[p].key
      /\ r.orphan = proc[p].orphan /\ r.signalled = proc[p].signalled
  BY <1>2, Parts DEF ProcRecord, Opt
<1>5. proc' = [proc EXCEPT ![p] = r]
  BY <1>3
<1> HIDE DEF r
<1>6. Same(r, proc[p])
  BY <1>1, <1>2, <1>4, Parts, Present DEF Same, ProcOK
<1> QED BY <1>1, <1>5, <1>6, OneProcKeeps

\* A process that ends.
LEMMA EndKeeps ==
    ASSUME IInv, NEW p \in Proc, NEW st \in {"dead", "reaped"}, proc[p].state # "free",
           proc' = [proc EXCEPT ![p].state = st],
           UNCHANGED <<detached, table, file, call, calls, restarts, clean>>
    PROVE  IInv'
<1> DEFINE r == [proc[p] EXCEPT !.state = st]
<1>1. r \in ProcRecord /\ r.state = st /\ r.loaded = proc[p].loaded /\ r.key = proc[p].key
      /\ r.orphan = proc[p].orphan /\ r.signalled = proc[p].signalled
  BY Parts DEF ProcRecord
<1>2. proc' = [proc EXCEPT ![p] = r]
  BY Parts DEF TypeOK
<1> HIDE DEF r
<1>3. Same(r, proc[p])
  BY <1>1, Parts DEF Same, ProcOK
<1> QED BY <1>2, <1>3, OneProcKeeps

LEMMA DieKeeps == ASSUME IInv, NEW p \in Proc, Die(p) PROVE IInv'
BY EndKeeps DEF Die, Alive

LEMMA ReapKeeps == ASSUME IInv, NEW p \in Proc, Reap(p) PROVE IInv'
BY EndKeeps DEF Reap

LEMMA RecordReloadKeeps == ASSUME IInv, NEW c \in Caller, RecordReload(c) PROVE IInv'
<1> DEFINE k == call[c].key
           p == table[k]
           rk == RestartKey(call[c].cfg[k])
<1>1. call[c].pc = "record" /\ UNCHANGED <<detached, table, file, calls, restarts>>
  BY DEF RecordReload
<1>2. CASE call[c].res = "err"
  <2>1. Finish(c, "err") /\ UNCHANGED proc
    BY <1>2 DEF RecordReload
  <2> QED BY <1>1, <2>1, FinishMoves, MovesKeep, Parts
<1>3. CASE call[c].res = "ok"
  <2>1. KeyDone(c) /\ proc' = IF p = None THEN proc ELSE [proc EXCEPT ![p].restartKey = rk]
    BY <1>3 DEF RecordReload
  <2>2. Moves(c)
    BY <2>1, Parts, KeyDoneMoves
  <2>3. CASE p = None
    BY <1>1, <2>1, <2>2, <2>3, MovesKeep
  <2>4. CASE p # None
    <3>1. k \in Key /\ call[c].cfg[k] \in Config
      BY <1>1, Parts DEF CallOK, Active, Calls, Opt
    <3>2. rk \in Section \X Port /\ p \in Proc
      BY <2>4, <3>1, Parts DEF RestartKey, Config, Opt
    <3> DEFINE r == [proc[p] EXCEPT !.restartKey = rk]
    <3>3. r \in ProcRecord /\ r.state = proc[p].state /\ r.loaded = proc[p].loaded
          /\ r.key = proc[p].key /\ r.orphan = proc[p].orphan /\ r.signalled = proc[p].signalled
      BY <3>2, Parts DEF ProcRecord, Opt
    <3>4. proc' = [proc EXCEPT ![p] = r]
      BY <2>1, <2>4, <3>2, Parts DEF TypeOK
    <3> HIDE DEF r
    <3>5. Same(r, proc[p])
      BY <3>2, <3>3, Parts DEF Same, ProcOK
    <3> QED BY <1>1, <2>2, <3>2, <3>4, <3>5, OneProcKeeps
  <2> QED BY <2>3, <2>4
<1> QED BY <1>2, <1>3 DEF RecordReload

LEMMA RunReloadKeeps == ASSUME IInv, NEW c \in Caller, RunReload(c) PROVE IInv'
<1> DEFINE targets == Listening(file[call[c].key].port)
           taken == \E p \in targets :
                        proc' = [proc EXCEPT ![p].loaded =
                                     [proc[p].loaded EXCEPT !.proxies = file[proc[p].key].proxies]]
<1>1. /\ call[c].pc = "reload" /\ UNCHANGED <<detached, table, file, calls, restarts, clean>>
      /\ \E res \in {"ok", "err"} :
             call' = [call EXCEPT ![c] = [call[c] EXCEPT !.pc = "record", !.res = res]]
      /\ taken \/ UNCHANGED proc
  BY DEF RunReload
<1>2. Moves(c)
  <2>1. PICK res \in {"ok", "err"} :
               call' = [call EXCEPT ![c] = [call[c] EXCEPT !.pc = "record", !.res = res]]
    BY <1>1
  <2> DEFINE r == [call[c] EXCEPT !.pc = "record", !.res = res]
  <2>2. r \in Calls /\ r.pc = "record" /\ r.todo = call[c].todo /\ r.cfg = call[c].cfg
        /\ r.key = call[c].key /\ r.stops = call[c].stops
    BY Parts DEF Calls, Phases
  <2>3. call' = [call EXCEPT ![c] = r] /\ call \in [Caller -> Calls]
    BY <2>1, Parts DEF TypeOK
  <2> HIDE DEF r
  <2>4. CallOK(r, file)
    BY <1>1, <2>2, Parts DEF CallOK
  <2> QED BY <1>1, <2>2, <2>3, <2>4, Parts DEF Moves, TypeOK
<1>3. CASE UNCHANGED proc
  BY <1>1, <1>2, <1>3, MovesKeep
<1>4. CASE taken
  <2>1. PICK p \in targets :
              proc' = [proc EXCEPT ![p].loaded =
                           [proc[p].loaded EXCEPT !.proxies = file[proc[p].key].proxies]]
    BY <1>4
  <2>2. p \in Proc /\ proc[p].state = "up"
    BY DEF Listening
  <2>3. proc[p].loaded \in Config /\ file[proc[p].key] \in Config
    BY <2>2, Parts DEF ProcOK, Active, ProcRecord, Opt
  <2> DEFINE config == [proc[p].loaded EXCEPT !.proxies = file[proc[p].key].proxies]
             r == [proc[p] EXCEPT !.loaded = config]
  <2>4. config \in Config
    BY <2>3 DEF Config
  <2> HIDE DEF config
  <2>5. r \in ProcRecord /\ r.state = proc[p].state /\ r.loaded = config
        /\ r.key = proc[p].key /\ r.orphan = proc[p].orphan /\ r.signalled = proc[p].signalled
    BY <2>2, <2>4, Parts DEF ProcRecord, Opt
  <2>6. proc' = [proc EXCEPT ![p] = r]
    BY <2>1, <2>2, Parts DEF TypeOK, config
  <2> HIDE DEF r
  <2>7. Same(r, proc[p])
    BY <2>2, <2>4, <2>5, Parts, Present DEF Same, ProcOK
  <2> QED BY <1>1, <1>2, <2>2, <2>6, <2>7, OneProcKeeps
<1> QED BY <1>1, <1>3, <1>4

\* The process that is started was in no table and nobody's victim; the one it
\* replaces does not live.
LEMMA StartKeyKeeps == ASSUME IInv, NEW c \in Caller, StartKey(c) PROVE IInv'
<1> DEFINE k == call[c].key
           p == First(Unused)
           rk == RestartKey(call[c].cfg[k])
           r == [Free EXCEPT !.state = "booting", !.key = k, !.restartKey = rk]
<1>1. call[c].pc = "start" /\ UNCHANGED <<detached, file, calls, restarts>>
  BY DEF StartKey
<1>2. CASE KeyDone(c) /\ UNCHANGED <<proc, table>>
  BY <1>1, <1>2, Parts, KeyDoneMoves, MovesKeep
<1>3. CASE Finish(c, "err") /\ UNCHANGED <<proc, table>>
  BY <1>1, <1>3, Parts, FinishMoves, MovesKeep
<1>4. CASE /\ ~ Running(table[k]) /\ Unused # {} /\ KeyDone(c)
           /\ proc' = [proc EXCEPT ![p] = r] /\ table' = [table EXCEPT ![k] = p]
  <2>1. Moves(c)
    BY <1>4, Parts, KeyDoneMoves
  <2>2. p \in Proc /\ proc[p].state = "free"
    BY <1>4, FirstIn, Present DEF Unused
  <2>3. k \in Active(call[c].cfg) /\ k \in Key /\ call[c].cfg[k] \in Config /\ k \in Active(file)
    BY <1>1, Parts DEF CallOK, Active, Calls, Opt
  <2>4. rk \in Section \X Port
    BY <2>3 DEF RestartKey, Config
  <2>5. r \in ProcRecord /\ r.state = "booting" /\ r.key = k /\ ~ r.orphan /\ ~ r.signalled
    BY <2>3, <2>4 DEF ProcRecord, Free, Opt
  <2> HIDE DEF r
  <2>6. /\ proc' \in [Proc -> ProcRecord] /\ proc'[p] = r
        /\ \A q \in Proc \ {p} : proc'[q] = proc[q]
    BY <1>4, <2>2, <2>5, Parts DEF TypeOK
  <2>7. /\ table' \in [Key -> Opt(Proc)] /\ table'[k] = p
        /\ \A j \in Key \ {k} : table'[j] = table[j]
    BY <1>4, <2>2, <2>3, Parts DEF TypeOK, Opt
  <2>8. TypeOK'
    BY <1>1, <2>1, <2>6, <2>7, Parts DEF TypeOK, Moves
  <2>9. \A d \in Caller : CallOK(call'[d], file')
    BY <1>1, <2>1, Parts DEF Moves
  <2>10. \A q \in Proc : ProcOK(proc'[q], file')
    BY <1>1, <2>3, <2>5, <2>6, Parts DEF ProcOK
  <2>11. \A q : Stopping(q)' <=> Stopping(q)
    BY <1>1, <2>1 DEF Moves, Stopping
  <2>12. /\ \A j \in Key : table[j] # p
         /\ \A d \in Caller : call[d].pc = "kill" => call[d].victim # p
    BY <2>2, Parts, Present DEF TableHeld, VictimsHeld
  <2>13. TableHeld'
    <3> SUFFICES ASSUME NEW j \in Key, table'[j] # None
                 PROVE  /\ proc'[table'[j]].key = j /\ proc'[table'[j]].state # "free"
                        /\ ~ proc'[table'[j]].orphan
      BY DEF TableHeld
    <3>1. CASE j = k
      BY <2>5, <2>6, <2>7, <3>1
    <3>2. CASE j # k
      BY <2>6, <2>7, <2>12, <3>2, Parts DEF TableHeld, Opt
    <3> QED BY <3>1, <3>2
  <2>14. VictimsHeld'
    <3> SUFFICES ASSUME NEW d \in Caller, call'[d].pc = "kill"
                 PROVE  proc'[call'[d].victim].state # "free" /\ ~ proc'[call'[d].victim].orphan
      BY DEF VictimsHeld
    <3>1. call'[d] = call[d] /\ call[d].pc = "kill" /\ call[d].victim \in Proc \ {p}
      BY <2>1, <2>12, Parts DEF Moves, Calls, Opt, CallOK
    <3> QED BY <2>6, <3>1, Parts DEF VictimsHeld
  <2>15. NoStrayFrpc'
    <3> SUFFICES ASSUME NEW q \in Proc, Alive(q)', ~ proc'[q].orphan
                 PROVE  table'[proc'[q].key] = q \/ proc'[q].signalled \/ Stopping(q)'
      BY DEF NoStrayFrpc
    <3>1. CASE q = p
      BY <2>5, <2>6, <2>7, <3>1
    <3>2. CASE q # p
      <4>1. proc'[q] = proc[q] /\ Alive(q)
        BY <2>6, <3>2 DEF Alive
      <4>2. table[proc[q].key] = q \/ proc[q].signalled \/ Stopping(q)
        BY <4>1, Parts DEF NoStrayFrpc
      <4>3. table[k] # q
        BY <1>4, <4>1, Present DEF Running, Alive
      <4>4. proc[q].key \in Key
        BY <4>1, Parts DEF ProcOK, Alive, Active
      <4> QED BY <2>7, <2>11, <4>1, <4>2, <4>3, <4>4
    <3> QED BY <3>1, <3>2
  <2>16. ManagedIsNotKilled'
    <3> SUFFICES ASSUME NEW j \in Key, NEW q, q = table'[j], q # None
                 PROVE  ~ proc'[q].signalled /\ ~ Stopping(q)'
      BY DEF ManagedIsNotKilled, Stopping
    <3>1. CASE j = k
      BY <2>5, <2>6, <2>7, <2>11, <2>12, <3>1 DEF Stopping
    <3>2. CASE j # k
      BY <2>6, <2>7, <2>11, <2>12, <3>2, Parts DEF ManagedIsNotKilled, Opt
    <3> QED BY <3>1, <3>2
  <2> QED BY <2>8, <2>9, <2>10, <2>13, <2>14, <2>15, <2>16 DEF IInv
<1> QED BY <1>2, <1>3, <1>4 DEF StartKey

\* A call begins, with the files of its configs written.
LEMMA AcceptKeeps ==
    ASSUME IInv, NEW c \in Caller, Accept(c), UNCHANGED <<detached, table, proc, restarts>>,
           file' \in [Key -> Opt(Config)], Active(file) \subseteq Active(file'),
           NEW r \in Calls, r.pc # "kill", CallOK(r, file'), call' = [call EXCEPT ![c] = r]
    PROVE  IInv'
<1>1. call[c].pc = "idle" /\ calls' \in 0..MaxCalls /\ clean' \in BOOLEAN
  BY Parts, ManagerAssumption DEF Accept, TypeOK
<1>2. /\ call' \in [Caller -> Calls] /\ call'[c] = r
      /\ \A d \in Caller \ {c} : call'[d] = call[d]
  BY Parts DEF TypeOK
<1>3. TypeOK'
  BY <1>1, <1>2, Parts DEF TypeOK
<1>4. \A d \in Caller : CallOK(call'[d], file')
  <2>1. \A d \in Caller \ {c} : CallOK(call[d], file')
    BY Parts DEF CallOK
  <2> QED BY <1>2, <2>1
<1>5. \A p \in Proc : ProcOK(proc'[p], file')
  BY Parts DEF ProcOK
<1>6. /\ \A d \in Caller : call'[d].pc = "kill" <=> call[d].pc = "kill"
      /\ \A d \in Caller : call[d].pc = "kill" => call'[d] = call[d]
  BY <1>1, <1>2
<1>7. \A p : Stopping(p)' <=> Stopping(p)
  BY <1>6 DEF Stopping
<1>8. TableHeld' /\ VictimsHeld'
  BY <1>6, Parts DEF TableHeld, VictimsHeld
<1>9. NoStrayFrpc' /\ ManagedIsNotKilled'
  BY <1>7, Parts DEF NoStrayFrpc, ManagedIsNotKilled, Alive
<1> QED BY <1>3, <1>4, <1>5, <1>8, <1>9 DEF IInv

LEMMA ApplyKeeps == ASSUME IInv, NEW c \in Caller, Apply(c) PROVE IInv'
<1>1. PICK content \in [Key -> Opt(Content)] :
        LET cfg == Rendered(content) IN
        /\ \A k \in Active(content) : cfg[k].port \in Port
        /\ file' = [k \in Key |-> IF cfg[k] # None THEN cfg[k] ELSE file[k]]
        /\ call' = [call EXCEPT ![c] =
              [Idle("none") EXCEPT !.pc = "scan", !.cfg = cfg, !.todo = Active(cfg)]]
  BY DEF Apply
<1> DEFINE cfg == Rendered(content)
           r == [Idle("none") EXCEPT !.pc = "scan", !.cfg = cfg, !.todo = Active(cfg)]
<1>2. cfg \in [Key -> Opt(Config)]
  <2> DEFINE ports == AssignAdminPorts(Active(content))
  <2>1. cfg = [k \in Key |-> IF content[k] = None THEN None
                   ELSE [section |-> content[k].section, proxies |-> content[k].proxies,
                         port |-> ports[k]]]
    BY DEF Rendered
  <2> HIDE DEF ports
  <2> SUFFICES ASSUME NEW k \in Key, content[k] # None
               PROVE  cfg[k] \in Config
    BY <2>1 DEF Opt
  <2>2. content[k] \in [section : Section, proxies : Proxies]
    BY ManagerAssumption DEF Opt
  <2>3. cfg[k].port \in Port
    BY <1>1 DEF Active
  <2> QED BY <2>1, <2>2, <2>3 DEF Config
<1> HIDE DEF cfg
<1>3. file' \in [Key -> Opt(Config)] /\ Active(file) \subseteq Active(file')
      /\ Active(cfg) \subseteq Active(file')
  BY <1>1, <1>2, Parts DEF cfg, Active, Opt
<1>4. r \in Calls /\ r.pc = "scan" /\ r.todo = Active(cfg) /\ r.cfg = cfg
  BY <1>2 DEF Idle, Calls, Phases, Opt, Active, NoConfig
<1>5. call' = [call EXCEPT ![c] = r]
  BY <1>1 DEF cfg
<1> HIDE DEF r
<1>6. CallOK(r, file')
  BY <1>3, <1>4 DEF CallOK
<1> QED BY <1>3, <1>4, <1>5, <1>6, AcceptKeeps DEF Apply

LEMMA StopAllKeeps == ASSUME IInv, NEW c \in Caller, StopAll(c) PROVE IInv'
<1> DEFINE r == [Idle("none") EXCEPT !.pc = "stop", !.stops = {k \in Key : table[k] # None}]
<1>1. r \in Calls /\ r.pc = "stop" /\ r.todo = {} /\ r.cfg = NoConfig /\ r.key = None
      /\ r.stops = {k \in Key : table[k] # None}
  BY DEF Idle, Calls, Phases, Opt, NoConfig
<1>2. call' = [call EXCEPT ![c] = r] /\ r.stops # {}
  BY <1>1 DEF StopAll
<1> HIDE DEF r
<1>3. CallOK(r, file')
  BY <1>1, <1>2 DEF CallOK, Active, NoConfig
<1>4. file' \in [Key -> Opt(Config)] /\ Active(file) \subseteq Active(file')
  BY Parts DEF StopAll, TypeOK
<1> QED BY <1>1, <1>2, <1>3, <1>4, AcceptKeeps DEF StopAll

\* The processes that live are no longer this backend's.
LEMMA RestartBackendKeeps == ASSUME IInv, RestartBackend PROVE IInv'
<1>1. /\ restarts < MaxRestarts /\ restarts' = restarts + 1
      /\ table' = [k \in Key |-> None]
      /\ proc' = [p \in Proc |-> IF Alive(p) THEN [proc[p] EXCEPT !.orphan = TRUE] ELSE proc[p]]
      /\ call' = [c \in Caller |-> Idle("none")]
      /\ UNCHANGED <<detached, file, calls, clean>>
  BY DEF RestartBackend
<1>2. \A p \in Proc :
        /\ proc'[p] \in ProcRecord /\ ProcOK(proc'[p], file)
        /\ proc'[p].state = proc[p].state
        /\ Alive(p) => proc'[p].orphan
  BY <1>1, Parts DEF ProcRecord, ProcOK
<1>3. proc' \in [Proc -> ProcRecord]
  BY <1>1, <1>2
<1>4. TypeOK'
  BY <1>1, <1>3, Parts, IdleOK, ManagerAssumption DEF TypeOK, Opt
<1>5. \A c \in Caller : CallOK(call'[c], file') /\ call'[c].pc = "idle"
  BY <1>1, IdleOK
<1>6. \A p \in Proc : ProcOK(proc'[p], file')
  BY <1>1, <1>2
<1>7. TableHeld' /\ VictimsHeld' /\ ManagedIsNotKilled'
  BY <1>1, <1>5 DEF TableHeld, VictimsHeld, ManagedIsNotKilled
<1>8. NoStrayFrpc'
  BY <1>2 DEF NoStrayFrpc, Alive
<1> QED BY <1>4, <1>5, <1>6, <1>7, <1>8 DEF IInv

LEMMA InitEstablishes == ASSUME Init PROVE IInv
<1>1. /\ \A k \in Key : table[k] = None
      /\ \A p \in Proc : proc[p] = Free
      /\ \A c \in Caller : call[c] = Idle("none")
  BY DEF Init
<1>2. Free \in ProcRecord /\ Free.state = "free"
  BY DEF Free, ProcRecord, Opt
<1>3. TypeOK
  BY <1>2, IdleOK, ManagerAssumption DEF Init, TypeOK, Opt, NoConfig
<1>4. \A c \in Caller : CallOK(call[c], file) /\ call[c].pc = "idle"
  BY <1>1, IdleOK
<1>5. /\ \A p \in Proc : ProcOK(proc[p], file)
      /\ TableHeld /\ VictimsHeld /\ NoStrayFrpc /\ ManagedIsNotKilled
  BY <1>1, <1>2, <1>4 DEF ProcOK, TableHeld, VictimsHeld, NoStrayFrpc, ManagedIsNotKilled, Alive
<1> QED BY <1>3, <1>4, <1>5 DEF IInv

LEMMA NextKeeps == ASSUME IInv, [Next]_vars PROVE IInv'
<1>1. CASE UNCHANGED vars
  BY <1>1 DEF vars, IInv, TypeOK, TableHeld, VictimsHeld, NoStrayFrpc, ManagedIsNotKilled,
              Stopping, Alive
<1>2. ASSUME NEW c \in Caller, Apply(c) \/ StopAll(c) PROVE IInv'
  BY <1>2, ApplyKeeps, StopAllKeeps
<1>3. ASSUME NEW c \in Caller, CallStep(c) PROVE IInv'
  BY <1>3, ScanKeeps, TakeProcessKeeps, KillProcessKeeps, WaitProcessKeeps, CheckKeyKeeps,
     StartKeyKeeps, RunReloadKeeps, RecordReloadKeeps DEF CallStep
<1>4. ASSUME NEW p \in Proc, Boot(p) \/ Die(p) \/ Reap(p) PROVE IInv'
  BY <1>4, BootKeeps, DieKeeps, ReapKeeps
<1> QED BY <1>1, <1>2, <1>3, <1>4, RestartBackendKeeps DEF Next

-----------------------------------------------------------------------------

\* The inductive invariant holds in every reachable state.
THEOREM ManagerInvariance == Spec => []IInv
<1>1. Init => IInv
  BY InitEstablishes
<1>2. IInv /\ [Next]_vars => IInv'
  BY NextKeeps
<1> QED BY <1>1, <1>2, PTL DEF Spec

\* The table, the processes and the calls are well typed, for any number of
\* goroutines, keys and processes and any combination of faults.
THEOREM ManagerTyped == Spec => []TypeOK
<1>1. IInv => TypeOK
  BY DEF IInv
<1> QED BY <1>1, ManagerInvariance, PTL

\* Apply and StopAll release the lock between their steps, and still no frpc the
\* manager started lives on without being in its table, killed or about to be.
THEOREM NoFrpcIsLost == Spec => []NoStrayFrpc
<1>1. IInv => NoStrayFrpc
  BY DEF IInv
<1> QED BY <1>1, ManagerInvariance, PTL

\* No call kills the frpc that another call has put into the table.
THEOREM NoFrpcIsKilledLate == Spec => []ManagedIsNotKilled
<1>1. IInv => ManagedIsNotKilled
  BY DEF IInv
<1> QED BY <1>1, ManagerInvariance, PTL

-----------------------------------------------------------------------------
(* The end of a call: each step brings it nearer.                           *)

\* The keys a call has to do can be counted, and become fewer.
LEMMA KeysLeft ==
    ASSUME IsFiniteSet(Key), NEW S \in SUBSET Key
    PROVE  /\ Cardinality(S) \in 0 .. Cardinality(Key)
           /\ Cardinality(Key) \in Nat
           /\ Cardinality({}) = 0
           /\ \A k \in S : Cardinality(S \ {k}) = Cardinality(S) - 1
           /\ S \ {None} = S
<1>1. /\ IsFiniteSet(S) /\ Cardinality(S) <= Cardinality(Key)
      /\ Cardinality(S) \in Nat /\ Cardinality(Key) \in Nat
  BY FS_Subset, FS_CardinalityType
<1>2. \A k \in S : Cardinality(S \ {k}) = Cardinality(S) - 1
  BY <1>1, FS_RemoveElement
<1>3. S \ {None} = S
  BY Present
<1>4. Cardinality({}) = 0
  BY FS_EmptySet
<1> QED BY <1>1, <1>2, <1>3, <1>4

\* The steps of a key, in their order.
LEMMA StepsInOrder ==
    ASSUME IsFiniteSet(Key)
    PROVE  /\ Cardinality(Key) \in Nat
           /\ StepsOfKey("idle") = 0
           /\ StepsOfKey("start") = 1 /\ StepsOfKey("record") = 1
           /\ StepsOfKey("wait") = 2 /\ StepsOfKey("reload") = 2
           /\ StepsOfKey("kill") = 3 /\ StepsOfKey("stop") = 4 /\ StepsOfKey("check") = 5
           /\ StepsOfKey("scan") = 10 * Cardinality(Key) + 5
BY FS_CardinalityType DEF StepsOfKey

\* What is counted of the call of c.
LEMMA StepsAre ==
    ASSUME IsFiniteSet(Key), IInv, NEW c \in Caller
    PROVE  /\ call[c].stops \in SUBSET Key /\ call[c].todo \in SUBSET Key /\ call[c].pc \in Phases
           /\ Cardinality(Key) \in Nat /\ Cardinality(call[c].stops) \in Nat
           /\ Cardinality(call[c].todo \ {call[c].key}) \in Nat
           /\ StepsOfKey(call[c].pc) \in Nat /\ StepsLeft(c) \in Nat
           /\ call[c].pc # "idle" => StepsOfKey(call[c].pc) > 0 /\ StepsLeft(c) > 0
           /\ StepsLeft(c) = 5 * Cardinality(call[c].stops)
                               + 5 * Cardinality(call[c].todo \ {call[c].key}) + StepsOfKey(call[c].pc)
<1>1. call[c].stops \in SUBSET Key /\ call[c].todo \in SUBSET Key /\ call[c].pc \in Phases
  BY Parts DEF Calls
<1>2. call[c].todo \ {call[c].key} \in SUBSET Key
  BY <1>1
<1>3. /\ Cardinality(Key) \in Nat /\ Cardinality(call[c].stops) \in Nat
      /\ Cardinality(call[c].todo \ {call[c].key}) \in Nat
  BY <1>1, <1>2, KeysLeft
<1>4. StepsOfKey(call[c].pc) \in Nat /\ (call[c].pc # "idle" => StepsOfKey(call[c].pc) > 0)
  BY <1>1, <1>3, StepsInOrder DEF Phases
<1>5. StepsLeft(c) = 5 * Cardinality(call[c].stops)
                       + 5 * Cardinality(call[c].todo \ {call[c].key}) + StepsOfKey(call[c].pc)
  BY DEF StepsLeft
<1> QED BY <1>1, <1>3, <1>4, <1>5

\* A step of c changes no other call and brings its own nearer.
Nearer(c) ==
    /\ \A d \in Caller \ {c} : call'[d] = call[d]
    /\ StepsLeft(c)' < StepsLeft(c)

\* A call that returns has no steps left.
LEMMA FinishNearer ==
    ASSUME IsFiniteSet(Key), IInv, NEW c \in Caller, call[c].pc # "idle", NEW res, Finish(c, res)
    PROVE  Nearer(c)
<1>1. /\ call'[c].pc = "idle" /\ call'[c].stops = {} /\ call'[c].todo = {}
      /\ \A d \in Caller \ {c} : call'[d] = call[d]
  BY Parts DEF Finish, Idle, TypeOK
<1>2. Cardinality(Key) \in Nat /\ Cardinality({}) = 0 /\ {} \ {call'[c].key} = {}
  BY KeysLeft
<1>3. StepsLeft(c)' = 0
  BY <1>1, <1>2, StepsInOrder DEF StepsLeft
<1>4. StepsLeft(c) > 0
  BY StepsAre
<1> QED BY <1>1, <1>3, <1>4 DEF Nearer

\* Going on with the same key.
LEMMA GotoNearer ==
    ASSUME IsFiniteSet(Key), IInv, NEW c \in Caller, NEW r, call' = [call EXCEPT ![c] = r],
           r.stops = call[c].stops, r.todo = call[c].todo, r.key = call[c].key,
           StepsOfKey(r.pc) < StepsOfKey(call[c].pc), StepsOfKey(r.pc) \in Nat
    PROVE  Nearer(c)
<1>1. call'[c] = r /\ \A d \in Caller \ {c} : call'[d] = call[d]
  BY Parts DEF TypeOK
<1>2. StepsLeft(c)' = 5 * Cardinality(call[c].stops) + 5 * Cardinality(call[c].todo \ {call[c].key})
                        + StepsOfKey(r.pc)
  BY <1>1 DEF StepsLeft
<1> QED BY <1>1, <1>2, StepsAre DEF Nearer

\* Going on with the keys of stops and todo, the first of which becomes the current one.
LEMMA ContinueNearer ==
    ASSUME IsFiniteSet(Key), IInv, NEW c \in Caller, call[c].pc # "idle",
           NEW stops \in SUBSET Key, NEW todo \in SUBSET Key, Continue(c, stops, todo),
           stops # {} => 5 * Cardinality(stops) + 5 * Cardinality(todo) + 4 < StepsLeft(c),
           stops = {} => 5 * Cardinality(todo) < StepsLeft(c)
    PROVE  Nearer(c)
<1>1. CASE stops = {} /\ todo = {}
  BY <1>1, FinishNearer DEF Continue
<1>2. CASE ~ (stops = {} /\ todo = {})
  <2> DEFINE pc == IF stops # {} THEN "stop" ELSE "check"
             key == IF stops # {} THEN None ELSE First(todo)
             r == [call[c] EXCEPT !.pc = pc, !.stops = stops, !.todo = todo, !.victim = None, !.key = key]
  <2>1. call' = [call EXCEPT ![c] = r]
    BY <1>2 DEF Continue
  <2>2. r.pc = pc /\ r.stops = stops /\ r.todo = todo /\ r.key = key
    BY Parts DEF Calls
  <2> HIDE DEF r
  <2>3. call'[c] = r /\ \A d \in Caller \ {c} : call'[d] = call[d]
    BY <2>1, Parts DEF TypeOK
  <2>4. StepsLeft(c)' = 5 * Cardinality(stops) + 5 * Cardinality(todo \ {key}) + StepsOfKey(pc)
    BY <2>2, <2>3 DEF StepsLeft
  <2>5. CASE stops # {}
    <3>1. pc = "stop" /\ todo \ {key} = todo
      BY <2>5, KeysLeft
    <3>2. StepsOfKey(pc) = 4
      BY <3>1, StepsAre, StepsInOrder
    <3> QED BY <2>3, <2>4, <2>5, <3>1, <3>2 DEF Nearer
  <2>6. CASE stops = {}
    <3>1. pc = "check" /\ key \in todo
      BY <1>2, <2>6, FirstIn, Present
    <3>2. /\ Cardinality(todo \ {key}) = Cardinality(todo) - 1 /\ Cardinality(todo) \in Nat
          /\ Cardinality(stops) = 0
      BY <2>6, <3>1, KeysLeft
    <3>3. StepsLeft(c)' = 5 * Cardinality(todo)
      BY <2>4, <3>1, <3>2, StepsAre, StepsInOrder
    <3> QED BY <2>3, <2>6, <3>3 DEF Nearer
  <2> QED BY <2>5, <2>6
<1> QED BY <1>1, <1>2

\* The current key is done.
LEMMA KeyDoneNearer ==
    ASSUME IsFiniteSet(Key), IInv, NEW c \in Caller, call[c].pc # "idle", KeyDone(c)
    PROVE  Nearer(c)
<1>1. PICK todo \in SUBSET Key : todo = call[c].todo \ {call[c].key}
  BY StepsAre
<1>2. 5 * Cardinality(todo) < StepsLeft(c)
  BY <1>1, StepsAre
<1> QED BY <1>1, <1>2, ContinueNearer DEF KeyDone

\* The stop of a stale key, or of the key to restart, is over.
LEMMA StopDoneNearer ==
    ASSUME IsFiniteSet(Key), IInv, NEW c \in Caller, call[c].pc \in {"stop", "kill", "wait"},
           StopDone(c)
    PROVE  Nearer(c)
<1>1. CASE call[c].key # None
  <2> DEFINE r == [call[c] EXCEPT !.pc = "start"]
  <2>1. call' = [call EXCEPT ![c] = r]
    BY <1>1 DEF StopDone, Goto
  <2>2. r.pc = "start" /\ r.stops = call[c].stops /\ r.todo = call[c].todo /\ r.key = call[c].key
    BY Parts DEF Calls
  <2>3. StepsOfKey("start") < StepsOfKey(call[c].pc) /\ StepsOfKey("start") \in Nat
    BY StepsAre, StepsInOrder
  <2> HIDE DEF r
  <2> QED BY <2>1, <2>2, <2>3, GotoNearer
<1>2. CASE call[c].key = None
  <2>1. call[c].stops \in SUBSET Nat /\ call[c].stops # {} /\ call[c].stops \in SUBSET Key
    BY <1>2, Parts, Present, StepsAre DEF CallOK, Active
  <2>2. PICK k \in call[c].stops : k = First(call[c].stops)
    BY <2>1, FirstIn
  <2>3. PICK stops \in SUBSET Key : stops = call[c].stops \ {k}
    BY <2>1
  <2>4. PICK todo \in SUBSET Key : todo = call[c].todo
    BY StepsAre
  <2>5. Continue(c, stops, todo)
    BY <1>2, <2>2, <2>3, <2>4 DEF StopDone
  <2>6. Cardinality(stops) = Cardinality(call[c].stops) - 1 /\ Cardinality(stops) \in Nat
    BY <2>1, <2>3, KeysLeft
  <2>7. todo \ {call[c].key} = todo /\ Cardinality(todo) \in Nat
    BY <1>2, KeysLeft
  <2>8. StepsLeft(c) >= 5 * Cardinality(stops) + 5 + 5 * Cardinality(todo) + 2
    <3>1. StepsOfKey(call[c].pc) >= 2
      BY StepsAre, StepsInOrder
    <3> QED BY <2>4, <2>6, <2>7, <3>1, StepsAre
  <2>9. stops = {} => Cardinality(stops) = 0
    BY KeysLeft
  <2>12. StepsLeft(c) \in Nat
    BY StepsAre
  <2>10. stops # {} => 5 * Cardinality(stops) + 5 * Cardinality(todo) + 4 < StepsLeft(c)
    BY <2>6, <2>7, <2>8, <2>12
  <2>11. stops = {} => 5 * Cardinality(todo) < StepsLeft(c)
    BY <2>7, <2>8, <2>9, <2>12
  <2> QED BY <2>5, <2>10, <2>11, ContinueNearer
<1> QED BY <1>1, <1>2

\* Apply's first section: at most as many keys to stop as there are.
LEMMA ScanNearer ==
    ASSUME IsFiniteSet(Key), IInv, NEW c \in Caller, Scan(c)
    PROVE  Nearer(c)
<1>1. PICK stops \in SUBSET Key : stops = {k \in Key \ call[c].todo : Running(table[k])}
  OBVIOUS
<1>2. PICK todo \in SUBSET Key : todo = call[c].todo
  BY StepsAre
<1>3. Continue(c, stops, todo) /\ call[c].pc = "scan"
  BY <1>1, <1>2 DEF Scan
<1>4. Cardinality(stops) \in 0 .. Cardinality(Key) /\ Cardinality(todo) \in 0 .. Cardinality(Key)
  BY KeysLeft
<1>5. Cardinality(Key) \in Nat /\ StepsLeft(c) \in Nat /\ StepsLeft(c) >= 10 * Cardinality(Key) + 5
  <2>1. StepsLeft(c) = 5 * Cardinality(call[c].stops)
                         + 5 * Cardinality(call[c].todo \ {call[c].key}) + StepsOfKey("scan")
    BY <1>3, StepsAre
  <2> QED BY <2>1, StepsAre, StepsInOrder
<1>6. /\ 5 * Cardinality(stops) + 5 * Cardinality(todo) + 4 < StepsLeft(c)
      /\ 5 * Cardinality(todo) < StepsLeft(c)
  BY <1>4, <1>5
<1> QED BY <1>3, <1>6, ContinueNearer

\* Every step of a call brings it nearer to its return.
LEMMA CallStepNearer ==
    ASSUME IsFiniteSet(Key), IInv, NEW c \in Caller, CallStep(c)
    PROVE  Nearer(c)
<1>1. call[c] \in Calls
  BY Parts
<1>2. ASSUME NEW pc \in Phases, NEW victim,
             \/ call' = [call EXCEPT ![c] = [call[c] EXCEPT !.pc = pc, !.victim = victim]]
             \/ call' = [call EXCEPT ![c] = [call[c] EXCEPT !.pc = pc, !.res = victim]]
             \/ Goto(c, pc),
             StepsOfKey(pc) < StepsOfKey(call[c].pc), StepsOfKey(pc) \in Nat
      PROVE  Nearer(c)
  <2>1. PICK r : /\ call' = [call EXCEPT ![c] = r] /\ r.pc = pc
                 /\ r.stops = call[c].stops /\ r.todo = call[c].todo /\ r.key = call[c].key
    <3>1. \A r : r = [call[c] EXCEPT !.pc = pc, !.victim = victim]
                   \/ r = [call[c] EXCEPT !.pc = pc, !.res = victim] \/ r = [call[c] EXCEPT !.pc = pc] =>
              /\ r.pc = pc
              /\ r.stops = call[c].stops /\ r.todo = call[c].todo /\ r.key = call[c].key
      BY <1>1 DEF Calls
    <3>2. \E r : /\ call' = [call EXCEPT ![c] = r]
                 /\ r = [call[c] EXCEPT !.pc = pc, !.victim = victim]
                   \/ r = [call[c] EXCEPT !.pc = pc, !.res = victim] \/ r = [call[c] EXCEPT !.pc = pc]
      BY <1>2, Zenon DEF Goto
    <3> QED BY <3>1, <3>2, Zenon
  <2> QED BY <1>2, <2>1, GotoNearer
<1>3. CASE Scan(c)
  BY <1>3, ScanNearer
<1>4. CASE TakeProcess(c)
  <2>1. CASE StopDone(c)
    BY <1>4, <2>1, StopDoneNearer DEF TakeProcess
  <2>2. CASE ~ StopDone(c)
    <3>1. PICK victim : call' = [call EXCEPT ![c] = [call[c] EXCEPT !.pc = "kill", !.victim = victim]]
      BY <1>4, <2>2 DEF TakeProcess
    <3>2. StepsOfKey("kill") < StepsOfKey(call[c].pc) /\ StepsOfKey("kill") \in Nat
      BY <1>4, StepsAre, StepsInOrder DEF TakeProcess
    <3> QED BY <1>2, <3>1, <3>2 DEF Phases
  <2> QED BY <2>1, <2>2
<1>5. CASE KillProcess(c)
  <2>1. StepsOfKey("wait") < StepsOfKey(call[c].pc) /\ StepsOfKey("wait") \in Nat
    BY <1>5, StepsAre, StepsInOrder DEF KillProcess
  <2> QED BY <1>2, <1>5, <2>1, StopDoneNearer DEF KillProcess, Phases
<1>6. CASE WaitProcess(c)
  BY <1>6, StopDoneNearer DEF WaitProcess
<1>7. CASE CheckKey(c)
  <2>1. PICK pc \in {"stop", "reload", "start"} : Goto(c, pc)
    BY <1>7 DEF CheckKey
  <2>2. StepsOfKey(pc) < StepsOfKey(call[c].pc) /\ StepsOfKey(pc) \in Nat
    BY <1>7, StepsAre, StepsInOrder DEF CheckKey
  <2> QED BY <1>2, <2>1, <2>2 DEF Phases
<1>8. CASE StartKey(c)
  BY <1>8, KeyDoneNearer, FinishNearer DEF StartKey
<1>9. CASE RunReload(c)
  <2>1. PICK res : call' = [call EXCEPT ![c] = [call[c] EXCEPT !.pc = "record", !.res = res]]
    BY <1>9 DEF RunReload
  <2>2. StepsOfKey("record") < StepsOfKey(call[c].pc) /\ StepsOfKey("record") \in Nat
    BY <1>9, StepsAre, StepsInOrder DEF RunReload
  <2> QED BY <1>2, <2>1, <2>2 DEF Phases
<1>10. CASE RecordReload(c)
  BY <1>10, KeyDoneNearer, FinishNearer DEF RecordReload
<1> QED BY <1>3, <1>4, <1>5, <1>6, <1>7, <1>8, <1>9, <1>10 DEF CallStep

\* Whatever fails and whatever other calls and the processes do, a call under way
\* moves by steps of its own only, and each brings its return nearer.  Under the
\* fairness of FairSpec this is why CallsEnd holds.
THEOREM CallsRunOut == ASSUME IsFiniteSet(Key) PROVE Spec => StepsRunOut
<1> DEFINE Nears == \A c \in Caller : call[c].pc # "idle" /\ call'[c] # call[c] =>
                       StepsLeft(c)' < StepsLeft(c)
<1>1. ASSUME IInv, [Next]_vars PROVE [Nears]_vars
  <2>1. ASSUME NEW d \in Caller, Apply(d) \/ StopAll(d) PROVE Nears
    <3>1. call[d].pc = "idle" /\ \A c \in Caller \ {d} : call'[c] = call[c]
      BY <1>1, <2>1, Parts DEF Apply, StopAll, Accept, TypeOK
    <3> QED BY <3>1
  <2>2. ASSUME NEW d \in Caller, CallStep(d) PROVE Nears
    BY <1>1, <2>2, CallStepNearer DEF Nearer
  <2>3. CASE RestartBackend
    <3> HIDE DEF Nears
    <3>1. \A c \in Caller : call'[c].pc = "idle" /\ call'[c].stops = {} /\ call'[c].todo = {}
      BY <2>3 DEF RestartBackend, Idle
    <3>2. Cardinality({}) = 0
      BY KeysLeft
    <3>3. ASSUME NEW c \in Caller PROVE StepsLeft(c)' = 0
      <4>1. call'[c].pc = "idle" /\ call'[c].stops = {} /\ call'[c].todo \ {call'[c].key} = {}
        BY <3>1
      <4>2. /\ Cardinality(call'[c].stops) = 0
            /\ Cardinality(call'[c].todo \ {call'[c].key}) = 0
            /\ StepsOfKey(call'[c].pc) = 0
        BY <3>2, <4>1, StepsInOrder
      <4> QED BY <4>2 DEF StepsLeft
    <3>4. \A c \in Caller : call[c].pc # "idle" => StepsLeft(c)' < StepsLeft(c)
      BY <1>1, <3>3, StepsAre
    <3> QED BY <3>4 DEF Nears
  <2>4. CASE UNCHANGED vars \/ \E p \in Proc : Boot(p) \/ Die(p) \/ Reap(p)
    <3>1. UNCHANGED call
      BY <2>4 DEF vars, Boot, Die, Reap
    <3> QED BY <3>1
  <2> QED BY <1>1, <2>1, <2>2, <2>3, <2>4 DEF Next
<1>2. [][Nears]_vars => StepsRunOut
  BY PTL DEF StepsRunOut
<1> QED BY <1>1, <1>2, ManagerInvariance, PTL DEF Spec

=============================================================================
