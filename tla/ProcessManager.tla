---------------------------- MODULE ProcessManager ----------------------------
(***************************************************************************)
(* The frpc process manager (internal/client/process.go) below its lock, and *)
(* the frpc processes of the machine.  Apply and StopAll are called by HTTP   *)
(* handlers and direct commands without any other lock: between the critical *)
(* sections of one call the others run, processes boot, exit and are waited  *)
(* for, and the frpc reload command talks to whatever listens on the admin   *)
(* port.                                                                     *)
(*                                                                         *)
(* What a frpc process does with its config file, its port and the reload     *)
(* command is external, modelled from how process.go uses it.                *)
(***************************************************************************)
EXTENDS AdminPorts, FiniteSets

CONSTANTS
    Section,   \* common sections, without the admin port
    Proxies,   \* contents of the rest of a config file
    Content,   \* the (section, proxies) pairs users configure
    Caller,    \* goroutines that call the manager
    Proc,      \* frpc processes, in the order they are started
    Modes,     \* whether the manager detaches its processes
    Faults,    \* what may go wrong
    MaxCalls,  \* bound on the calls of a behaviour
    MaxRestarts

FaultKinds == {"exit", "start", "reload", "timeout", "restart"}

Port == 1 .. MaxPort

Config == [section : Section, proxies : Proxies, port : Port]

Opt(S) == S \union {None}

ASSUME ManagerAssumption ==
    /\ Content \subseteq [section : Section, proxies : Proxies]
    /\ Proc \subseteq Nat
    /\ Modes \subseteq BOOLEAN
    /\ Faults \subseteq FaultKinds
    /\ MaxCalls \in Nat /\ MaxRestarts \in Nat
    /\ None \notin Key \union Proc \union Config

VARIABLES
    detached,  \* WithDetachedProcesses
    table,     \* pm.processes
    proc,      \* each frpc process with the managedProcess that holds it
    file,      \* the config file of each key
    call,      \* the call each goroutine is in
    calls,     \* calls made so far
    restarts,  \* restarts of the backend so far
    clean      \* no call has failed, overlapped or met a booting frpc

vars == <<detached, table, proc, file, call, calls, restarts, clean>>

\* A dead frpc becomes "reaped" when Wait returns; a detached one is waited for
\* by nobody and, on Unix, stays a pid that exists.
Free == [state |-> "free", key |-> None, restartKey |-> None, loaded |-> None,
         signalled |-> FALSE, orphan |-> FALSE]

ProcRecord == [state : {"free", "booting", "up", "dead", "reaped"}, key : Opt(Key),
               restartKey : Opt(Section \X Port), loaded : Opt(Config),
               signalled : BOOLEAN, orphan : BOOLEAN]

Phases == {"idle", "scan", "stop", "kill", "wait", "check", "start", "reload", "record"}

Calls == [pc : Phases, cfg : [Key -> Opt(Config)], stops : SUBSET Key, todo : SUBSET Key,
          key : Opt(Key), victim : Opt(Proc), res : {"none", "ok", "err"}]

NoConfig == [k \in Key |-> None]

Idle(res) == [pc |-> "idle", cfg |-> NoConfig, stops |-> {}, todo |-> {},
              key |-> None, victim |-> None, res |-> res]

Init ==
    /\ detached \in Modes
    /\ table = [k \in Key |-> None]
    /\ proc = [p \in Proc |-> Free]
    /\ file = NoConfig
    /\ call = [c \in Caller |-> Idle("none")]
    /\ calls = 0
    /\ restarts = 0
    /\ clean = TRUE

-----------------------------------------------------------------------------

Active(cfg) == {k \in Key : cfg[k] # None}

Alive(p) == proc[p].state \in {"booting", "up"}

\* runningLocked: an exit counts once it was waited for; kill(pid, 0) succeeds
\* on a dead child nobody waits for.
Running(p) == p # None /\ proc[p].state \in {"booting", "up", "dead"}

\* Mutant of RestartKey: the proxies in place of the port.
ProxiesKey(config) == <<config.section, config.proxies>>

RestartKey(config) == <<config.section, config.port>>

Goto(c, pc) == call' = [call EXCEPT ![c].pc = pc]

Finish(c, res) ==
    /\ call' = [call EXCEPT ![c] = Idle(res)]
    /\ clean' = (clean /\ res = "ok")

\* The next stale key to stop, then the next config to reload, then the end.
Continue(c, stops, todo) ==
    IF stops = {} /\ todo = {} THEN Finish(c, "ok")
    ELSE /\ call' = [call EXCEPT ![c] = [call[c] EXCEPT
              !.pc = IF stops # {} THEN "stop" ELSE "check",
              !.stops = stops, !.todo = todo, !.victim = None,
              !.key = IF stops # {} THEN None ELSE First(todo)]]
         /\ UNCHANGED clean

KeyDone(c) == Continue(c, {}, call[c].todo \ {call[c].key})

-----------------------------------------------------------------------------
(* Calls.                                                                   *)

Accept(c) ==
    /\ call[c].pc = "idle"
    /\ calls < MaxCalls
    /\ calls' = calls + 1
    /\ clean' = (/\ clean
                 /\ \A d \in Caller : call[d].pc = "idle"
                 /\ \A p \in Proc : proc[p].state # "booting")

\* The configs rendered for a choice of active keys and of their contents.
Rendered(content) ==
    LET ports == AssignAdminPorts(Active(content)) IN
    [k \in Key |-> IF content[k] = None THEN None
                   ELSE [section |-> content[k].section, proxies |-> content[k].proxies,
                         port |-> ports[k]]]

\* The handler writes the files of all its configs, then calls Apply.
Apply(c) ==
    /\ Accept(c)
    /\ \E content \in [Key -> Opt(Content)] :
           LET cfg == Rendered(content) IN
           /\ Active(content) # {}
           /\ \A k \in Active(content) : cfg[k].port \in Port
           /\ file' = [k \in Key |-> IF cfg[k] # None THEN cfg[k] ELSE file[k]]
           /\ call' = [call EXCEPT ![c] =
                [Idle("none") EXCEPT !.pc = "scan", !.cfg = cfg, !.todo = Active(cfg)]]
    /\ UNCHANGED <<detached, table, proc, restarts>>

\* Apply's first section: the running processes that have no config any more.
Scan(c) ==
    /\ call[c].pc = "scan"
    /\ Continue(c, {k \in Key \ call[c].todo : Running(table[k])}, call[c].todo)
    /\ UNCHANGED <<detached, table, proc, file, calls, restarts>>

\* StopAll collects the keys in one section and stops them one by one.
StopAll(c) ==
    /\ Accept(c)
    /\ \E k \in Key : table[k] # None
    /\ call' = [call EXCEPT ![c] = [Idle("none") EXCEPT
          !.pc = "stop", !.stops = {k \in Key : table[k] # None}]]
    /\ UNCHANGED <<detached, table, proc, file, restarts>>

-----------------------------------------------------------------------------
(* stopKey, of a stale key or of the key to restart.                        *)

\* Mutant of StopDone: the key is checked again instead of started.
StopDoneChecksAgain(c) ==
    IF call[c].key # None THEN Goto(c, "check") /\ UNCHANGED clean
    ELSE Continue(c, call[c].stops \ {First(call[c].stops)}, call[c].todo)

StopDone(c) ==
    IF call[c].key # None THEN Goto(c, "start") /\ UNCHANGED clean
    ELSE Continue(c, call[c].stops \ {First(call[c].stops)}, call[c].todo)

\* The record leaves the table under the lock; the rest is done without it.
TakeProcess(c) ==
    LET k == IF call[c].key # None THEN call[c].key ELSE First(call[c].stops) IN
    /\ call[c].pc = "stop"
    /\ table' = [table EXCEPT ![k] = None]
    /\ IF table[k] = None THEN StopDone(c)
       ELSE /\ call' = [call EXCEPT ![c] = [call[c] EXCEPT !.pc = "kill", !.victim = table[k]]]
            /\ UNCHANGED clean
    /\ UNCHANGED <<detached, proc, file, calls, restarts>>

\* Mutant of KillProcess: the process of the key is looked up again.
KillCurrent(c) ==
    LET k == IF call[c].key # None THEN call[c].key ELSE First(call[c].stops)
        p == IF table[k] # None THEN table[k] ELSE call[c].victim
    IN
    /\ call[c].pc = "kill"
    /\ proc' = [proc EXCEPT ![p].signalled = TRUE]
    /\ Goto(c, "wait")
    /\ UNCHANGED <<detached, table, file, calls, restarts, clean>>

\* A detached frpc is killed by its pid and not waited for.
KillProcess(c) ==
    LET p == call[c].victim IN
    /\ call[c].pc = "kill"
    /\ proc' = IF Running(p) THEN [proc EXCEPT ![p].signalled = TRUE] ELSE proc
    /\ IF detached THEN StopDone(c) ELSE Goto(c, "wait") /\ UNCHANGED clean
    /\ UNCHANGED <<detached, table, file, calls, restarts>>

\* Mutant of WaitProcess: it waits for as long as it takes.
WaitForever(c) ==
    /\ call[c].pc = "wait"
    /\ proc[call[c].victim].state = "reaped"
    /\ StopDone(c)
    /\ UNCHANGED <<detached, table, proc, file, calls, restarts>>

\* Done is closed, or three seconds are over: either way the call goes on.
WaitProcess(c) ==
    /\ call[c].pc = "wait"
    /\ proc[call[c].victim].state = "reaped" \/ "timeout" \in Faults
    /\ StopDone(c)
    /\ UNCHANGED <<detached, table, proc, file, calls, restarts>>

-----------------------------------------------------------------------------
(* reloadKey and startKey.                                                  *)

\* Mutant of CheckKey: a process that runs is reloaded, whatever it runs.
CheckRunningOnly(c) ==
    /\ call[c].pc = "check"
    /\ Goto(c, IF Running(table[call[c].key]) THEN "reload" ELSE "start")
    /\ UNCHANGED <<detached, table, proc, file, calls, restarts, clean>>

CheckKey(c) ==
    LET k == call[c].key
        running == Running(table[k])
        needsRestart == running /\ proc[table[k]].restartKey # RestartKey(call[c].cfg[k])
    IN
    /\ call[c].pc = "check"
    /\ Goto(c, IF needsRestart THEN "stop" ELSE IF running THEN "reload" ELSE "start")
    /\ UNCHANGED <<detached, table, proc, file, calls, restarts, clean>>

Unused == {p \in Proc : proc[p].state = "free"}

\* Mutant of StartKey: a process that runs by now is not looked for.
StartUnchecked(c) ==
    LET k == call[c].key
        p == First(Unused)
    IN
    /\ call[c].pc = "start"
    /\ Unused # {}
    /\ proc' = [proc EXCEPT ![p] = [Free EXCEPT
          !.state = "booting", !.key = k, !.restartKey = RestartKey(call[c].cfg[k])]]
    /\ table' = [table EXCEPT ![k] = p]
    /\ KeyDone(c)
    /\ UNCHANGED <<detached, file, calls, restarts>>

\* Another call may have started the key since it was checked; its process is
\* then taken as it is.  Proc bounds the processes: a start beyond it fails.
StartKey(c) ==
    LET k == call[c].key
        p == First(Unused)
    IN
    /\ call[c].pc = "start"
    /\ \/ /\ Running(table[k])
          /\ KeyDone(c)
          /\ UNCHANGED <<proc, table>>
       \/ /\ ~ Running(table[k]) /\ Unused # {}
          /\ proc' = [proc EXCEPT ![p] = [Free EXCEPT
                !.state = "booting", !.key = k, !.restartKey = RestartKey(call[c].cfg[k])]]
          /\ table' = [table EXCEPT ![k] = p]
          /\ KeyDone(c)
       \/ /\ ~ Running(table[k]) /\ ("start" \in Faults \/ Unused = {})
          /\ Finish(c, "err")
          /\ UNCHANGED <<proc, table>>
    /\ UNCHANGED <<detached, file, calls, restarts>>

Listening(port) ==
    {p \in Proc : /\ proc[p].state = "up" /\ ~ proc[p].signalled
                  /\ proc[p].loaded.port = port}

\* frpc reload -c: whatever listens on the admin port of the config file
\* reads the proxies of its own file again.
RunReload(c) ==
    LET targets == Listening(file[call[c].key].port)
        done(res) == call' = [call EXCEPT ![c] = [call[c] EXCEPT !.pc = "record", !.res = res]]
        taken == \E p \in targets :
                     proc' = [proc EXCEPT ![p].loaded =
                                  [proc[p].loaded EXCEPT !.proxies = file[proc[p].key].proxies]]
    IN
    /\ call[c].pc = "reload"
    /\ \/ taken /\ done("ok")
       \/ (targets = {} \/ "reload" \in Faults) /\ UNCHANGED proc /\ done("err")
       \/ "reload" \in Faults /\ taken /\ done("err")
    /\ UNCHANGED <<detached, table, file, calls, restarts, clean>>

\* The key may have another process by now, or none.
RecordReload(c) ==
    LET p == table[call[c].key] IN
    /\ call[c].pc = "record"
    /\ \/ /\ call[c].res = "err"
          /\ Finish(c, "err")
          /\ UNCHANGED proc
       \/ /\ call[c].res = "ok"
          /\ proc' = IF p = None THEN proc
                     ELSE [proc EXCEPT ![p].restartKey = RestartKey(call[c].cfg[call[c].key])]
          /\ KeyDone(c)
    /\ UNCHANGED <<detached, table, file, calls, restarts>>

-----------------------------------------------------------------------------
(* The machine.                                                             *)

\* A frpc process reads its config file and binds its admin port; it exits
\* when the port is taken.
Boot(p) ==
    LET config == file[proc[p].key]
        taken == \E q \in Proc \ {p} :
                     proc[q].state = "up" /\ proc[q].loaded.port = config.port
    IN
    /\ proc[p].state = "booting" /\ ~ proc[p].signalled
    /\ proc' = [proc EXCEPT ![p] = [proc[p] EXCEPT !.state = IF taken THEN "dead" ELSE "up",
                                             !.loaded = config]]
    /\ UNCHANGED <<detached, table, file, call, calls, restarts, clean>>

\* It was killed, or exits by itself.
Die(p) ==
    /\ Alive(p)
    /\ proc[p].signalled \/ "exit" \in Faults
    /\ proc' = [proc EXCEPT ![p].state = "dead"]
    /\ UNCHANGED <<detached, table, file, call, calls, restarts, clean>>

\* The goroutine of startKey; without one, where a dead pid does not exist.
Reap(p) ==
    /\ proc[p].state = "dead"
    /\ proc' = [proc EXCEPT ![p].state = "reaped"]
    /\ UNCHANGED <<detached, table, file, call, calls, restarts, clean>>

\* The backend ends, by a signal or a crash, and is started again: serve stops
\* no frpc.  Only direct commands detach theirs, and they are not restarted.
RestartBackend ==
    /\ "restart" \in Faults /\ ~ detached
    /\ restarts < MaxRestarts
    /\ restarts' = restarts + 1
    /\ table' = [k \in Key |-> None]
    /\ proc' = [p \in Proc |-> IF Alive(p) THEN [proc[p] EXCEPT !.orphan = TRUE] ELSE proc[p]]
    /\ call' = [c \in Caller |-> Idle("none")]
    /\ UNCHANGED <<detached, file, calls, clean>>

-----------------------------------------------------------------------------

CallStep(c) ==
    \/ Scan(c) \/ TakeProcess(c) \/ KillProcess(c) \/ WaitProcess(c)
    \/ CheckKey(c) \/ StartKey(c) \/ RunReload(c) \/ RecordReload(c)

Next ==
    \/ \E c \in Caller : Apply(c) \/ StopAll(c) \/ CallStep(c)
    \/ \E p \in Proc : Boot(p) \/ Die(p) \/ Reap(p)
    \/ RestartBackend

Spec == Init /\ [][Next]_vars

\* Every step of a call ends by itself: the reload command and the wait for a
\* killed process run under timeouts.  Nothing is assumed of the processes.
FairSpec == Spec /\ \A c \in Caller : WF_vars(CallStep(c))

-----------------------------------------------------------------------------
(* Properties.                                                              *)

\* Types of the table, the processes and the calls.
TypeOK ==
    /\ detached \in BOOLEAN
    /\ table \in [Key -> Opt(Proc)]
    /\ proc \in [Proc -> ProcRecord]
    /\ file \in [Key -> Opt(Config)]
    /\ call \in [Caller -> Calls]
    /\ calls \in 0..MaxCalls
    /\ restarts \in 0..MaxRestarts
    /\ clean \in BOOLEAN

Stopping(p) == \E c \in Caller : call[c].pc = "kill" /\ call[c].victim = p

\* However calls interleave, the manager loses no frpc: each one it started
\* and that lives is the one of its key in the table, or was killed, or is about
\* to be killed by the call that removed it.
NoStrayFrpc ==
    \A p \in Proc :
        Alive(p) /\ ~ proc[p].orphan =>
            table[proc[p].key] = p \/ proc[p].signalled \/ Stopping(p)

\* No call kills the frpc that another one started in the meantime: what is
\* killed or about to be is no longer in the table.
ManagedIsNotKilled ==
    \A k \in Key : table[k] # None =>
        ~ proc[table[k]].signalled /\ ~ Stopping(table[k])

\* The configs of one call have distinct admin ports, and the default node
\* has the configured one.
PortsSeparate ==
    \A c \in Caller :
        LET cfg == call[c].cfg IN
        /\ \A j, k \in Active(cfg) : cfg[j].port = cfg[k].port => j = k
        /\ Default \in Active(cfg) => cfg[Default].port = Base

Succeeds(c) == Active(call[c].cfg) # {} /\ call'[c].pc = "idle" /\ call'[c].res = "ok"

\* As long as every call so far succeeded, one after the other, an Apply that
\* succeeds leaves exactly its keys managed, under their restart keys, and each
\* frpc that is up runs its config.
SuccessIsServed ==
    [][\A c \in Caller : Succeeds(c) /\ clean =>
          \A k \in Key :
              LET cfg == call[c].cfg[k]
                  p == table'[k]
              IN  IF cfg = None THEN p = None \/ proc'[p].state = "reaped"
                  ELSE /\ p # None
                       /\ proc'[p].restartKey = RestartKey(cfg)
                       /\ proc'[p].state = "up" => proc'[p].loaded = cfg]_vars

\* "Additional active nodes receive deterministic separate admin ports so multiple
\* frpc processes can run at the same time": when every call so far succeeded, one
\* after the other, and none is under way, each managed frpc lives.
SeparateFrpcRun ==
    clean /\ (\A c \in Caller : call[c].pc = "idle") =>
        \A k \in Key : table[k] # None => Alive(table[k])

\* A bound on the steps a call has before it: five for each key to stop or to reload
\* after the current one, and those of the current key.
StepsOfKey(pc) ==
    CASE pc = "idle" -> 0
      [] pc \in {"start", "record"} -> 1
      [] pc \in {"wait", "reload"} -> 2
      [] pc = "kill" -> 3
      [] pc = "stop" -> 4
      [] pc = "check" -> 5
      [] pc = "scan" -> 10 * Cardinality(Key) + 5

StepsLeft(c) ==
    5 * Cardinality(call[c].stops) + 5 * Cardinality(call[c].todo \ {call[c].key})
      + StepsOfKey(call[c].pc)

\* Whatever other calls stop or start meanwhile, each step of a call brings its
\* return nearer: it comes back to no key it has dealt with.
StepsRunOut ==
    [][\A c \in Caller : call[c].pc # "idle" /\ call'[c] # call[c] =>
          StepsLeft(c)' < StepsLeft(c)]_vars

\* Every call of the manager returns, even when a killed frpc never dies.
CallsEnd == \A c \in Caller : call[c].pc # "idle" ~> call[c].pc = "idle"

=============================================================================
