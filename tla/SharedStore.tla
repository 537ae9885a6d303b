------------------------------ MODULE SharedStore ------------------------------
(***************************************************************************)
(* One JSON store (internal/storage/json_file.go) and the programs that open   *)
(* it: the backend, and the direct commands (cmd/frp-panel/client_direct.go)   *)
(* whose --data defaults to the same client.json.  A program locks its own     *)
(* memory only; the file system is all they share.  Every save goes through    *)
(* path.tmp, which is opened, truncated, written and renamed over path.       *)
(*                                                                         *)
(* Files follow POSIX: an open file survives its name.  Power stays on.       *)
(***************************************************************************)
EXTENDS Naturals

CONSTANTS
    Program,     \* operating system processes
    Version,     \* the data a store may hold
    Initial,     \* what a program starts from without a file
    Defaulted,   \* the data with OpenService's settings in them
    Inode,       \* files
    Empty, Torn, \* contents of a file that are not data
    Faults,      \* what may go wrong: "write" (disk full, I/O error), "kill"
    MaxUpdates,  \* bound on the updates of a behaviour
    None

ASSUME StoreAssumption ==
    /\ Initial \in Version
    /\ Defaulted \in [Version -> Version]
    /\ None \notin Inode \union Version \union {Empty, Torn}
    /\ Empty # Torn /\ Empty \notin Version /\ Torn \notin Version
    /\ Faults \subseteq {"write", "kill"}
    /\ MaxUpdates \in Nat

VARIABLES
    data,     \* the data of each program, None while it is not running
    pc,       \* where each program is
    stage,    \* what its save is part of
    answer,   \* what its last save returned
    fd,       \* the temporary file it writes
    path,     \* the file called client.json
    tmp,      \* the file called client.json.tmp
    content,  \* of each file
    updates,  \* updates so far
    mixed,    \* programs saving at the same time as another
    dirty     \* saves have overlapped, and none alone has succeeded since

vars == <<data, pc, stage, answer, fd, path, tmp, content, updates, mixed, dirty>>

Opt(S) == S \union {None}

Init ==
    /\ data = [p \in Program |-> None]
    /\ pc = [p \in Program |-> "off"]
    /\ stage = [p \in Program |-> "run"]
    /\ answer = [p \in Program |-> "none"]
    /\ fd = [p \in Program |-> None]
    /\ path = None /\ tmp = None
    /\ content = [i \in Inode |-> Empty]
    /\ updates = 0
    /\ mixed = {} /\ dirty = FALSE

Saving == {p \in Program : pc[p] \in {"write", "rename"}}

-----------------------------------------------------------------------------
(* OpenJSONFile, and the update with which OpenService goes on.             *)

Begin(p, d, s) ==
    /\ data' = [data EXCEPT ![p] = d]
    /\ stage' = [stage EXCEPT ![p] = s]
    /\ answer' = [answer EXCEPT ![p] = "none"]

Files == <<fd, path, tmp, content, mixed, dirty>>

\* Without a file the initial data are saved.
OpenNew(p) ==
    /\ pc[p] = "off" /\ path = None
    /\ Begin(p, Initial, "initial")
    /\ pc' = [pc EXCEPT ![p] = "create"]
    /\ UNCHANGED <<Files, updates>>

\* A file of no bytes is not looked at.
OpenExisting(p) ==
    /\ pc[p] = "off" /\ path # None
    /\ content[path] # Torn
    /\ Begin(p, IF content[path] = Empty THEN Initial ELSE content[path], "defaults")
    /\ pc' = [pc EXCEPT ![p] = "loaded"]
    /\ UNCHANGED <<Files, updates>>

\* What does not parse is an error, and the program ends.
OpenTorn(p) ==
    /\ pc[p] = "off" /\ path # None
    /\ content[path] = Torn
    /\ answer' = [answer EXCEPT ![p] = "err"]
    /\ UNCHANGED <<data, pc, stage, Files, updates>>

SetDefaults(p) ==
    /\ pc[p] = "loaded"
    /\ Begin(p, Defaulted[data[p]], "defaults")
    /\ pc' = [pc EXCEPT ![p] = "create"]
    /\ UNCHANGED <<Files, updates>>

\* Update: the data change first, whatever becomes of the save.
Update(p) ==
    /\ pc[p] = "idle"
    /\ updates < MaxUpdates /\ updates' = updates + 1
    /\ \E d \in Version \ {data[p]} : Begin(p, d, "run")
    /\ pc' = [pc EXCEPT ![p] = "create"]
    /\ UNCHANGED Files

-----------------------------------------------------------------------------
(* saveLocked.                                                              *)

\* Mutant of Fails: a program whose store did not open goes on.
FailsAndStays(p) ==
    /\ answer' = [answer EXCEPT ![p] = "err"]
    /\ fd' = [fd EXCEPT ![p] = None]
    /\ mixed' = mixed \ {p}
    /\ pc' = [pc EXCEPT ![p] = "idle"]
    /\ data' = [data EXCEPT ![p] = IF stage[p] = "run" THEN data[p] ELSE None]
    /\ UNCHANGED <<stage, updates>>

\* An error of the first saves ends the program.
Fails(p) ==
    /\ answer' = [answer EXCEPT ![p] = "err"]
    /\ fd' = [fd EXCEPT ![p] = None]
    /\ mixed' = mixed \ {p}
    /\ IF stage[p] = "run"
       THEN pc' = [pc EXCEPT ![p] = "idle"] /\ UNCHANGED data
       ELSE pc' = [pc EXCEPT ![p] = "off"] /\ data' = [data EXCEPT ![p] = None]
    /\ UNCHANGED <<stage, updates>>

Overlap(p) ==
    /\ mixed' = IF Saving = {} THEN mixed ELSE mixed \union Saving \union {p}
    /\ dirty' = (dirty \/ Saving # {})

Unused(i) == i \notin {path, tmp} /\ \A p \in Program : fd[p] # i

\* Mutant of Create: the store is written in place.
CreateInPlace(p) ==
    /\ pc[p] = "create"
    /\ \E i \in Inode :
           /\ IF path = None THEN Unused(i) ELSE i = path
           /\ tmp' = i
           /\ fd' = [fd EXCEPT ![p] = i]
           /\ content' = [content EXCEPT ![i] = Empty]
    /\ pc' = [pc EXCEPT ![p] = "write"]
    /\ Overlap(p)
    /\ UNCHANGED <<data, stage, answer, path, updates>>

\* os.WriteFile opens path.tmp, whoever made it, and truncates it.
Create(p) ==
    /\ pc[p] = "create"
    /\ \E i \in Inode :
           /\ IF tmp = None THEN Unused(i) ELSE i = tmp
           /\ tmp' = i
           /\ fd' = [fd EXCEPT ![p] = i]
           /\ content' = [content EXCEPT ![i] = Empty]
    /\ pc' = [pc EXCEPT ![p] = "write"]
    /\ Overlap(p)
    /\ UNCHANGED <<data, stage, answer, path, updates>>

CreateFails(p) ==
    /\ pc[p] = "create" /\ "write" \in Faults
    /\ Fails(p)
    /\ UNCHANGED <<path, tmp, content, dirty>>

\* Written from the start of a file another program has written meanwhile: the
\* end of a longer one stays.
Written(new, old) == IF old = Empty THEN {new} ELSE {new, Torn}

Write(p) ==
    /\ pc[p] = "write"
    /\ \E c \in Written(data[p], content[fd[p]]) : content' = [content EXCEPT ![fd[p]] = c]
    /\ fd' = [fd EXCEPT ![p] = None]
    /\ pc' = [pc EXCEPT ![p] = "rename"]
    /\ UNCHANGED <<data, stage, answer, path, tmp, updates, mixed, dirty>>

WriteFails(p) ==
    /\ pc[p] = "write" /\ "write" \in Faults
    /\ content' = [content EXCEPT ![fd[p]] = Torn]
    /\ Fails(p)
    /\ UNCHANGED <<path, tmp, dirty>>

Succeeds(p) ==
    /\ answer' = [answer EXCEPT ![p] = "ok"]
    /\ pc' = [pc EXCEPT ![p] = IF stage[p] = "initial" THEN "loaded" ELSE "idle"]
    /\ mixed' = mixed \ {p}
    /\ dirty' = (dirty /\ p \in mixed)
    /\ UNCHANGED <<data, stage, fd, updates>>

Rename(p) ==
    /\ pc[p] = "rename"
    /\ tmp # None
    /\ path' = tmp /\ tmp' = None
    /\ Succeeds(p)
    /\ UNCHANGED content

\* Mutant of RenameFails: the error of the rename is not returned.
RenameFailsUnnoticed(p) ==
    /\ pc[p] = "rename"
    /\ tmp = None \/ "write" \in Faults
    /\ Succeeds(p)
    /\ UNCHANGED <<path, tmp, content>>

\* Another program may have renamed the temporary file away.
RenameFails(p) ==
    /\ pc[p] = "rename"
    /\ tmp = None \/ "write" \in Faults
    /\ Fails(p)
    /\ UNCHANGED <<path, tmp, content, dirty>>

-----------------------------------------------------------------------------

\* A command ends when it is done; any program may be killed anywhere.
Exit(p) ==
    /\ pc[p] # "off"
    /\ pc[p] = "idle" \/ "kill" \in Faults
    /\ data' = [data EXCEPT ![p] = None]
    /\ pc' = [pc EXCEPT ![p] = "off"]
    /\ fd' = [fd EXCEPT ![p] = None]
    /\ mixed' = mixed \ {p}
    /\ UNCHANGED <<stage, answer, path, tmp, content, updates, dirty>>

Step(p) ==
    \/ OpenNew(p) \/ OpenExisting(p) \/ OpenTorn(p) \/ SetDefaults(p) \/ Update(p)
    \/ Create(p) \/ CreateFails(p) \/ Write(p) \/ WriteFails(p)
    \/ Rename(p) \/ RenameFails(p) \/ Exit(p)

Next == \E p \in Program : Step(p)

Spec == Init /\ [][Next]_vars

-----------------------------------------------------------------------------
(* Properties.                                                              *)

\* Types, and that a program has data exactly while it runs.
TypeOK ==
    /\ data \in [Program -> Opt(Version)]
    /\ pc \in [Program -> {"off", "loaded", "idle", "create", "write", "rename"}]
    /\ stage \in [Program -> {"initial", "defaults", "run"}]
    /\ answer \in [Program -> {"none", "ok", "err"}]
    /\ fd \in [Program -> Opt(Inode)]
    /\ path \in Opt(Inode) /\ tmp \in Opt(Inode)
    /\ content \in [Inode -> Version \union {Empty, Torn}]
    /\ updates \in 0..MaxUpdates
    /\ mixed \subseteq Program
    /\ dirty \in BOOLEAN
    /\ \A p \in Program : data[p] = None <=> pc[p] = "off"

\* The store opens, with all of some program's data: no save that is cut short by
\* an error or a kill, or that finds the leftover of such a one, leaves an empty or
\* half-written file, until the saves of two programs overlap; and the next save
\* alone repairs what those did.
StoreOpens == dirty \/ path = None \/ content[path] \in Version

Stored == IF path = None THEN None ELSE content[path]

Promise == INSTANCE StorePromise WITH memory <- data, file <- Stored

\* The store is the atomic file the other modules take it for, answers included,
\* for any number of programs at once, except while overlapping saves are not yet
\* repaired.
FileIsAtomic ==
    Promise!Init /\ [][dirty \/ dirty' \/ Promise!Next]_<<data, Stored, answer>>

=============================================================================
