----------------------------- MODULE StorePromise -----------------------------
(***************************************************************************)
(* What the other modules take a JSON store for: a file that holds the whole   *)
(* data of a program, that changes when and only when that program's update    *)
(* succeeds, and from which the next program starts.                         *)
(***************************************************************************)
CONSTANTS Program, Version, Initial, None

VARIABLES
    memory,   \* the data each running program has
    file,     \* the data in the file, None before the first save
    answer    \* what the last save of each program returned

Init ==
    /\ memory = [p \in Program |-> None]
    /\ file = None
    /\ answer = [p \in Program |-> "none"]

\* A program starts with the data of the file.
Load(p) ==
    /\ memory[p] = None
    /\ memory' = [memory EXCEPT ![p] = IF file = None THEN Initial ELSE file]
    /\ answer' = [answer EXCEPT ![p] = "none"]
    /\ UNCHANGED file

\* An update changes the data; whether they are saved is still open.
Change(p) ==
    /\ memory[p] # None
    /\ \E d \in Version : memory' = [memory EXCEPT ![p] = d]
    /\ answer' = [answer EXCEPT ![p] = "none"]
    /\ UNCHANGED file

Succeed(p) ==
    /\ memory[p] # None
    /\ file' = memory[p]
    /\ answer' = [answer EXCEPT ![p] = "ok"]
    /\ UNCHANGED memory

Fail(p) ==
    /\ answer' = [answer EXCEPT ![p] = "err"]
    /\ UNCHANGED <<memory, file>>

End(p) ==
    /\ memory' = [memory EXCEPT ![p] = None]
    /\ answer' \in {answer, [answer EXCEPT ![p] = "err"]}
    /\ UNCHANGED file

Next == \E p \in Program : Load(p) \/ Change(p) \/ Succeed(p) \/ Fail(p) \/ End(p)

Spec == Init /\ [][Next]_<<memory, file, answer>>
=============================================================================
