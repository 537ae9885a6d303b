--------------------------- MODULE MCProcessManager ---------------------------
(***************************************************************************)
(* Small instances of ProcessManager.  Default is key 0.                     *)
(***************************************************************************)
EXTENDS ProcessManager, TLC

CONSTANTS s1, s2, x1, x2, c1, c2

\* The hashes of the keys collide: on a free port, and on the last one.
SamePort == [k \in Key |-> 1]

LastPort == [k \in Key |-> MaxPort - Base]

\* The section of a node (its server), the proxies of its rules, and edits of both.
Edits == {[section |-> s1, proxies |-> x1], [section |-> s2, proxies |-> x1],
          [section |-> s1, proxies |-> x2]}

\* The restart key still changes, with the port, when other keys come and go.
NoEdits == {[section |-> s1, proxies |-> x1]}

Callers == Permutations(Caller)

=============================================================================
