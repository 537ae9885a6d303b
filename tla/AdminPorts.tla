------------------------------ MODULE AdminPorts ------------------------------
(***************************************************************************)
(* The admin port of each active frpc (assignAdminPorts in                   *)
(* internal/client/service.go).  Nothing is stored: every rendering assigns  *)
(* the ports of all active keys anew, in the order of their ids.             *)
(***************************************************************************)
EXTENDS Naturals

CONSTANTS
    Key,      \* process keys, numbered in the order of their ids
    Default,  \* the number of DefaultNodeID
    Base,     \* data.Frpc.AdminPort
    MinPort,  \* where a candidate past the last port starts again
    MaxPort,  \* the last port
    Offset,   \* stableSmallHash of each key, reduced to the span
    None

ASSUME PortAssumption ==
    /\ Key \subseteq Nat
    /\ MaxPort \in Nat /\ Base \in 1 .. MaxPort /\ MinPort \in 1 .. MaxPort
    /\ Offset \in [Key -> Nat \ {0}]
    /\ None \notin Nat

CandidateAdminPort(k) ==
    LET port == Base + Offset[k]
        wrapped == MinPort + ((port - MinPort) % (MaxPort + 1 - MinPort))
    IN  IF port <= MaxPort THEN port
        ELSE IF wrapped = Base THEN wrapped + 1 ELSE wrapped

\* The default key comes first whatever its id.
RenderedBefore(j, k) == j # k /\ (j = Default \/ (k # Default /\ j < k))

First(S) == CHOOSE k \in S : \A j \in S : k <= j

\* The loop of one key: port after port up to the last one, then again from
\* Base + 1 on.  Meeting Base gives up.  When every port from Base + 1 on is taken
\* it never ends: this is None here, too, as nothing is rendered.
FirstFree(candidate, used) ==
    LET last == IF candidate < Base THEN Base - 1 ELSE MaxPort
        upwards == (candidate .. last) \ used
        again == (Base + 1 .. candidate - 1) \ used
    IN  IF upwards # {} THEN First(upwards)
        ELSE IF again # {} THEN First(again) ELSE None

\* Mutant of AssignAdminPorts: ports taken by other keys are not looked at.
AssignUnprobed(active) ==
    [k \in active |-> IF k = Default THEN Base ELSE CandidateAdminPort(k)]

AssignAdminPorts(active) ==
    LET port[k \in active] ==
            FirstFree(IF k = Default THEN Base ELSE CandidateAdminPort(k),
                      {port[j] : j \in {i \in active : RenderedBefore(i, k)}})
    IN  port

=============================================================================
