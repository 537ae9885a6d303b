\* Two goroutines on two keys whose admin ports collide, every fault, and a restart
\* of the backend.  Calls and processes run out, so behaviours may stop.
SPECIFICATION Spec
CONSTANTS
    s1 = s1
    s2 = s2
    x1 = x1
    x2 = x2
    c1 = c1
    c2 = c2
    None = None
    Key = {1, 2}
    Default = 0
    Base = 1
    MinPort = 1
    MaxPort = 4
    Offset <- SamePort
    Section = {s1, s2}
    Proxies = {x1, x2}
    Content <- NoEdits
    Caller = {c1, c2}
    Proc = {1, 2, 3}
    Modes = {FALSE, TRUE}
    Faults = {"exit", "start", "reload", "timeout", "restart"}
    MaxCalls = 3
    MaxRestarts = 1
INVARIANT TypeOK
INVARIANT NoStrayFrpc
INVARIANT ManagedIsNotKilled
PROPERTY StepsRunOut
SYMMETRY Callers
CHECK_DEADLOCK FALSE
