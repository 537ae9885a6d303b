\* One goroutine and nothing that goes wrong: two keys that want the same port.
\* Calls and processes run out, so behaviours may stop.
SPECIFICATION Spec
CONSTANTS
    s1 = s1
    s2 = s2
    x1 = x1
    x2 = x2
    c1 = c1
    c2 = c2
    None = None
    Key = {1, 2}
    Default = 0
    Base = 1
    MinPort = 1
    MaxPort = 4
    Offset <- SamePort
    Section = {s1, s2}
    Proxies = {x1, x2}
    Content <- NoEdits
    Caller = {c1}
    Proc = {1, 2, 3}
    Modes = {FALSE}
    Faults = {}
    MaxCalls = 2
    MaxRestarts = 0
INVARIANT SeparateFrpcRun
CHECK_DEADLOCK FALSE
