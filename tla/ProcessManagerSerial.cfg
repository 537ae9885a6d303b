\* One goroutine, edits of the sections and of the proxies, ports that wrap.
\* Calls and processes run out, so behaviours may stop.
SPECIFICATION FairSpec
CONSTANTS
    s1 = s1
    s2 = s2
    x1 = x1
    x2 = x2
    c1 = c1
    c2 = c2
    None = None
    Key = {0, 1, 2}
    Default = 0
    Base = 1
    MinPort = 1
    MaxPort = 4
    Offset <- LastPort
    Section = {s1, s2}
    Proxies = {x1, x2}
    Content <- Edits
    Caller = {c1}
    Proc = {1, 2, 3}
    Modes = {FALSE}
    Faults = {"timeout"}
    MaxCalls = 2
    MaxRestarts = 0
INVARIANT PortsSeparate
PROPERTY SuccessIsServed
PROPERTY CallsEnd
CHECK_DEADLOCK FALSE
