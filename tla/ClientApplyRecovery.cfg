CONSTANTS
    a0 = a0  a1 = a1  r1 = r1  b1 = b1  x1 = x1
    Addr = {a0, a1}
    DefaultNode = n0
    None = None
    SeedNode <- OpenNode
    Node = {n0, n1}
    RuleId = {r1, r2}
    Binding = {b1, b2}
    WebBinding = {b2}
    RoomId = {}
    Bind = {p1}
    Exposure = {}
    Device = {x1}
    Worker = {w1}
    NodeConfig <- AllConfigs
    ServerModes = {}
    InitData <- JoinedData
    Faults = {"apply", "rewrite"}
    MaxRequests = 2
SPECIFICATION Spec
PROPERTIES AckedIsServed
\* A backend nobody sends requests to stays idle.
CHECK_DEADLOCK FALSE
