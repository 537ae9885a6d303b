CONSTANTS
    a0 = a0  a1 = a1  r1 = r1  b1 = b1  x1 = x1
    Addr = {a0, a1}
    DefaultNode = n0
    None = None
    SeedNode <- OpenNode
    Node = {n0, n1}
    RuleId = {r1, r2}
    Binding = {b1}
    WebBinding = {}
    RoomId = {m1}
    Bind = {p1}
    Exposure = {e1}
    Device = {x1, x2}
    Worker = {w1}
    NodeConfig <- MovingConfigs
    ServerModes = {"frps"}
    InitData <- JoinedData
    Faults = {"verify", "write", "save", "apply", "undo", "ports"}
    MaxRequests = 3
SPECIFICATION FairSpec
PROPERTIES AckedIsServed AckedIsDurable RequestsEnd StepsRunOut
\* A backend nobody sends requests to stays idle.
CHECK_DEADLOCK FALSE
