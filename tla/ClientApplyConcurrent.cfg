CONSTANTS
    a0 = a0  a1 = a1  r1 = r1  b1 = b1  x1 = x1
    Addr = {a0, a1}
    DefaultNode = n0
    None = None
    SeedNode <- OpenNode
    Node = {n0, n1}
    RuleId = {r1, r2}
    Binding = {b1}
    WebBinding = {}
    RoomId = {}
    Bind = {p1}
    Exposure = {}
    Device = {}
    Worker = {w1, w2}
    NodeConfig <- TwoConfigs
    ServerModes = {}
    InitData <- OneRuleData
    Faults = {"exit", "apply", "crash"}
    MaxRequests = 3
SPECIFICATION Spec
INVARIANTS TypeOK StoreConsistent
SYMMETRY WorkerSymmetry
\* A backend nobody sends requests to stays idle.
CHECK_DEADLOCK FALSE
