CONSTANTS
    None = None
    Group = {}
    Device = {}
    Node = {}
    Exposure = {}
    Route = {}
    Room = {r1, r2}
    Member = {m1, m2, m3}
    Port = {}
    Domain = {}
    NodeConfig = {}
    Worker = {w1, w2}
    Faults = {"save", "crash"}
    MaxRequests = 6
SPECIFICATION Spec
INVARIANTS RegistryConsistent
PROPERTIES AckedIsDurable GoneForGood AcceptedIsHostOfEnabledRoom OnlyHostManages
\* A server nobody sends requests to stays idle.
CHECK_DEADLOCK FALSE
