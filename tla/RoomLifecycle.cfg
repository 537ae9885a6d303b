CONSTANTS
    None = None
    Group = {}
    Device = {}
    Node = {}
    Exposure = {}
    Route = {}
    Room = {r1, r2}
    Member = {m1, m2, m3}
    Port = {}
    Domain = {}
    NodeConfig = {}
    Worker = {w1, w2}
    Faults = {"save", "crash"}
    MaxRequests = 5
    Machine = {host, guest}
    ClientFaults = {"lost", "refused", "save", "crash"}
    MaxJobs = 3
SYMMETRY LifecycleSymmetry
SPECIFICATION LifecycleSpec
INVARIANTS LifecycleTypeOK AckedRuleIsRegistered NoRoomIsLeftBehind
\* Bounded requests: a behaviour ends when they are used up.
CHECK_DEADLOCK FALSE
