CONSTANTS
    None = None
    Group = {g1}
    Device = {d1, d2}
    Node = {n1}
    Exposure = {e1, e2}
    Route = {x1}
    Room = {}
    Member = {}
    Port = {p1}
    Domain = {m1}
    NodeConfig <- OpenNodes
    Worker = {w1, w2}
    Faults = {"save", "crash"}
    MaxRequests = 8
SYMMETRY ExposureSymmetry
SPECIFICATION Spec
INVARIANTS TypeOK RegistryConsistent GrantsAreAllocated
PROPERTIES GoneForGood
\* A server nobody sends requests to stays idle.
CHECK_DEADLOCK FALSE
