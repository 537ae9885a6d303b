CONSTANTS
    None = None
    Empty = Empty
    Torn = Torn
    Program = {backend, command}
    Version <- Versions
    Initial = "initial"
    Defaulted <- WithDefaults
    Inode = {i1, i2, i3, i4}
    Faults = {"write", "kill"}
    MaxUpdates = 3
SYMMETRY StoreSymmetry
SPECIFICATION Spec
INVARIANTS TypeOK StoreOpens
PROPERTIES FileIsAtomic
\* Bounded updates, and a file that does not parse stops every program.
CHECK_DEADLOCK FALSE
