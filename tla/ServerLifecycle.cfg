SPECIFICATION Spec
CONSTANTS
    PrivateKeys = {k1, k2}
    NoPrivateKey = NoPrivateKey
    Empty = Empty
    MaxProcesses = 3
INVARIANTS
    TypeOK
    ServedIsFiltered
    KeyIsStable
    CleanExit
PROPERTY SignalEnds
CHECK_DEADLOCK FALSE
