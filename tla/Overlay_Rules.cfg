SPECIFICATION Spec
CONSTANTS
    r12 = r12
    r12b = r12b
    r21 = r21
    n1 = n1
    n2 = n2
    Handlers = {p1, p2, p3}
    IPs <- TwoIPs
    AutoName <- Auto
    SrcIP <- Src
    DstIP <- Dst
    Names = {n1, n2}
    JoinNames = {NoName}
    Keys = {k1}
    ValidKeys = {k1}
    RuleTexts = {r12, r12b, r21}
    MapKey <- NoKeyR12
    MapSize = 1
    MaxId = 2
    MaxJoins = 1
    MaxFaults = 1
    MaxRestarts = 1
    NoName = NoName
    NoKey = NoKey
    NoIP = NoIP
    NoPeer = NoPeer
    NoText = NoText
    NoMapKey = NoMapKey
SYMMETRY HandlerSymmetry
INVARIANTS
    TypeOK
    RulesEnforced
    RuleInv
PROPERTIES
    ImplementsLedger
CHECK_DEADLOCK FALSE
