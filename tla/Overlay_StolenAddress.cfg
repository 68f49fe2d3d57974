SPECIFICATION Spec
CONSTANTS
    r12 = r12
    r12b = r12b
    r21 = r21
    n1 = n1
    n2 = n2
    Handlers = {p1, p2}
    IPs <- OneIP
    AutoName <- AutoOne
    SrcIP <- SrcOne
    DstIP <- SrcOne
    Names = {n1, n2}
    JoinNames = {n1, n2}
    Keys = {k1, k2}
    ValidKeys = {k1, k2}
    RuleTexts = {}
    MapKey <- OwnKey
    MapSize = 1
    MaxId = 0
    MaxJoins = 2
    MaxFaults = 0
    MaxRestarts = 0
    NoName = NoName
    NoKey = NoKey
    NoIP = NoIP
    NoPeer = NoPeer
    NoText = NoText
    NoMapKey = NoMapKey
INVARIANT JoinedIsRouted
CHECK_DEADLOCK FALSE
