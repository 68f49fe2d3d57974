SPECIFICATION Spec
CONSTANTS
    r12 = r12
    r12b = r12b
    r21 = r21
    n1 = n1
    n2 = n2
    Handlers = {p1}
    IPs <- TwoIPs
    AutoName <- Auto
    SrcIP <- Src
    DstIP <- Dst
    Names = {n1, n2}
    JoinNames = {NoName}
    Keys = {k1}
    ValidKeys = {k1}
    RuleTexts = {r21}
    MapKey <- OwnKey
    MapSize = 1
    MaxId = 1
    MaxJoins = 1
    MaxFaults = 0
    MaxRestarts = 0
    NoName = NoName
    NoKey = NoKey
    NoIP = NoIP
    NoPeer = NoPeer
    NoText = NoText
    NoMapKey = NoMapKey
PROPERTY DeletedPeerLeavesNoRules
CHECK_DEADLOCK FALSE
