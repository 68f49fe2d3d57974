SPECIFICATION Spec
CONSTANTS
    r12 = r12
    r12b = r12b
    r21 = r21
    n1 = n1
    n2 = n2
    Handlers = {p1, p2, p3}
    IPs <- TwoIPs
    AutoName <- Auto
    SrcIP <- Src
    DstIP <- Dst
    Names = {n1, n2}
    JoinNames = {n2, NoName}
    Keys = {k1, k2, k3}
    ValidKeys = {k1, k2}
    RuleTexts = {}
    MapKey <- OwnKey
    MapSize = 1
    MaxId = 0
    MaxJoins = 3
    MaxFaults = 1
    MaxRestarts = 1
    NoName = NoName
    NoKey = NoKey
    NoIP = NoIP
    NoPeer = NoPeer
    NoText = NoText
    NoMapKey = NoMapKey
SYMMETRY Symmetry
INVARIANTS
    PeersRouted
    PeerInv
    JoinedStays
PROPERTY DeletesWhatItLookedUp
CHECK_DEADLOCK FALSE
