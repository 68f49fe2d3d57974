SPECIFICATION FairSpec
CONSTANTS
    MaxCalls = 2
    Asks <- AllAsks
    NoAsk = NoAsk
    Peers = {p1, p2}
    Codes = {c1, c2}
    Links = {c1, NoCode}
    Home = Home
    Verify = Verify
    NoPeer = NoPeer
    NoCode = NoCode
INVARIANTS
    TypeOK
    PageShowsItsPeer
    CodeShownIsDecided
    ViewInv
PROPERTIES
    SpinnersEnd
    ReloadsEnd
    LostSessionRedirects
CHECK_DEADLOCK FALSE
