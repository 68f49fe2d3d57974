SPECIFICATION FairSpec
CONSTANTS
    Clients = {c1}
    Admins = {a1, a2}
    Codes = {d1}
    Tokens = {t1}
    JoinReqs = {j1, j2}
    NoCode = NoCode
    NoToken = NoToken
    NoClient = NoClient
    Nobody = Nobody
    Expiry = 2
    Interval = 1
    MaxTime = 3
    MaxRestarts = 1
INVARIANTS
    TypeOK
    HandedTokenStays
    OneAdmissionPerCode
    ApprovedReplyTruthful
    AdmissionIsEarned
PROPERTIES
    ImplementsGrant
    RowsAreCleaned
    ClientsTerminate
CHECK_DEADLOCK FALSE
