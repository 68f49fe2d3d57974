SPECIFICATION Spec
CONSTANTS
    Clients = {c1, c2}
    Admins = {a1}
    Codes = {d1, d2}
    Tokens = {t1, t2}
    JoinReqs = {j1, j2}
    NoCode = NoCode
    NoToken = NoToken
    NoClient = NoClient
    Nobody = Nobody
    Expiry = 2
    Interval = 1
    MaxTime = 2
    MaxRestarts = 1
SYMMETRY Symmetry
INVARIANTS
    IndInv
    DeadlineCoversLifetime
CHECK_DEADLOCK FALSE
