SPECIFICATION Spec
CONSTANTS
    Clients = {c1}
    Admins = {a1, a2}
    Codes = {d1}
    Tokens = {t1}
    JoinReqs = {j1}
    NoCode = NoCode
    NoToken = NoToken
    NoClient = NoClient
    Nobody = Nobody
    Expiry = 2
    Interval = 1
    MaxTime = 3
    MaxRestarts = 0
INVARIANT DeniedMeansDenied
CHECK_DEADLOCK FALSE
