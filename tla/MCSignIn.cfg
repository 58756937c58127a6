CONSTANTS
    a = a
    b = b
    e1 = e1
    e2 = e2
    None = None
    Logins = {a, b}
    Exchanges = {e1, e2}
    Kids = {1, 2}
    CodeTTL = 1
    GcTTL = 2
    TokenTTL = 2
    ClockSkew = 1
    TTL = 1
    MinRefresh = 1
    FetchTime = 1
    MaxClock = 4
SPECIFICATION Spec
SYMMETRY Symmetry
INVARIANTS
    OneGrantPerCode
    AcceptedWhileValid
    WithdrawnKeyEnds
CHECK_DEADLOCK FALSE
