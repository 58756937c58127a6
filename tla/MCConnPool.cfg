CONSTANTS
    r1 = r1
    r2 = r2
    probe = probe
    t1 = t1
    t2 = t2
    None = None
    c1 = c1
    c2 = c2
    Requests = {r1, r2, probe}
    PoolReads = {probe}
    Nested = {r1, r2}
    TenantOf <- MCTenantOf
    Conns = {c1, c2}
    Misdecodes = {r1}
    SSL = TRUE
SPECIFICATION Spec
INVARIANTS
    SlotsAccounted
    SessionIsOwn
    ToldCommitted
PROPERTIES
    EveryRequestEnds
