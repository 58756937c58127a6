CONSTANTS
    r1 = r1
    r2 = r2
    probe = probe
    t1 = t1
    t2 = t2
    None = None
    c1 = c1
    c2 = c2
    Requests = {r1, r2, probe}
    PoolReads = {probe}
    Nested = {}
    TenantOf <- MCTenantOf
    Conns = {c1, c2}
    Misdecodes = {}
    SSL = FALSE
SPECIFICATION Spec
INVARIANT OnlyOwnCancel
