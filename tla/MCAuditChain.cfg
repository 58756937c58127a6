SPECIFICATION Spec
CONSTANTS
    Txs = {t1, t2}
    Payloads = {p1, p2}
    Anchorers = {a1, a2}
    Verifiers = {v1}
    None = None
    MaxRecords = 3
    MaxAnchors = 2
    MayDetach = TRUE
    MayDamage = TRUE
SYMMETRY Symmetry
INVARIANTS
    ChainIntact
    AnchorsOnChain
    
    DamageNeverCovered
PROPERTIES
    ImplementsLog
CHECK_DEADLOCK FALSE
