SPECIFICATION KeySpec
CONSTANTS
    r1 = r1
    r2 = r2
    r3 = r3
    r4 = r4
    r5 = r5
    b1 = b1
    b2 = b2
    Nil = Nil
    Requests = {r1, r2, r3, r4, r5}
    Bodies = {b1, b2}
    BodyOf <- MCBodyOf
    Large = {b2}
    BypassRLS = TRUE
    MaxFaults = 2
    MaxExpiries = 1
INVARIANTS
    EffectOnce
    ReplayFaithful
    ClaimHeld
PROPERTIES
    CompletedStays
CHECK_DEADLOCK FALSE
