SPECIFICATION Spec
CONSTANTS
    e1 = e1
    e2 = e2
    e3 = e3
    t1 = t1
    t2 = t2
    Txs = {t1, t2}
    Events = {e1, e3}
    TxOf <- MCTxOfTwo
    Relays = {q1}
    LogRelays = {q1}
    Subscribed = {q1}
    Poison = {}
    BypassRLS = FALSE
    BatchSize = 1
    MaxAttempts = 2
    MaxFaults = 0
    MaxRetried = 2
PROPERTIES
    EventuallyPublished
CHECK_DEADLOCK FALSE
