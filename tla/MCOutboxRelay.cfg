SPECIFICATION Spec
CONSTANTS
    e1 = e1
    e2 = e2
    e3 = e3
    t1 = t1
    t2 = t2
    Txs = {t1, t2}
    Events = {e1, e2, e3}
    TxOf <- MCTxOf
    Relays = {q1, q2}
    LogRelays = {q1, q2}
    Subscribed = {q1, q2}
    Poison = {e2, e3}
    BypassRLS = TRUE
    BatchSize = 2
    MaxAttempts = 2
    MaxFaults = 1
    MaxRetried = 2
INVARIANTS
    FactsLoggedFirst
    DuplicatesOnlyAfterRollback
    PublishedWasConsumed
PROPERTIES
    EventuallyPublished
CHECK_DEADLOCK FALSE
