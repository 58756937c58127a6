CONSTANTS
    api = api
    worker = worker
    evd = evd
    anchor = anchor
    doc = doc
    e = e
    a1 = a1
    a2 = a2
    None = None
    Keys = {evd, anchor, doc}
    Bodies = {e, a1, a2}
    Procs = {api, worker}
    Puts <- MCPuts
    Deletes <- MCDeletes
    MaxClock = 4
SPECIFICATION StoreSpec
INVARIANTS
    EvidenceKept
    
PROPERTIES
    ImplementsWriteOnce
CHECK_DEADLOCK FALSE
