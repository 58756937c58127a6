----------------------------- MODULE MCObjectStore -----------------------------
(* Evidence that two processes may write, an anchor and a document that is rewritten. *)
EXTENDS ObjectStore

CONSTANTS api, worker, evd, anchor, doc, e, a1, a2

Put(p, k, b, lock, retain) == [proc |-> p, key |-> k, body |-> b, lock |-> lock, retain |-> retain]

MCPuts ==
    {Put(api, evd, e, TRUE, 2), Put(worker, evd, e, TRUE, 1),
     Put(worker, anchor, a1, TRUE, 2), Put(worker, anchor, a2, TRUE, 1),
     Put(worker, anchor, a2, FALSE, 0), Put(api, doc, a1, FALSE, 0), Put(api, doc, a2, FALSE, 0)}

MCDeletes == {<<worker, anchor>>, <<api, doc>>}
===============================================================================
