------------------------------- MODULE WriteOnce -------------------------------
(* What the object store promises of evidence: what is under retention stays as it is, *)
(* until the retention ends.  (internal/platform/objstore/objstore.go, Store.)          *)
CONSTANTS Keys, Bodies, None

VARIABLE evidence   \* what is under retention at each key

Init == evidence = [k \in Keys |-> None]

\* A key comes under retention, or its retention ends.  Nothing replaces evidence.
Next == /\ evidence' \in [Keys -> Bodies \cup {None}]
        /\ \A k \in Keys : evidence[k] # None => evidence'[k] \in {evidence[k], None}

Spec == Init /\ [][Next]_evidence
===============================================================================
