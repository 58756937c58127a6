--------------------------- MODULE MCOutboxRelay ---------------------------
(* Instances of OutboxRelay for TLC. *)
EXTENDS OutboxRelay, TLC

CONSTANTS e1, e2, e3, t1, t2

\* t1 appends two events (as an approval that supersedes does), t2 one.
MCTxOf == (e1 :> t1) @@ (e2 :> t1) @@ (e3 :> t2)

\* One event per transaction.
MCTxOfTwo == (e1 :> t1) @@ (e3 :> t2)

=============================================================================
