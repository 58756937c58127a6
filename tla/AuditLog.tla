------------------------------- MODULE AuditLog -------------------------------
(***************************************************************************)
(* What the audit trail of a tenant promises: a log to which every         *)
(* committed operation appends exactly one entry, and which nothing else   *)
(* changes.                                                                *)
(***************************************************************************)
EXTENDS Sequences

CONSTANT Payloads   \* what an entry says

VARIABLE log        \* the entries, in the order of their sequence numbers

Init == log = <<>>

Next == \E p \in Payloads : log' = Append(log, p)

Spec == Init /\ [][Next]_log

=============================================================================
