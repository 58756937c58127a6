---------------------------- MODULE MCAuditChain ----------------------------
(* Instances of AuditChain for TLC. *)
EXTENDS AuditChain

\* Symmetry of everything a run gives as a set of model values.
Symmetry == Permutations(Txs) \cup Permutations(Anchorers) \cup Permutations(Verifiers)
              \cup Permutations(Payloads)

=============================================================================
