---------------------------- MODULE MCTraceLinks ----------------------------
(* Instances of TraceLinks for TLC. *)
EXTENDS TraceLinks, TLC

CONSTANTS c1, c2, v1, v2

Link(from, to, type, origin, exact, machine) ==
    [from |-> from, to |-> to, type |-> type, origin |-> origin, exact |-> exact, machine |-> machine]

\* A chain of three edges, longer than a bound of two, an edge that closes a
\* cycle, one that joins two versions of 1, the first edge proposed again, and
\* the last in the name of a person by a machine.
MCLinkInputs ==
    { Link(<<2, 1>>, <<1, 1>>, "SATISFIES", "HUMAN", TRUE, FALSE),
      Link(<<3, 1>>, <<2, 1>>, "IMPLEMENTS", "LLM_PROPOSED", TRUE, TRUE),
      Link(<<4, 1>>, <<3, 1>>, "DEPENDS_ON", "ANALYZER", TRUE, TRUE),
      Link(<<2, 1>>, <<3, 1>>, "CONFLICTS_WITH", "ANALYZER", FALSE, TRUE),
      Link(<<1, 2>>, <<1, 1>>, "SUPERSEDES", "HUMAN", TRUE, FALSE),
      Link(<<2, 1>>, <<1, 1>>, "SATISFIES", "LLM_PROPOSED", TRUE, TRUE),
      Link(<<4, 1>>, <<3, 1>>, "DEPENDS_ON", "HUMAN", TRUE, TRUE) }

Symmetry == Permutations(Creators) \cup Permutations(Reviewers)

=============================================================================
