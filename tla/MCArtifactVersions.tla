------------------------- MODULE MCArtifactVersions -------------------------
(* Instances of ArtifactVersions for TLC. *)
EXTENDS ArtifactVersions, TLC

\* The events some HTTP route fires (internal/server/handlers.go 695-705).
RoutedEvents == {"submit_for_review", "request_changes", "freeze"}

\* Requests, principals and payloads are interchangeable.
Symmetry == Permutations(Requests) \cup Permutations(Principals) \cup Permutations(Contents)

=============================================================================
