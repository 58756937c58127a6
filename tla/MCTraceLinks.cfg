SPECIFICATION Spec
CONSTANTS
    c1 = c1
    c2 = c2
    v1 = v1
    v2 = v2
    None = None
    Ids = {1, 2, 3, 4}
    FirstIds = {1, 2, 3}
    NamedIds = {2}
    Creators = {c1, c2}
    Revised = {1}
    LinkInputs <- MCLinkInputs
    Reviewers = {v1, v2}
    Depths = {2, 3}
SYMMETRY Symmetry
INVARIANTS
    IdentifiersUnique
    RejectedIsFinal
    WalkAnswersExactly
    ApprovedImpactSeen
CHECK_DEADLOCK FALSE
