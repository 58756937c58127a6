SPECIFICATION Spec
CONSTANTS
    Requests = {r1, r2}
    Principals = {p1, p2}
    Contents = {c1, c2}
    None = None
    MaxVersion = 2
    MaxEdits = 2
    FourEyes = TRUE
    Events <- RoutedEvents
SYMMETRY Symmetry
INVARIANTS
    TypeOK
    VersionNoIdentifiesRow
    OneApproved
    GaplessChain
    EvidenceBacked
PROPERTIES
    ReviewedContentFixed
    StatusFollowsMachine
CHECK_DEADLOCK FALSE
