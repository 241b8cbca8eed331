\* Three events of two nodes, with later reports, removals and restarts.
CONSTANTS
    n1 = n1
    n2 = n2
    None = None
    Grounded = Grounded
    Chain = {n1, n2}
    MaxEvents = 3
    MaxExtra = 2
    Witness = {1, 3}
    Later <- LaterReports
SYMMETRY NodeSymmetry
SPECIFICATION Spec
INVARIANTS
    ViewTypeOK
    ViewInvariant
    SelectionIsAncestry
    ThrowsOnlyDisturbed
    DrawnAsReported
    OnePlaceEach
