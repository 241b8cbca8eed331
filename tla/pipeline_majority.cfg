\* Four nodes, epochs without contracts: three signatures are a majority.
CONSTANTS
    c1 = c1
    c2 = c2
    b1 = b1
    b2 = b2
    None = None
    all = all
    some = some
    Witnesses <- OneMisses
    Node = {n1, n2, n3, n4}
    Contract = {}
    Bill = {b1, b2}
    Inputs <- NoInputs
    EarliestEpoch <- AtOnce
    ShutdownEpoch = {}
    MaxEpoch = 2
    MaxInFlight = 1
    ProductsInTime = TRUE
SPECIFICATION Spec
CHECK_DEADLOCK FALSE
SYMMETRY Symmetry
INVARIANT MajorityFinishes
