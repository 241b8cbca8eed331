\* Two nodes, the timing that the design assumes: products come before the epoch
\* of their contract, and an epoch is stored before the next one comes.
CONSTANTS
    c1 = c1
    c2 = c2
    b1 = b1
    b2 = b2
    None = None
    all = all
    some = some
    Witnesses <- SameOrOwn
    Node = {n1, n2}
    Contract = {c1, c2}
    Bill = {b1, b2}
    Inputs <- PairInputs
    EarliestEpoch <- C2Later
    ShutdownEpoch = {}
    MaxEpoch = 3
    MaxInFlight = 1
    ProductsInTime = TRUE
SPECIFICATION Spec
CHECK_DEADLOCK FALSE
SYMMETRY Symmetry
INVARIANTS
    InStepInvariant
    SpendingInvariant
    NoDoubleSpend
    SameRecorders
    GlobalsCountBills
    ChainInDART
