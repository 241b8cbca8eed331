\* One node, the second epoch comes while the first is between the transcript and
\* the DART: its inputs are checked against a DART that still has them.
CONSTANTS
    c1 = c1
    c2 = c2
    b1 = b1
    b2 = b2
    None = None
    all = all
    some = some
    Witnesses <- NoneMisses
    Node = {n1}
    Contract = {c1, c2}
    Bill = {b1, b2}
    Inputs <- PairInputs
    EarliestEpoch <- AtOnce
    ShutdownEpoch = {}
    MaxEpoch = 2
    MaxInFlight = 2
    ProductsInTime = TRUE
SPECIFICATION Spec
CHECK_DEADLOCK FALSE
INVARIANT NoDoubleSpend
