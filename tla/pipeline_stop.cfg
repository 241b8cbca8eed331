\* One node that is shut down at epoch 1.
CONSTANTS
    c1 = c1
    c2 = c2
    b1 = b1
    b2 = b2
    None = None
    all = all
    some = some
    Witnesses <- NoneMisses
    Node = {n1}
    Contract = {}
    Bill = {b1, b2}
    Inputs <- NoInputs
    EarliestEpoch <- AtOnce
    ShutdownEpoch = {1}
    MaxEpoch = 3
    MaxInFlight = 1
    ProductsInTime = TRUE
SPECIFICATION Spec
CHECK_DEADLOCK FALSE
INVARIANT StopsAtShutdownEpoch
