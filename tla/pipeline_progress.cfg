\* Two nodes in step, one contract: what is signed by all is finished.
CONSTANTS
    c1 = c1
    c2 = c2
    b1 = b1
    b2 = b2
    None = None
    all = all
    some = some
    Witnesses <- SameOrOwn
    Node = {n1, n2}
    Contract = {c1}
    Bill = {b1}
    Inputs <- OneInput
    EarliestEpoch <- AtOnce
    ShutdownEpoch = {}
    MaxEpoch = 3
    MaxInFlight = 1
    ProductsInTime = TRUE
SPECIFICATION FairSpec
CHECK_DEADLOCK FALSE
PROPERTIES
    SignedEpochFinishes
