\* Two nodes and no assumption on the timing: two epochs of a node are between the
\* hashgraph and the bullseye at once, products come late. The operator may
\* schedule a shutdown at epoch 1.
CONSTANTS
    c1 = c1
    c2 = c2
    b1 = b1
    b2 = b2
    None = None
    all = all
    some = some
    Witnesses <- NoneMisses
    Node = {n1, n2}
    Contract = {c1}
    Bill = {b1}
    Inputs <- OneInput
    EarliestEpoch <- AtOnce
    ShutdownEpoch = {1}
    MaxEpoch = 3
    MaxInFlight = 2
    ProductsInTime = FALSE
SPECIFICATION Spec
CHECK_DEADLOCK FALSE
SYMMETRY Symmetry
INVARIANTS
    FlowInvariant
    ChainAgreement
    LogReplaysDART
    CommittedOnce
    ResponseHasVote
    CleanShutdown
PROPERTIES
    ChainSpec
