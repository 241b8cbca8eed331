\* Two nodes with the timing of pipeline_in_step and a contract that may come again
\* after a crash; the process crashes at any moment, once.
CONSTANTS
    None = None
    all = all
    Witnesses <- SameOrOwn
    Node = {n1, n2}
    Contract = {c1}
    Bill = {b1, b2}
    Inputs <- BothBills
    EarliestEpoch <- AtOnce
    ShutdownEpoch = {}
    MaxEpoch = 3
    MaxInFlight = 1
    ProductsInTime = TRUE
    MaxBoots = 1
SPECIFICATION RestartSpec
CHECK_DEADLOCK FALSE
SYMMETRY Symmetry
INVARIANTS
    RestartInvariant
    FinishedForGood
    NoDoubleSpendEver
    GlobalsCountBills
    SameHistory
    SameEpochs
    JournalMissesLast
    FileIsNew
