\* Four nodes, of which two collect: one makes an epoch, the other does not.
CONSTANTS
    n1 = n1
    n2 = n2
    n3 = n3
    l = l
    Nothing = Nothing
    Node = {n1, n2, n3, l}
    Collector = {n1, n2}
    MaxRound = 1
    First <- AllOrLate
    Found <- AllOrLate
    VotesWait = TRUE
SPECIFICATION Spec
SYMMETRY Symmetry
INVARIANT
    EpochsOnEveryNode
