\* One round of four nodes, of which two collect.
CONSTANTS
    n1 = n1
    n2 = n2
    n3 = n3
    l = l
    Nothing = Nothing
    Node = {n1, n2, n3, l}
    Collector = {n1, n2}
    MaxRound = 1
    First <- AllOrLate
    Found <- AllOrLate
    VotesWait = FALSE
SPECIFICATION Spec
SYMMETRY Symmetry
INVARIANTS
    VotingInvariant
    EpochsAgree
    GivesUpSoundly
