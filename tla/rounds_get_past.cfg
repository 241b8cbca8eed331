\* Two rounds of three nodes, of which one collects.
CONSTANTS
    n1 = n1
    n2 = n2
    n3 = n3
    l = l
    Nothing = Nothing
    Node = {n1, n2, l}
    Collector = {n1}
    MaxRound = 2
    First <- OnlyAll
    Found <- AllOrLate
    VotesWait = TRUE
SPECIFICATION FairSpec
PROPERTY RoundsGetPast
