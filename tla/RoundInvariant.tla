---------------------------- MODULE RoundInvariant ----------------------------
(***************************************************************************)
(* The inductive invariant of RoundVoting.                                 *)
(***************************************************************************)
EXTENDS RoundVoting

\* A node has one vote out for each decided round, in order, for the witnesses it
\* still holds valid.
VotesOncePerRound(rs) ==
    /\ Len(rs.sent) = rs.decided
    /\ \A k \in 1 .. rs.decided : /\ rs.sent[k].round = k
                                  /\ rs.sent[k].pattern = rs.valid[k]
                                  /\ rs.valid[k] # Nothing
                                  /\ rs.witnesses[k] # {}
    /\ rs.toCollect <= rs.decided + 1
    /\ rs.toCollect = 0 <=> rs.decided = 0

\* An epoch is the node's own pattern, which won the votes it filed.
EpochIsWon(rs, r) ==
    rs.epochs[r] # Nothing =>
        /\ r < rs.toCollect
        /\ rs.epochs[r] = rs.valid[r]
        /\ OwnPatternWins(rs, r)
        /\ IsMajority(Cardinality(rs.valid[r]))

\* A round is passed over because its pattern won with too few valid witnesses, or
\* because the filed votes tell that it cannot win.
PassedForAReason(rs, r) ==
    r < rs.toCollect /\ rs.epochs[r] = Nothing =>
        \/ OwnPatternWins(rs, r) /\ ~IsMajority(Cardinality(rs.valid[r]))
        \/ ~OwnPatternWins(rs, r) /\ IsDecided(rs, r)

RoundsOK(rs) ==
    /\ rs \in RoundsType
    /\ VotesOncePerRound(rs)
    /\ \A r \in Round : EpochIsWon(rs, r) /\ PassedForAReason(rs, r)

\* A vote on file is the one its sender made.
VotesGenuine(n, m) ==
    \A r \in Round : rounds[n].votes[r][m] # Nothing =>
        /\ r <= rounds[m].decided
        /\ rounds[n].votes[r][m] = rounds[m].valid[r]

\* Each node's rounds are consistent, and the votes on file are genuine.
VotingInvariant ==
    /\ RoundsTypeOK
    /\ \A n \in Node : RoundsOK(rounds[n])
    /\ \A n, m \in Node : VotesGenuine(n, m)
================================================================================
