--------------------------- MODULE RoundVotingProofs ---------------------------
(***************************************************************************)
(* For any nodes, rounds and findings: the voting invariant holds, epochs  *)
(* agree, and a node gives up on a round only when it must.                *)
(***************************************************************************)
EXTENDS RoundInvariant, FiniteSetTheorems, TLAPS

\* rs2 keeps what rs has decided and sent, and every vote on file.
Extends(rs, rs2) ==
    /\ rs.decided <= rs2.decided
    /\ \A r \in 1 .. rs.decided : /\ rs2.valid[r] = rs.valid[r]
                                  /\ rs2.sent[r] = rs.sent[r]

\* Sets of nodes are finite, and counted by naturals.
LEMMA NodeSets ==
    ASSUME NEW S \in SUBSET Node
    PROVE  IsFiniteSet(S) /\ Cardinality(S) \in Nat /\ Cardinality(S) <= Cardinality(Node)
BY NodeAssumption, FS_Subset, FS_CardinalityType

\* Two majorities have a node in common.
LEMMA MajoritiesIntersect ==
    ASSUME NEW A \in SUBSET Node, NEW B \in SUBSET Node,
           IsMajority(Cardinality(A)), IsMajority(Cardinality(B))
    PROVE  \E q \in Node : q \in A /\ q \in B
<1>1. Cardinality(A \cup B) = Cardinality(A) + Cardinality(B) - Cardinality(A \cap B)
  BY NodeSets, FS_Union
<1>2. /\ Cardinality(A) \in Nat /\ Cardinality(B) \in Nat /\ Cardinality(Node) \in Nat
      /\ Cardinality(A \cap B) \in Nat
      /\ Cardinality(A \cup B) \in Nat /\ Cardinality(A \cup B) <= Cardinality(Node)
  <2>1. A \cap B \in SUBSET Node /\ A \cup B \in SUBSET Node
    OBVIOUS
  <2> QED
    BY <2>1, NodeSets
<1>3. Cardinality(A \cap B) # 0
  BY <1>1, <1>2 DEF IsMajority
<1>4. A \cap B # {}
  BY <1>3, FS_EmptySet
<1> QED
  BY <1>4

\* The nodes of m's majority that voted at n voted the same there, the others are
\* missing at n.
LEMMA MissingVotes ==
    ASSUME NEW A \in SUBSET Node, NEW B \in SUBSET Node, NEW C \in SUBSET Node,
           \A q \in A : q \in C => q \in B
    PROVE  Cardinality(A) <= Cardinality(B) + Cardinality(Node) - Cardinality(C)
<1> DEFINE M == Node \ C
<1>1. M \in SUBSET Node /\ B \cup M \in SUBSET Node /\ A \subseteq B \cup M
  OBVIOUS
<1>2. Cardinality(M) = Cardinality(Node) - Cardinality(C)
  <2>1. Cardinality(M) = Cardinality(Node) - Cardinality(Node \cap C)
    BY NodeAssumption, FS_Difference
  <2>2. Node \cap C = C
    OBVIOUS
  <2> QED
    BY <2>1, <2>2
<1>3. Cardinality(B \cup M) = Cardinality(B) + Cardinality(M) - Cardinality(B \cap M)
  BY <1>1, NodeSets, FS_Union
<1>4. Cardinality(A) <= Cardinality(B \cup M)
  BY <1>1, NodeSets, FS_Subset
<1>5. /\ Cardinality(A) \in Nat /\ Cardinality(B) \in Nat /\ Cardinality(C) \in Nat
      /\ Cardinality(Node) \in Nat /\ Cardinality(M) \in Nat
      /\ Cardinality(B \cap M) \in Nat /\ Cardinality(B \cup M) \in Nat
  <2>1. B \cap M \in SUBSET Node /\ Node \in SUBSET Node
    OBVIOUS
  <2> QED
    BY <1>1, <2>1, NodeSets
<1> HIDE DEF M
<1> QED
  BY <1>2, <1>3, <1>4, <1>5

--------------------------------------------------------------------------------
\* The updates of the fields of a record that the handler makes, for any types of
\* the fields.
LEMMA Updates ==
    ASSUME NEW D, NEW S, NEW C, NEW W, NEW V, NEW O, NEW E,
           NEW rs \in [decided : D, sent : S, toCollect : C, witnesses : W,
                       valid : V, votes : O, epochs : E],
           NEW d \in D, NEW s \in S, NEW c \in C, NEW v \in V, NEW o \in O, NEW e \in E
    PROVE  /\ LET rs2 == [rs EXCEPT !.decided = d, !.valid = v] IN
                /\ rs2 \in [decided : D, sent : S, toCollect : C, witnesses : W,
                            valid : V, votes : O, epochs : E]
                /\ rs2.decided = d /\ rs2.valid = v /\ rs2.sent = rs.sent
                /\ rs2.toCollect = rs.toCollect /\ rs2.witnesses = rs.witnesses
                /\ rs2.votes = rs.votes /\ rs2.epochs = rs.epochs
           /\ LET rs2 == [rs EXCEPT !.sent = s, !.toCollect = c] IN
                /\ rs2 \in [decided : D, sent : S, toCollect : C, witnesses : W,
                            valid : V, votes : O, epochs : E]
                /\ rs2.decided = rs.decided /\ rs2.valid = rs.valid /\ rs2.sent = s
                /\ rs2.toCollect = c /\ rs2.witnesses = rs.witnesses
                /\ rs2.votes = rs.votes /\ rs2.epochs = rs.epochs
           /\ LET rs2 == [rs EXCEPT !.toCollect = c, !.epochs = e] IN
                /\ rs2 \in [decided : D, sent : S, toCollect : C, witnesses : W,
                            valid : V, votes : O, epochs : E]
                /\ rs2.decided = rs.decided /\ rs2.valid = rs.valid /\ rs2.sent = rs.sent
                /\ rs2.toCollect = c /\ rs2.witnesses = rs.witnesses
                /\ rs2.votes = rs.votes /\ rs2.epochs = e
           /\ LET rs2 == [rs EXCEPT !.votes = o] IN
                /\ rs2 \in [decided : D, sent : S, toCollect : C, witnesses : W,
                            valid : V, votes : O, epochs : E]
                /\ rs2.decided = rs.decided /\ rs2.valid = rs.valid /\ rs2.sent = rs.sent
                /\ rs2.toCollect = rs.toCollect /\ rs2.witnesses = rs.witnesses
                /\ rs2.votes = o /\ rs2.epochs = rs.epochs
OBVIOUS

(***************************************************************************)
(* The steps of the handler keep the rounds of a node consistent.          *)
(***************************************************************************)
\* New witnesses of a round that is not past.
LEMMA WitnessesOK ==
    ASSUME NEW rs, RoundsOK(rs), NEW X \in SUBSET Node, X # {},
           NEW r \in Round, r >= rs.toCollect
    PROVE  LET rs2 == [rs EXCEPT !.witnesses[r] = X] IN
               /\ RoundsOK(rs2)
               /\ Extends(rs, rs2)
               /\ rs2.votes = rs.votes
<1> DEFINE rs2 == [rs EXCEPT !.witnesses[r] = X]
           w == [rs.witnesses EXCEPT ![r] = X]
<1> USE BoundAssumption DEF Round
<1>1. rs \in RoundsType /\ VotesOncePerRound(rs)
  BY DEF RoundsOK
<1>2. rs2 \in RoundsType
  <2>1. rs.witnesses \in [Round -> SUBSET Node]
    BY <1>1 DEF RoundsType
  <2>2. w \in [Round -> SUBSET Node]
    BY <2>1
  <2>3. rs2 = [rs EXCEPT !.witnesses = w]
    OBVIOUS
  <2> HIDE DEF w, rs2
  <2> QED
    BY <1>1, <2>2, <2>3 DEF RoundsType
<1>3. /\ rs2.decided = rs.decided /\ rs2.sent = rs.sent /\ rs2.votes = rs.votes
      /\ rs2.valid = rs.valid /\ rs2.epochs = rs.epochs
      /\ rs2.toCollect = rs.toCollect
      /\ \A k \in Round : k # r => rs2.witnesses[k] = rs.witnesses[k]
      /\ rs2.witnesses[r] = X
  BY <1>1 DEF RoundsType
<1> HIDE DEF rs2
<1>4. VotesOncePerRound(rs2)
  <2>1. ASSUME NEW k \in 1 .. rs.decided PROVE rs2.witnesses[k] # {}
    <3>1. k \in Round /\ rs.witnesses[k] # {}
      BY <1>1 DEF VotesOncePerRound, RoundsType
    <3> QED
      BY <1>3, <3>1
  <2> QED
    BY <1>1, <1>3, <2>1 DEF VotesOncePerRound
<1>5. ASSUME NEW k \in Round PROVE EpochIsWon(rs2, k) /\ PassedForAReason(rs2, k)
  <2>1. EpochIsWon(rs, k) /\ PassedForAReason(rs, k)
    BY DEF RoundsOK
  <2>2. OwnPatternWins(rs2, k) <=> OwnPatternWins(rs, k)
    BY <1>3 DEF OwnPatternWins, VotersOf
  <2>3. k < rs.toCollect => (IsDecided(rs2, k) <=> IsDecided(rs, k))
    <3> HAVE k < rs.toCollect
    <3>1. rs2.witnesses[k] = rs.witnesses[k]
      BY <1>3, <1>1 DEF RoundsType
    <3> QED
      BY <3>1, <1>3 DEF IsDecided, VotersOf, Voted, VotedFor
  <2> QED
    BY <2>1, <2>2, <2>3, <1>3 DEF EpochIsWon, PassedForAReason
<1>6. RoundsOK(rs2)
  BY <1>2, <1>4, <1>5 DEF RoundsOK
<1>7. Extends(rs, rs2)
  BY <1>1, <1>3 DEF Extends, RoundsType
<1> QED
  BY <1>3, <1>6, <1>7 DEF rs2

\* A new witness.
LEMMA AddWitnessOK ==
    ASSUME NEW rs, RoundsOK(rs), NEW m \in Node, NEW r \in 0 .. MaxRound
    PROVE  /\ RoundsOK(AddWitness(rs, m, r))
           /\ Extends(rs, AddWitness(rs, m, r))
           /\ AddWitness(rs, m, r).votes = rs.votes
<1>1. CASE r \in Round /\ r >= rs.toCollect /\ rs.witnesses[r] # {}
  <2> DEFINE X == rs.witnesses[r] \cup {m}
  <2>1. X \in SUBSET Node /\ X # {}
    BY <1>1 DEF RoundsOK, RoundsType
  <2>2. AddWitness(rs, m, r) = [rs EXCEPT !.witnesses[r] = X]
    BY <1>1 DEF AddWitness
  <2> HIDE DEF X
  <2> QED
    BY <1>1, <2>1, <2>2, WitnessesOK
<1>2. CASE ~(r \in Round /\ r >= rs.toCollect /\ rs.witnesses[r] # {})
  <2>1. AddWitness(rs, m, r) = rs
    BY ONLY <1>2 DEF AddWitness
  <2>2. rs.decided \in Int
    BY BoundAssumption DEF RoundsOK, RoundsType
  <2> QED
    BY <2>1, <2>2 DEF Extends
<1> QED
  BY <1>1, <1>2

\* The next round is decided and voted on.
LEMMA DecideOK ==
    ASSUME NEW rs, RoundsOK(rs), NEW v \in Found \cup {Nothing}
    PROVE  /\ RoundsOK(RoundVote(CheckDecideRound(rs, v)))
           /\ Extends(rs, RoundVote(CheckDecideRound(rs, v)))
           /\ RoundVote(CheckDecideRound(rs, v)).votes = rs.votes
<1> DEFINE rs1 == CheckDecideRound(rs, v)
           rs2 == RoundVote(rs1)
           r == rs.decided + 1
           vote == [round |-> r, pattern |-> v, known |-> rs.witnesses[r]]
           d == [rs.valid EXCEPT ![r] = v]
<1> USE BoundAssumption DEF Round
<1>1. rs \in RoundsType /\ VotesOncePerRound(rs)
  BY DEF RoundsOK
<1>2. CASE ~Completed(rs, v)
  <2>1. rs1 = rs
    BY <1>2 DEF CheckDecideRound
  <2>2. rs2 = rs
    BY <1>1, <2>1 DEF RoundVote, VotesOncePerRound
  <2> QED
    BY <1>1, <2>2 DEF Extends, RoundsType
<1>3. CASE Completed(rs, v)
  <2>1. r \in Round /\ v \in Pattern /\ v # Nothing
    BY <1>3, <1>1, FoundAssumption DEF Completed, Pattern
  <2>2. rs.witnesses[r] # {}
    <3>1. IsMajority(Cardinality(rs.witnesses[r]))
      BY <1>3 DEF Completed
    <3>2. ~IsMajority(Cardinality({}))
      BY NodeSets, FS_EmptySet DEF IsMajority
    <3> QED
      BY <3>1, <3>2
  <2>3. /\ rs.decided \in 0 .. MaxRound /\ rs.toCollect \in 0 .. MaxRound + 1
        /\ rs.sent \in Seq([round : Round, pattern : Pattern, known : SUBSET Node])
        /\ rs.witnesses \in [Round -> SUBSET Node]
        /\ rs.valid \in [Round -> {Nothing} \cup Pattern]
    BY <1>1 DEF RoundsType
  <2>4. vote \in [round : Round, pattern : Pattern, known : SUBSET Node]
    BY <2>1, <2>3
  <2>5. d \in [Round -> {Nothing} \cup Pattern]
    BY <2>1, <2>3
  <2>6. rs1 = [rs EXCEPT !.decided = r, !.valid = d]
    BY <1>3 DEF CheckDecideRound
  <2> HIDE DEF d
  <2>7. /\ rs1 \in RoundsType /\ rs1.decided = r /\ rs1.valid = d
        /\ rs1.sent = rs.sent /\ rs1.toCollect = rs.toCollect
        /\ rs1.witnesses = rs.witnesses
        /\ rs1.votes = rs.votes /\ rs1.epochs = rs.epochs
    <3>1. r \in 0 .. MaxRound
      BY <2>1
    <3> HIDE DEF rs1, r
    <3> QED
      BY ONLY <1>1, <2>5, <2>6, <3>1, Updates DEF RoundsType
  <2>8. d[r] = v
    BY <2>1, <2>3 DEF d
  <2>9. Len(rs.sent) # r
    BY <1>1, <2>3 DEF VotesOncePerRound
  <2> DEFINE q == Append(rs.sent, vote)
             c == IF rs.toCollect = 0 THEN r ELSE rs.toCollect
  <2>10. rs2 = [rs1 EXCEPT !.sent = q, !.toCollect = c]
    <3> HIDE DEF rs1
    <3> QED
      BY <2>7, <2>8, <2>9 DEF RoundVote
  <2>11. /\ q \in Seq([round : Round, pattern : Pattern, known : SUBSET Node])
         /\ c \in 0 .. MaxRound + 1
    BY <2>1, <2>3, <2>4
  <2>12. /\ rs2 \in RoundsType /\ rs2.decided = r /\ rs2.valid = d
         /\ rs2.sent = q /\ rs2.toCollect = c
         /\ rs2.witnesses = rs.witnesses
         /\ rs2.votes = rs.votes /\ rs2.epochs = rs.epochs
    <3> HIDE DEF rs1, rs2, q, c, r
    <3>1. /\ rs2 \in RoundsType /\ rs2.decided = rs1.decided /\ rs2.valid = rs1.valid
          /\ rs2.sent = q /\ rs2.toCollect = c
          /\ rs2.witnesses = rs1.witnesses
          /\ rs2.votes = rs1.votes /\ rs2.epochs = rs1.epochs
      BY ONLY <2>7, <2>10, <2>11, Updates DEF RoundsType
    <3> QED
      BY <2>7, <3>1
  <2> HIDE DEF rs2
  <2>13. \A k \in 1 .. rs.decided : d[k] = rs.valid[k] /\ rs2.sent[k] = rs.sent[k]
    BY <1>1, <2>3, <2>12 DEF d, VotesOncePerRound
  <2>14. VotesOncePerRound(rs2)
    <3>1. Len(rs2.sent) = r /\ rs2.sent[r] = vote
      BY <1>1, <2>3, <2>4, <2>12 DEF VotesOncePerRound
    <3>4. /\ rs2.toCollect <= rs2.decided + 1 /\ rs2.decided # 0
          /\ rs2.toCollect # 0
      BY <1>1, <2>3, <2>12 DEF VotesOncePerRound
    <3>2. /\ Len(rs.sent) = rs.decided /\ rs.toCollect <= rs.decided + 1
          /\ rs.toCollect = 0 <=> rs.decided = 0
      BY <1>1 DEF VotesOncePerRound
    <3>3. ASSUME NEW k \in 1 .. r
          PROVE  /\ rs2.sent[k].round = k /\ rs2.sent[k].pattern = rs2.valid[k]
                 /\ rs2.valid[k] # Nothing /\ rs2.witnesses[k] # {}
      <4>1. CASE k = r
        BY <4>1, <2>1, <2>2, <2>8, <2>12, <3>1
      <4>2. CASE k \in 1 .. rs.decided
        BY <1>1, <4>2, <2>12, <2>13 DEF VotesOncePerRound
      <4> QED
        BY <4>1, <4>2, <2>3
    <3> QED
      BY <2>12, <3>1, <3>3, <3>4 DEF VotesOncePerRound
  <2>15. ASSUME NEW k \in Round PROVE EpochIsWon(rs2, k) /\ PassedForAReason(rs2, k)
    <3>1. EpochIsWon(rs, k) /\ PassedForAReason(rs, k)
      BY DEF RoundsOK
    <3>2. k < rs2.toCollect => k < rs.toCollect /\ k \in 1 .. rs.decided
      BY <1>1, <2>3, <2>12 DEF VotesOncePerRound
    <3>3. k \in 1 .. rs.decided => rs2.valid[k] = rs.valid[k]
      BY <2>12, <2>13
    <3>4. k \in 1 .. rs.decided => (OwnPatternWins(rs2, k) <=> OwnPatternWins(rs, k))
      BY <2>12, <3>3 DEF OwnPatternWins, VotersOf
    <3>5. IsDecided(rs2, k) <=> IsDecided(rs, k)
      BY <2>12 DEF IsDecided, VotersOf, Voted, VotedFor
    <3>6. rs.epochs[k] # Nothing => k \in 1 .. rs.decided /\ k < rs2.toCollect
      BY <1>1, <2>3, <2>12, <3>1 DEF EpochIsWon, VotesOncePerRound
    <3> QED
      BY <3>1, <3>2, <3>3, <3>4, <3>5, <3>6, <2>12 DEF EpochIsWon, PassedForAReason
  <2> QED
    <3>1. RoundsOK(rs2)
      BY <2>12, <2>14, <2>15 DEF RoundsOK
    <3>2. Extends(rs, rs2)
      <4> HIDE DEF q, c
      <4>1. rs.decided <= rs2.decided
        BY <2>3, <2>12
      <4>2. \A k \in 1 .. rs.decided : rs2.valid[k] = rs.valid[k]
        BY <2>12, <2>13
      <4> QED
        BY <2>13, <4>1, <4>2 DEF Extends
    <3> QED
      BY <2>12, <3>1, <3>2 DEF rs2
<1> QED
  BY <1>2, <1>3

\* The round to be collected is collected or passed over.
LEMMA CollectOK ==
    ASSUME NEW rs, RoundsOK(rs)
    PROVE  /\ RoundsOK(CheckToCollectRound(rs))
           /\ Extends(rs, CheckToCollectRound(rs))
           /\ CheckToCollectRound(rs).votes = rs.votes
<1> DEFINE rs2 == CheckToCollectRound(rs)
           r == rs.toCollect
           collects == OwnPatternWins(rs, r) /\ IsMajority(Cardinality(rs.valid[r]))
           e == [rs.epochs EXCEPT ![r] = IF collects THEN rs.valid[r] ELSE Nothing]
<1> USE BoundAssumption DEF Round
<1>1. rs \in RoundsType /\ VotesOncePerRound(rs)
  BY DEF RoundsOK
<1>2. CASE ~IsPast(rs)
  BY <1>1, <1>2 DEF CheckToCollectRound, Extends, RoundsType
<1>3. CASE IsPast(rs)
  <2>1. /\ r \in Round /\ r <= rs.decided
        /\ OwnPatternWins(rs, r) \/ IsDecided(rs, r)
    BY <1>1, <1>3 DEF IsPast, RoundsType
  <2>2. /\ rs.decided \in 0 .. MaxRound /\ r + 1 \in 0 .. MaxRound + 1
        /\ rs.valid \in [Round -> {Nothing} \cup Pattern]
        /\ rs.epochs \in [Round -> {Nothing} \cup Pattern]
    BY <1>1, <2>1 DEF RoundsType
  <2> HIDE DEF collects
  <2>3. e \in [Round -> {Nothing} \cup Pattern]
    BY <2>1, <2>2
  <2>4. rs2 = [rs EXCEPT !.toCollect = r + 1, !.epochs = e]
    BY <1>3 DEF CheckToCollectRound, collects
  <2>5. /\ e[r] = IF collects THEN rs.valid[r] ELSE Nothing
        /\ \A k \in Round : k # r => e[k] = rs.epochs[k]
    BY <2>1, <2>2
  <2>6. /\ rs2 \in RoundsType /\ rs2.decided = rs.decided /\ rs2.valid = rs.valid
        /\ rs2.sent = rs.sent /\ rs2.toCollect = r + 1
        /\ rs2.witnesses = rs.witnesses
        /\ rs2.votes = rs.votes /\ rs2.epochs = e
    <3> HIDE DEF rs2, e, r
    <3> QED
      BY ONLY <1>1, <2>2, <2>3, <2>4, Updates DEF RoundsType
  <2> HIDE DEF rs2, e
  <2>7. VotesOncePerRound(rs2)
    BY <1>1, <2>1, <2>2, <2>6 DEF VotesOncePerRound
  <2>8. ASSUME NEW k \in Round PROVE EpochIsWon(rs2, k) /\ PassedForAReason(rs2, k)
    <3>1. /\ OwnPatternWins(rs2, k) <=> OwnPatternWins(rs, k)
          /\ IsDecided(rs2, k) <=> IsDecided(rs, k)
      BY <2>6 DEF OwnPatternWins, IsDecided, VotersOf, Voted, VotedFor
    <3>2. CASE k = r
      <4>1. rs.valid[r] # Nothing
        BY <1>1, <2>1 DEF VotesOncePerRound
      <4>2. collects => rs2.epochs[k] = rs.valid[k]
        BY <2>5, <2>6, <3>2
      <4>3. ~collects => rs2.epochs[k] = Nothing
        BY <2>5, <2>6, <3>2
      <4>4. k < rs2.toCollect
        BY <2>1, <2>6, <3>2
      <4> QED
        BY <2>1, <2>6, <3>1, <3>2, <4>1, <4>2, <4>3, <4>4
        DEF EpochIsWon, PassedForAReason, collects
    <3>3. CASE k # r
      <4>1. EpochIsWon(rs, k) /\ PassedForAReason(rs, k)
        BY DEF RoundsOK
      <4>2. rs2.epochs[k] = rs.epochs[k]
        BY <2>5, <2>6, <3>3
      <4>3. k < rs2.toCollect <=> k < rs.toCollect
        BY <2>1, <2>6, <3>3
      <4> QED
        BY <2>6, <3>1, <4>1, <4>2, <4>3 DEF EpochIsWon, PassedForAReason
    <3> QED
      BY <3>2, <3>3
  <2>9. RoundsOK(rs2)
    BY <2>6, <2>7, <2>8 DEF RoundsOK
  <2>10. Extends(rs, rs2)
    BY <2>2, <2>6 DEF Extends
  <2> QED
    BY <2>6, <2>9, <2>10 DEF rs2
<1> QED
  BY <1>2, <1>3

\* A vote is filed in a round that is not past.
LEMMA FileOK ==
    ASSUME NEW rs, RoundsOK(rs), NEW m \in Node,
           NEW vote \in [round : Round, pattern : Pattern, known : SUBSET Node]
    PROVE  LET rs2 == CheckRoundVotes(rs, m, vote) IN
               /\ RoundsOK(rs2)
               /\ Extends(rs, rs2)
               /\ \A r \in Round, q \in Node :
                     \/ rs2.votes[r][q] = rs.votes[r][q]
                     \/ q = m /\ r = vote.round /\ rs2.votes[r][q] = vote.pattern
<1> DEFINE rs2 == CheckRoundVotes(rs, m, vote)
           r == vote.round
           o == [rs.votes EXCEPT ![r] = [@ EXCEPT ![m] = vote.pattern]]
<1> USE BoundAssumption DEF Round
<1>1. rs \in RoundsType /\ VotesOncePerRound(rs)
  BY DEF RoundsOK
<1>2. CASE rs2 = rs
  BY <1>1, <1>2 DEF Extends, RoundsType
<1>3. CASE rs.toCollect # 0 /\ r >= rs.toCollect /\ rs2 = [rs EXCEPT !.votes[r][m] = vote.pattern]
  <2>1. /\ r \in Round /\ vote.pattern \in Pattern
        /\ rs.votes \in [Round -> [Node -> {Nothing} \cup Pattern]]
        /\ rs.toCollect \in 0 .. MaxRound + 1 /\ rs.decided \in 0 .. MaxRound
    BY <1>1 DEF RoundsType
  <2>2. o \in [Round -> [Node -> {Nothing} \cup Pattern]]
    BY <2>1
  <2>3. rs2 = [rs EXCEPT !.votes = o]
    BY <1>3
  <2>4. /\ \A k \in Round : k # r => o[k] = rs.votes[k]
        /\ \A q \in Node : q # m => o[r][q] = rs.votes[r][q]
        /\ o[r][m] = vote.pattern
    BY <2>1
  <2>5. /\ rs2 \in RoundsType /\ rs2.decided = rs.decided /\ rs2.valid = rs.valid
        /\ rs2.sent = rs.sent /\ rs2.toCollect = rs.toCollect
        /\ rs2.witnesses = rs.witnesses
        /\ rs2.votes = o /\ rs2.epochs = rs.epochs
    <3> HIDE DEF rs2, o
    <3> QED
      BY ONLY <1>1, <2>2, <2>3, Updates DEF RoundsType
  <2> HIDE DEF rs2, o
  <2>6. VotesOncePerRound(rs2)
    BY <1>1, <2>5 DEF VotesOncePerRound
  <2>7. ASSUME NEW k \in Round PROVE EpochIsWon(rs2, k) /\ PassedForAReason(rs2, k)
    <3>1. EpochIsWon(rs, k) /\ PassedForAReason(rs, k)
      BY DEF RoundsOK
    <3>2. CASE k < rs.toCollect
      <4>1. rs2.votes[k] = rs.votes[k]
        BY <1>3, <2>1, <2>4, <2>5, <3>2
      <4>2. /\ OwnPatternWins(rs2, k) <=> OwnPatternWins(rs, k)
            /\ IsDecided(rs2, k) <=> IsDecided(rs, k)
        BY <2>5, <4>1 DEF OwnPatternWins, IsDecided, VotersOf, Voted, VotedFor
      <4> QED
        BY <2>5, <3>1, <4>2 DEF EpochIsWon, PassedForAReason
    <3>3. CASE ~(k < rs.toCollect)
      BY <2>5, <3>1, <3>3 DEF EpochIsWon, PassedForAReason
    <3> QED
      BY <3>2, <3>3
  <2>8. RoundsOK(rs2)
    BY <2>5, <2>6, <2>7 DEF RoundsOK
  <2>9. Extends(rs, rs2)
    BY <2>1, <2>5 DEF Extends
  <2>10. \A k \in Round, q \in Node :
            \/ rs2.votes[k][q] = rs.votes[k][q]
            \/ q = m /\ k = r /\ rs2.votes[k][q] = vote.pattern
    BY <2>4, <2>5
  <2> QED
    BY <2>8, <2>9, <2>10 DEF rs2
<1>4. rs2 = rs \/ /\ rs.toCollect # 0 /\ r >= rs.toCollect
                  /\ rs2 = [rs EXCEPT !.votes[r][m] = vote.pattern]
  BY <1>1 DEF CheckRoundVotes, RoundsType
<1> QED
  BY <1>2, <1>3, <1>4

\* All that a new witness triggers.
LEMMA HandleOK ==
    ASSUME NEW rs, RoundsOK(rs), NEW m \in Node, NEW r \in 0 .. MaxRound,
           NEW v \in Found \cup {Nothing}
    PROVE  /\ RoundsOK(HandleWitness(rs, m, r, v))
           /\ Extends(rs, HandleWitness(rs, m, r, v))
           /\ HandleWitness(rs, m, r, v).votes = rs.votes
<1> DEFINE rs1 == AddWitness(rs, m, r)
           rs2 == RoundVote(CheckDecideRound(rs1, v))
           rs3 == CheckToCollectRound(rs2)
<1>1. RoundsOK(rs1) /\ Extends(rs, rs1) /\ rs1.votes = rs.votes
  BY AddWitnessOK
<1> HIDE DEF rs1
<1>2. RoundsOK(rs2) /\ Extends(rs1, rs2) /\ rs2.votes = rs1.votes
  BY <1>1, DecideOK
<1> HIDE DEF rs2
<1>3. RoundsOK(rs3) /\ Extends(rs2, rs3) /\ rs3.votes = rs2.votes
  BY <1>2, CollectOK
<1> HIDE DEF rs3
<1>4. /\ rs.decided \in Nat /\ rs1.decided \in Nat
      /\ rs2.decided \in Nat /\ rs3.decided \in Nat
  BY <1>1, <1>2, <1>3, BoundAssumption DEF RoundsOK, RoundsType
<1>5. Extends(rs, rs3)
  BY <1>1, <1>2, <1>3, <1>4 DEF Extends
<1> QED
  BY <1>1, <1>2, <1>3, <1>5 DEF HandleWitness, rs1, rs2, rs3

--------------------------------------------------------------------------------
(***************************************************************************)
(* The voting invariant is inductive.                                      *)
(***************************************************************************)
\* A node whose rounds go on consistently, and file only genuine votes, keeps the
\* invariant.
LEMMA StepOK ==
    ASSUME VotingInvariant, NEW n \in Node, NEW rs,
           RoundsOK(rs), Extends(rounds[n], rs),
           \A r \in Round, q \in Node :
               \/ rs.votes[r][q] = rounds[n].votes[r][q]
               \/ r <= rounds[q].decided /\ rs.votes[r][q] = rounds[q].valid[r],
           rounds' = [rounds EXCEPT ![n] = rs],
           connected' \in [Node -> [Node -> 0 .. MaxRound]]
    PROVE  VotingInvariant'
<1>1. /\ rounds \in [Node -> RoundsType] /\ \A a \in Node : RoundsOK(rounds[a])
      /\ \A a, b \in Node : VotesGenuine(a, b)
  BY DEF VotingInvariant, RoundsTypeOK
<1>2. rs \in RoundsType
  BY DEF RoundsOK
<1>3. /\ rounds' \in [Node -> RoundsType] /\ rounds'[n] = rs
      /\ \A a \in Node : a # n => rounds'[a] = rounds[a]
  BY <1>1, <1>2
<1>4. \A a \in Node : RoundsOK(rounds'[a])
  BY <1>1, <1>3
<1>5. ASSUME NEW b \in Node, NEW r \in Round, r <= rounds[b].decided
      PROVE  r <= rounds'[b].decided /\ rounds'[b].valid[r] = rounds[b].valid[r]
  <2>1. CASE b # n
    BY <1>3, <1>5, <2>1
  <2>2. CASE b = n
    <3>1. rounds[n].decided \in Nat /\ rs.decided \in Nat
      BY <1>1, <1>2, BoundAssumption DEF RoundsType
    <3>2. r \in 1 .. rounds[n].decided
      BY <1>5, <2>2, <3>1, BoundAssumption DEF Round
    <3> QED
      BY <1>3, <2>2, <3>1, <3>2, BoundAssumption DEF Extends, Round
  <2> QED
    BY <2>1, <2>2
<1>6. ASSUME NEW a \in Node, NEW b \in Node, NEW r \in Round,
             rounds'[a].votes[r][b] # Nothing
      PROVE  /\ r <= rounds'[b].decided
             /\ rounds'[a].votes[r][b] = rounds'[b].valid[r]
  <2>1. r <= rounds[b].decided /\ rounds'[a].votes[r][b] = rounds[b].valid[r]
    BY <1>1, <1>3, <1>6 DEF VotesGenuine
  <2> QED
    BY <1>5, <2>1
<1> QED
  BY <1>3, <1>4, <1>6 DEF VotingInvariant, RoundsTypeOK, VotesGenuine

\* Nothing is decided, voted or known at the start.
LEMMA InitOK == Init => VotingInvariant
<1> SUFFICES ASSUME Init PROVE VotingInvariant
  OBVIOUS
<1> USE BoundAssumption DEF Round
<1>1. NoRounds \in RoundsType
  <2>1. <<>> \in Seq([round : Round, pattern : Pattern, known : SUBSET Node])
    OBVIOUS
  <2> QED
    BY <2>1 DEF NoRounds, RoundsType
<1>2. VotesOncePerRound(NoRounds)
  BY DEF NoRounds, VotesOncePerRound
<1>3. \A r \in Round : EpochIsWon(NoRounds, r) /\ PassedForAReason(NoRounds, r)
  BY DEF NoRounds, EpochIsWon, PassedForAReason
<1>4. \A n \in Node : rounds[n] = NoRounds
  BY DEF Init
<1>5. RoundsTypeOK
  BY <1>1 DEF Init, RoundsTypeOK
<1>6. \A n, m \in Node : VotesGenuine(n, m)
  BY <1>4 DEF VotesGenuine, NoRounds
<1> QED
  BY <1>1, <1>2, <1>3, <1>4, <1>5, <1>6 DEF VotingInvariant, RoundsOK

\* Filing the next vote of m, when n's rounds are rs after a witness or before.
LEMMA FileVoteOK ==
    ASSUME VotingInvariant, NEW n \in Node, NEW m \in Node, NEW rs,
           RoundsOK(rs), Extends(rounds[n], rs), rs.votes = rounds[n].votes,
           FileVote(n, m, rs)
    PROVE  VotingInvariant'
<1> DEFINE k == connected[n][m] + 1
           vote == rounds[m].sent[k]
           rs2 == CheckRoundVotes(rs, m, vote)
<1>1. /\ rounds \in [Node -> RoundsType] /\ RoundsOK(rounds[m]) /\ RoundsOK(rounds[n])
      /\ connected \in [Node -> [Node -> 0 .. MaxRound]]
  BY DEF VotingInvariant, RoundsTypeOK
<1>2. /\ k <= Len(rounds[m].sent)
      /\ rounds' = [rounds EXCEPT ![n] = rs2]
      /\ connected' = [connected EXCEPT ![n][m] = k]
  BY DEF FileVote
<1>3. /\ rounds[m].sent \in Seq([round : Round, pattern : Pattern, known : SUBSET Node])
      /\ rounds[m].decided \in 0 .. MaxRound
      /\ Len(rounds[m].sent) = rounds[m].decided
      /\ k \in 1 .. rounds[m].decided
  <2>1. connected[n][m] \in 0 .. MaxRound
    BY <1>1
  <2>2. /\ rounds[m].sent \in Seq([round : Round, pattern : Pattern, known : SUBSET Node])
        /\ rounds[m].decided \in 0 .. MaxRound
    BY <1>1 DEF RoundsType
  <2>3. Len(rounds[m].sent) = rounds[m].decided
    BY <1>1 DEF RoundsOK, VotesOncePerRound
  <2> QED
    BY <2>1, <2>2, <2>3, <1>2, BoundAssumption
<1>4. /\ vote \in [round : Round, pattern : Pattern, known : SUBSET Node]
      /\ vote.round = k /\ vote.pattern = rounds[m].valid[k]
  <2>1. vote.round = k /\ vote.pattern = rounds[m].valid[k]
    BY <1>1, <1>3 DEF RoundsOK, VotesOncePerRound
  <2>2. k \in 1 .. Len(rounds[m].sent)
    BY <1>3
  <2> HIDE DEF k
  <2>3. ASSUME NEW S, NEW s \in Seq(S), NEW i \in 1 .. Len(s) PROVE s[i] \in S
    OBVIOUS
  <2>4. vote \in [round : Round, pattern : Pattern, known : SUBSET Node]
    BY ONLY <1>3, <2>2, <2>3
  <2> QED
    BY <2>1, <2>4
<1>5. connected' \in [Node -> [Node -> 0 .. MaxRound]]
  <2>1. k \in 0 .. MaxRound
    BY <1>3, BoundAssumption
  <2> HIDE DEF k
  <2> QED
    BY <1>1, <1>2, <2>1
<1> HIDE DEF k, vote
<1>6. /\ RoundsOK(rs2) /\ Extends(rs, rs2)
      /\ \A r \in Round, q \in Node :
            \/ rs2.votes[r][q] = rs.votes[r][q]
            \/ q = m /\ r = vote.round /\ rs2.votes[r][q] = vote.pattern
  BY <1>4, FileOK
<1> HIDE DEF rs2
<1>7. Extends(rounds[n], rs2)
  <2>1. rounds[n].decided \in Nat /\ rs.decided \in Nat /\ rs2.decided \in Nat
    BY <1>1, <1>6, BoundAssumption DEF RoundsOK, RoundsType
  <2> QED
    BY <1>6, <2>1 DEF Extends
<1>8. \A r \in Round, q \in Node :
          \/ rs2.votes[r][q] = rounds[n].votes[r][q]
          \/ r <= rounds[q].decided /\ rs2.votes[r][q] = rounds[q].valid[r]
  BY <1>3, <1>4, <1>6
<1> QED
  BY <1>2, <1>5, <1>6, <1>7, <1>8, StepOK

\* Every step of every node keeps the invariant.
LEMMA NextOK == VotingInvariant /\ [Next]_vars => VotingInvariant'
<1> SUFFICES ASSUME VotingInvariant, [Next]_vars PROVE VotingInvariant'
  OBVIOUS
<1>1. /\ connected \in [Node -> [Node -> 0 .. MaxRound]]
      /\ rounds \in [Node -> RoundsType]
      /\ \A n \in Node : RoundsOK(rounds[n])
  BY DEF VotingInvariant, RoundsTypeOK
<1>2. ASSUME NEW n \in Node, NEW r \in Round, NEW K \in First, ConnectFirst(n, r, K)
      PROVE  VotingInvariant'
  <2> DEFINE rs == [rounds[n] EXCEPT !.witnesses[r] = K]
  <2>1. K \in SUBSET Node /\ K # {}
    <3>1. ~IsMajority(Cardinality({}))
      BY NodeSets, FS_EmptySet DEF IsMajority
    <3> QED
      BY <3>1, FirstAssumption
  <2>2. r >= rounds[n].toCollect
    <3>1. RoundsOK(rounds[n]) /\ rounds[n].witnesses[r] = {}
      BY <1>1, <1>2 DEF ConnectFirst
    <3>2. /\ rounds[n].decided \in Nat /\ rounds[n].toCollect \in Nat
          /\ rounds[n].toCollect <= rounds[n].decided + 1
          /\ r \notin 1 .. rounds[n].decided
      BY <3>1, BoundAssumption DEF RoundsOK, RoundsType, VotesOncePerRound
    <3> QED
      BY <3>2, BoundAssumption DEF Round
  <2>3. RoundsOK(rs) /\ Extends(rounds[n], rs) /\ rs.votes = rounds[n].votes
    BY <1>1, <2>1, <2>2, WitnessesOK
  <2>4. rounds' = [rounds EXCEPT ![n] = rs] /\ connected' = connected
    BY <1>2 DEF ConnectFirst
  <2> HIDE DEF rs
  <2> QED
    BY <1>1, <2>3, <2>4, StepOK
<1>3. ASSUME NEW n \in Node, NEW m \in Node, NEW r \in 0 .. MaxRound,
             NEW v \in Found \cup {Nothing}, ConnectWitness(n, m, r, v)
      PROVE  VotingInvariant'
  <2> DEFINE rs == HandleWitness(rounds[n], m, r, v)
  <2>1. RoundsOK(rs) /\ Extends(rounds[n], rs) /\ rs.votes = rounds[n].votes
    BY <1>1, HandleOK
  <2>2. rounds' = [rounds EXCEPT ![n] = rs] /\ connected' = connected
    BY <1>3 DEF ConnectWitness
  <2> HIDE DEF rs
  <2> QED
    BY <1>1, <2>1, <2>2, StepOK
<1>4. ASSUME NEW n \in Node, NEW m \in Node, ConnectVote(n, m)
      PROVE  VotingInvariant'
  <2>1. Extends(rounds[n], rounds[n])
    <3>1. rounds[n].decided \in Int
      BY <1>1 DEF RoundsType
    <3> QED
      BY <3>1 DEF Extends
  <2> QED
    BY <1>1, <1>4, <2>1, FileVoteOK DEF ConnectVote
<1>5. ASSUME NEW n \in Node, NEW m \in Node, NEW r \in 0 .. MaxRound,
             NEW v \in Found \cup {Nothing}, ConnectWitnessVote(n, m, r, v)
      PROVE  VotingInvariant'
  <2> DEFINE rs == HandleWitness(rounds[n], m, r, v)
  <2>1. RoundsOK(rs) /\ Extends(rounds[n], rs) /\ rs.votes = rounds[n].votes
    BY <1>1, HandleOK
  <2>2. FileVote(n, m, rs)
    BY <1>5 DEF ConnectWitnessVote
  <2> HIDE DEF rs
  <2> QED
    BY <2>1, <2>2, FileVoteOK
<1>6. CASE UNCHANGED vars
  BY <1>6 DEF vars, VotingInvariant, RoundsTypeOK, VotesGenuine
<1> QED
  BY <1>2, <1>3, <1>4, <1>5, <1>6 DEF Next

\* The bookkeeping of checkDecideRound, roundVote, checkToCollectRound and
\* checkRoundVotes stays consistent, within a node and between nodes.
THEOREM VotingInvariantHolds == Spec => []VotingInvariant
BY InitOK, NextOK, PTL DEF Spec

--------------------------------------------------------------------------------
(***************************************************************************)
(* What the vote achieves.                                                 *)
(***************************************************************************)
\* What two nodes have on file from a third is the same pattern.
LEMMA OneVote ==
    ASSUME VotingInvariant, NEW n \in Node, NEW m \in Node, NEW q \in Node,
           NEW r \in Round, NEW P \in Pattern, NEW Q \in Pattern,
           rounds[n].votes[r][q] = P, rounds[m].votes[r][q] = Q
    PROVE  P = Q
<1>1. P # Nothing /\ Q # Nothing
  BY NodeAssumption DEF Pattern
<1> QED
  BY <1>1 DEF VotingInvariant, VotesGenuine

\* What an epoch tells: its pattern has a majority of the votes on file.
LEMMA EpochVotes ==
    ASSUME VotingInvariant, NEW n \in Node, NEW r \in Round,
           rounds[n].epochs[r] # Nothing
    PROVE  /\ rounds[n].epochs[r] \in Pattern
           /\ rounds[n].epochs[r] = rounds[n].valid[r]
           /\ IsMajority(Cardinality(rounds[n].valid[r]))
           /\ IsMajority(Cardinality(VotersOf(rounds[n], r, rounds[n].epochs[r])))
<1>1. rounds[n] \in RoundsType /\ EpochIsWon(rounds[n], r)
  BY DEF VotingInvariant, RoundsOK
<1>2. rounds[n].epochs[r] \in {Nothing} \cup Pattern
  BY <1>1 DEF RoundsType
<1> QED
  BY <1>1, <1>2 DEF EpochIsWon, OwnPatternWins

\* Two epochs of a round are won by majorities, and no node votes twice.
LEMMA AgreementFollows == VotingInvariant => EpochsAgree
<1> SUFFICES ASSUME VotingInvariant, NEW n \in Node, NEW m \in Node, NEW r \in Round,
                    rounds[n].epochs[r] # Nothing, rounds[m].epochs[r] # Nothing
             PROVE  rounds[n].epochs[r] = rounds[m].epochs[r]
  BY DEF EpochsAgree
<1> DEFINE P == rounds[n].epochs[r]
           Q == rounds[m].epochs[r]
           A == VotersOf(rounds[n], r, P)
           B == VotersOf(rounds[m], r, Q)
<1>1. /\ P \in Pattern /\ Q \in Pattern
      /\ IsMajority(Cardinality(A)) /\ IsMajority(Cardinality(B))
  BY EpochVotes
<1>2. A \in SUBSET Node /\ B \in SUBSET Node
  BY DEF VotersOf
<1>3. PICK q \in Node : q \in A /\ q \in B
  <2> HIDE DEF A, B
  <2> QED
    BY <1>1, <1>2, MajoritiesIntersect
<1>4. rounds[n].votes[r][q] = P /\ rounds[m].votes[r][q] = Q
  BY <1>3 DEF VotersOf
<1> HIDE DEF P, Q
<1>5. P = Q
  BY <1>1, <1>4, OneVote
<1> QED
  BY <1>5 DEF P, Q

\* No two nodes make different epochs of a round (checkToCollectRound).
THEOREM EpochsOfARoundAgree == Spec => []EpochsAgree
BY VotingInvariantHolds, AgreementFollows, PTL

\* If n passed over a round of which it knew all witnesses, the pattern it had did
\* not win at m either.
LEMMA GivingUpFollows == VotingInvariant => GivesUpSoundly
<1> SUFFICES ASSUME VotingInvariant, NEW n \in Node, NEW m \in Node, NEW r \in Round,
                    r < rounds[n].toCollect, rounds[n].epochs[r] = Nothing,
                    rounds[n].witnesses[r] = Node,
                    rounds[m].epochs[r] # Nothing,
                    rounds[m].epochs[r] = rounds[n].valid[r]
             PROVE  FALSE
  BY DEF GivesUpSoundly
<1> DEFINE P == rounds[n].valid[r]
           A == VotersOf(rounds[m], r, P)
           B == VotersOf(rounds[n], r, P)
           V == Voted(rounds[n], r)
<1>1. /\ P \in Pattern /\ IsMajority(Cardinality(P)) /\ IsMajority(Cardinality(A))
  BY EpochVotes
<1>2. A \in SUBSET Node /\ B \in SUBSET Node /\ V \in SUBSET Node
  BY DEF VotersOf, Voted
<1>3. ~IsMajority(Cardinality(B)) /\ IsDecided(rounds[n], r)
  <2>1. PassedForAReason(rounds[n], r)
    BY DEF VotingInvariant, RoundsOK
  <2> QED
    BY <1>1, <2>1 DEF PassedForAReason, OwnPatternWins
<1>4. PICK p \in VotedFor(rounds[n], r) :
        LET lead == Cardinality(VotersOf(rounds[n], r, p))
            most == lead + Cardinality(rounds[n].witnesses[r]) - Cardinality(V)
        IN  /\ \A q \in VotedFor(rounds[n], r) :
                  Cardinality(VotersOf(rounds[n], r, q)) <= lead
            /\ IsMajority(lead) \/ ~(most < 0 \/ IsMajority(most))
  BY <1>3 DEF IsDecided
<1> DEFINE L == VotersOf(rounds[n], r, p)
<1>5. L \in SUBSET Node
  BY DEF VotersOf
<1>6. p \in Pattern
  <2>1. rounds[n] \in RoundsType
    BY DEF VotingInvariant, RoundsTypeOK
  <2> QED
    BY <2>1 DEF VotedFor, Voted, RoundsType
<1>7. ~IsMajority(Cardinality(L))
  <2> SUFFICES ASSUME IsMajority(Cardinality(L)) PROVE FALSE
    OBVIOUS
  <2>1. PICK q \in Node : q \in A /\ q \in L
    <3> HIDE DEF A, L
    <3> QED
      BY <1>1, <1>2, <1>5, MajoritiesIntersect
  <2>2. rounds[m].votes[r][q] = P /\ rounds[n].votes[r][q] = p
    BY <2>1 DEF VotersOf
  <2>3. P = p
    <3> HIDE DEF P
    <3> QED
      BY <1>1, <1>6, <2>2, OneVote
  <2> QED
    BY <1>3, <2>3
<1>8. Cardinality(B) <= Cardinality(L)
  <2>1. CASE P \in VotedFor(rounds[n], r)
    BY <1>4, <2>1
  <2>2. CASE P \notin VotedFor(rounds[n], r)
    <3>1. P # Nothing
      BY <1>1, NodeAssumption DEF Pattern
    <3>2. B = {}
      BY <2>2, <3>1 DEF VotersOf, VotedFor, Voted
    <3> QED
      BY <1>5, <3>2, NodeSets, FS_EmptySet
  <2> QED
    BY <2>1, <2>2
<1>9. \A q \in A : q \in V => q \in B
  <2> TAKE q \in A
  <2> HAVE q \in V
  <2> DEFINE Q == rounds[n].votes[r][q]
  <2>1. q \in Node /\ rounds[m].votes[r][q] = P /\ Q # Nothing
    BY DEF VotersOf, Voted
  <2>2. Q \in Pattern
    <3>1. rounds[n] \in RoundsType
      BY DEF VotingInvariant, RoundsTypeOK
    <3> QED
      BY <2>1, <3>1 DEF RoundsType
  <2>3. Q = P
    <3> HIDE DEF P, Q
    <3>1. rounds[n].votes[r][q] = Q
      BY DEF Q
    <3> QED
      BY <1>1, <2>1, <2>2, <3>1, OneVote
  <2> QED
    BY <2>1, <2>3 DEF VotersOf
<1>10. /\ Cardinality(A) \in Nat /\ Cardinality(B) \in Nat /\ Cardinality(L) \in Nat
       /\ Cardinality(V) \in Nat /\ Cardinality(Node) \in Nat
  <2>1. Node \in SUBSET Node
    OBVIOUS
  <2> HIDE DEF A, B, L, V
  <2> QED
    BY <1>2, <1>5, <2>1, NodeSets
<1>11. Cardinality(A) <= Cardinality(B) + Cardinality(Node) - Cardinality(V)
  <2> HIDE DEF A, B, V
  <2> QED
    BY <1>2, <1>9, MissingVotes
<1>12. ~IsMajority(Cardinality(L) + Cardinality(Node) - Cardinality(V))
  BY <1>4, <1>7
<1> HIDE DEF A, B, L, V
<1> QED
  BY <1>1, <1>8, <1>10, <1>11, <1>12 DEF IsMajority

\* A node that knows all witnesses of a round never gives up on a pattern that wins
\* elsewhere (isDecided), however the votes arrive.
THEOREM NobodyGivesUpTooEarly == Spec => []GivesUpSoundly
BY VotingInvariantHolds, GivingUpFollows, PTL
================================================================================
