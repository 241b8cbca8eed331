------------------------------ MODULE RoundVoting ------------------------------
(***************************************************************************)
(* How the nodes of the hashgraph vote on which round becomes an epoch     *)
(* (Round.d, called from Event.connect).                                   *)
(*                                                                         *)
(* When a node sees that a round is completed it fixes the valid witnesses *)
(* of the round, once, and sends its pattern (a hash over the valid        *)
(* witnesses) to all nodes in the payload of one of its next events.  The  *)
(* node then goes through the decided rounds in order: the round is        *)
(* collected, and becomes an epoch, when a majority voted for the node's   *)
(* own pattern, and passed over when that can no longer happen.            *)
(*                                                                         *)
(* Simplifications:                                                        *)
(*  - a pattern is the set of valid witnesses it hashes: the witness of a  *)
(*    node in a round is the same event everywhere;                        *)
(*  - which witnesses a node finds valid when it completes a round, that   *)
(*    is Round.completed, is any member of Found that it knows: it depends *)
(*    on the events it has received, and two nodes may find different ones;*)
(*  - the first majority of the witnesses of a round arrives at once,      *)
(*    nothing reads fewer; those that come later do one by one, until the  *)
(*    round is past and nothing reads them;                                *)
(*  - the round after a decided round exists (completed needs it), so that *)
(*    _round_to_be_collected is null only before the first decision;       *)
(*  - events of a node are connected in the order it made them, at every   *)
(*    node, and after all events that it knew when it made it (its         *)
(*    ancestors), which is when the vote in it is filed;                   *)
(*  - Bounds: rounds are followed up to MaxRound; a node that is not in    *)
(*    Collector is followed until it has voted on them.                    *)
(***************************************************************************)
EXTENDS Integers, Sequences, FiniteSets

CONSTANTS
    Node,           \* the nodes of the graph
    MaxRound,       \* bound: the rounds that are followed
    Collector,      \* bound: the nodes whose collecting is followed
    First,          \* the first majorities of witnesses that a node may get
    Found,          \* the sets of valid witnesses that completed may find
    VotesWait,      \* a vote is connected after the receiver's own first vote
    Nothing         \* null

Round == 1 .. MaxRound

\* HashGraphBasic.isMajority
IsMajority(votes) == 3 * votes > 2 * Cardinality(Node)

ASSUME NodeAssumption == IsFiniteSet(Node) /\ \A P \in SUBSET Node : P # Nothing
ASSUME BoundAssumption == MaxRound \in Nat /\ Collector \subseteq Node
ASSUME FirstAssumption ==
    First \subseteq SUBSET Node /\ \A K \in First : IsMajority(Cardinality(K))
ASSUME FoundAssumption == Found \subseteq SUBSET Node

VARIABLES
    rounds,     \* per node: its rounds, votes and epochs
    connected   \* per node and sender: how many votes of the sender it has
                \* connected

vars == <<rounds, connected>>

Pattern == SUBSET Node

\* No round is decided yet.
NoRounds ==
    [decided   |-> 0,                       \* number of _last_decided_round
     sent      |-> <<>>,                    \* the votes put in the payload queue
     toCollect |-> 0,                       \* _round_to_be_collected, 0 for null
     witnesses |-> [r \in Round |-> {}],    \* nodes with an event in the round
     valid     |-> [r \in Round |-> Nothing],   \* _valid_witness
     votes     |-> [r \in Round |-> [m \in Node |-> Nothing]],  \* _round_votes
     epochs    |-> [r \in Round |-> Nothing]]   \* the rounds collected, as what

(***************************************************************************)
(* The steps of the handler, on the rounds rs of one node.                 *)
(***************************************************************************)
\* setNode adds a new witness of m to its round.
AddWitness(rs, m, r) ==
    IF r \in Round /\ r >= rs.toCollect /\ rs.witnesses[r] # {}
    THEN [rs EXCEPT !.witnesses[r] = @ \cup {m}]
    ELSE rs

\* The next round is completed, with the witnesses of v valid.
Completed(rs, v) ==
    LET r == rs.decided + 1 IN
        /\ r \in Round
        /\ IsMajority(Cardinality(rs.witnesses[r]))
        /\ v # Nothing /\ v \subseteq rs.witnesses[r]

\* The next round is decided if it is completed.
CheckDecideRound(rs, v) ==
    IF Completed(rs, v)
    THEN [rs EXCEPT !.decided = @ + 1, !.valid[rs.decided + 1] = v]
    ELSE rs

\* A decided round is voted on, once.  What is known of it then are ancestors of
\* the event that carries the vote.
RoundVote(rs) ==
    LET r == rs.decided
        vote == [round |-> r, pattern |-> rs.valid[r], known |-> rs.witnesses[r]]
    IN  IF Len(rs.sent) = r THEN rs
        ELSE [rs EXCEPT !.sent = Append(@, vote),
                        !.toCollect = IF @ = 0 THEN r ELSE @]

Voted(rs, r) == {m \in Node : rs.votes[r][m] # Nothing}

VotersOf(rs, r, p) == {m \in Node : rs.votes[r][m] = p}

VotedFor(rs, r) == {rs.votes[r][m] : m \in Voted(rs, r)}

\* Seeded fault: the votes that are missing are not counted.
IsDecidedByTurnout(rs, r) == IsMajority(Cardinality(Voted(rs, r)))

\* Seeded fault: only a winner decides.
IsDecidedByWinner(rs, r) ==
    \E p \in VotedFor(rs, r) : IsMajority(Cardinality(VotersOf(rs, r, p)))

\* Some pattern leads, and has a majority or cannot get one from the witnesses
\* whose vote is missing.  The difference is unsigned in the code: a negative
\* one counts as a majority.
IsDecided(rs, r) ==
    \E p \in VotedFor(rs, r) :
        LET lead == Cardinality(VotersOf(rs, r, p))
            most == lead + Cardinality(rs.witnesses[r]) - Cardinality(Voted(rs, r))
        IN  /\ \A q \in VotedFor(rs, r) : Cardinality(VotersOf(rs, r, q)) <= lead
            /\ IsMajority(lead) \/ ~(most < 0 \/ IsMajority(most))

\* Seeded fault: votes are counted whatever their pattern.
AnyPatternWins(rs, r) == IsMajority(Cardinality(Voted(rs, r)))

OwnPatternWins(rs, r) == IsMajority(Cardinality(VotersOf(rs, r, rs.valid[r])))

\* The round to be collected is done with.
IsPast(rs) ==
    LET r == rs.toCollect IN
        /\ r # 0
        /\ r <= rs.decided
        /\ rs.valid[r] \cap Voted(rs, r) # {}
        /\ OwnPatternWins(rs, r) \/ IsDecided(rs, r)

\* Seeded fault: a decided round is collected also when another pattern won.
CollectDecidedRound(rs) ==
    LET r == rs.toCollect IN
    IF ~IsPast(rs) THEN rs
    ELSE [rs EXCEPT !.toCollect = r + 1, !.epochs[r] = rs.valid[r]]

CheckToCollectRound(rs) ==
    LET r == rs.toCollect
        collects == /\ OwnPatternWins(rs, r)
                    /\ IsMajority(Cardinality(rs.valid[r]))
    IN  IF ~IsPast(rs) THEN rs
        ELSE [rs EXCEPT
                !.toCollect = r + 1,
                !.epochs[r] = IF collects THEN rs.valid[r] ELSE Nothing]

\* A vote of m is filed if its round is not past, and m has none there.
CheckRoundVotes(rs, m, vote) ==
    IF \/ rs.toCollect = 0
       \/ vote.round < rs.toCollect
       \/ rs.votes[vote.round][m] # Nothing
    THEN rs
    ELSE [rs EXCEPT !.votes[vote.round][m] = vote.pattern]

\* What a new witness of m, in round r, triggers.
HandleWitness(rs, m, r, v) ==
    CheckToCollectRound(RoundVote(CheckDecideRound(AddWitness(rs, m, r), v)))

--------------------------------------------------------------------------------
Init ==
    /\ rounds = [n \in Node |-> NoRounds]
    /\ connected = [n \in Node |-> [m \in Node |-> 0]]

\* The first majority of the witnesses of round r has been connected at n.
ConnectFirst(n, r, K) ==
    /\ rounds[n].witnesses[r] = {}
    /\ rounds' = [rounds EXCEPT ![n].witnesses[r] = K]
    /\ UNCHANGED connected

\* n files the next vote of m, which it has not connected, when its rounds are rs.
FileVote(n, m, rs) ==
    LET k == connected[n][m] + 1
        vote == rounds[m].sent[k]
    IN  /\ n \in Collector
        /\ k <= Len(rounds[m].sent)
        /\ vote.round >= rs.toCollect => vote.known \subseteq rs.witnesses[vote.round]
        /\ VotesWait => rs.toCollect # 0
        /\ rounds' = [rounds EXCEPT ![n] = CheckRoundVotes(rs, m, vote)]
        /\ connected' = [connected EXCEPT ![n][m] = k]

\* An event of m that is strongly seen becomes the witness of m in round r.
BecomesWitness(n, m, r, v) ==
    /\ n \in Collector \/ rounds[n].decided < MaxRound
    /\ r \in Round => m \notin rounds[n].witnesses[r]
    /\ v # Nothing => Completed(AddWitness(rounds[n], m, r), v)

\* n connects an event of m: a witness in round r, a carrier of a vote, or both.
\* The vote is filed last.
ConnectWitness(n, m, r, v) ==
    /\ BecomesWitness(n, m, r, v)
    /\ rounds' = [rounds EXCEPT ![n] = HandleWitness(@, m, r, v)]
    /\ UNCHANGED connected

ConnectVote(n, m) == FileVote(n, m, rounds[n])

ConnectWitnessVote(n, m, r, v) ==
    /\ BecomesWitness(n, m, r, v)
    /\ FileVote(n, m, HandleWitness(rounds[n], m, r, v))

\* The witness of an event may be in a round that is not followed, here 0.
Next ==
    \E n, m \in Node :
        \/ \E r \in Round, K \in First : ConnectFirst(n, r, K)
        \/ ConnectVote(n, m)
        \/ \E r \in 0 .. MaxRound, v \in Found \cup {Nothing} :
              \/ ConnectWitness(n, m, r, v)
              \/ ConnectWitnessVote(n, m, r, v)

Spec == Init /\ [][Next]_vars

(***************************************************************************)
(* The nodes go on gossiping: a round gets its first witnesses and is      *)
(* completed, new events become witnesses, and what one node knows and     *)
(* votes arrives at the others.  No witness needs to appear that no node   *)
(* knows.                                                                  *)
(***************************************************************************)
Gossip(n) ==
    \/ \E r \in Round, K \in First : ConnectFirst(n, r, K)
    \/ \E v \in Found \cup {Nothing} : ConnectWitness(n, n, 0, v)
    \/ \E m \in Node, r \in Round :
           /\ \E q \in Node : m \in rounds[q].witnesses[r]
           /\ ConnectWitness(n, m, r, Nothing)
    \/ \E m \in Node : ConnectVote(n, m)

Fairness == \A n \in Node : WF_vars(Gossip(n))

FairSpec == Spec /\ Fairness

--------------------------------------------------------------------------------
(***************************************************************************)
(* Properties                                                              *)
(***************************************************************************)
\* The rounds of a node have the types of the fields of Round and HashGraph.
RoundsType ==
    [decided   : 0 .. MaxRound,
     sent      : Seq([round : Round, pattern : Pattern, known : SUBSET Node]),
     toCollect : 0 .. MaxRound + 1,
     witnesses : [Round -> SUBSET Node],
     valid     : [Round -> {Nothing} \cup Pattern],
     votes     : [Round -> [Node -> {Nothing} \cup Pattern]],
     epochs    : [Round -> {Nothing} \cup Pattern]]

\* The types of the variables.
RoundsTypeOK ==
    /\ rounds \in [Node -> RoundsType]
    /\ connected \in [Node -> [Node -> 0 .. MaxRound]]

\* Two nodes that make an epoch of the same round make it from the same valid
\* witnesses, whatever each of them found when it completed the round: this is
\* what the vote in checkToCollectRound is for.
EpochsAgree ==
    \A n, m \in Node, r \in Round :
        rounds[n].epochs[r] # Nothing /\ rounds[m].epochs[r] # Nothing
            => rounds[n].epochs[r] = rounds[m].epochs[r]

\* A node gives up on a round only when it must: if it knows the witnesses of all
\* nodes in a round and passes over it (isDecided), no node makes an epoch of
\* that round from the pattern it had, not even on votes this node never saw.
GivesUpSoundly ==
    \A n, m \in Node, r \in Round :
        /\ 0 < rounds[n].toCollect /\ r < rounds[n].toCollect
        /\ rounds[n].epochs[r] = Nothing
        /\ rounds[n].witnesses[r] = Node
        => rounds[m].epochs[r] = Nothing \/ rounds[m].epochs[r] # rounds[n].valid[r]

\* A node that has decided a round gets past it, whether the votes agree or not:
\* the round to be collected never blocks the later ones for ever.
RoundsGetPast ==
    \A n \in Collector, r \in Round :
        rounds[n].decided >= r ~> rounds[n].toCollect > r

\* "Each node will produce the same epoch": a round that one node made an epoch of
\* is not passed over by another (docs/tech/Protocols/Consensus/Epoch.md).
EpochsOnEveryNode ==
    \A n, m \in Node, r \in Round :
        rounds[n].epochs[r] # Nothing /\ rounds[m].toCollect > r
            => rounds[m].epochs[r] # Nothing
================================================================================
