---------------------------- MODULE EpochInvariant ----------------------------
(***************************************************************************)
(* The inductive invariant of EpochPipeline. An epoch passes through the   *)
(* services of a node once: it is first in the mailbox of the DART, then   *)
(* in the DART's answer, then in the mailbox of epoch_commit, then what    *)
(* epoch_commit works on, then in the log of the replicator. From there    *)
(* its bullseye goes back to the transcript, which votes for it. That a    *)
(* node votes once for an epoch rests on this.                             *)
(***************************************************************************)
EXTENDS EpochPipeline

Unique(s) == \A i, j \in DOMAIN s : s[i].id = s[j].id => i = j

UniqueChecks(s) == \A i, j \in ChecksIn(s) : s[i].id = s[j].id => i = j

LoggedEpochs(log) == {log[i].epoch : i \in DOMAIN log}

ModifiesIn(s) == {i \in DOMAIN s : s[i].method = "modify"}

UniqueEpochs(log) == \A i, j \in DOMAIN log : log[i].epoch = log[j].epoch => i = j

VotedEpochs(n) == {v.epoch : v \in {w \in ballots : w.owner = n}}

\* Every epoch is in one stage of node n at most, and there once.
InOneStage(n) ==
    LET A == CheckIds(dart_box[n])
        B == Ids(checked[n])
        C == Ids(commits[n])
        D == CommittingIds(n)
        L == LoggedEpochs(last_block[n])
        E == Ids(bullseyes[n])
        V == VotedEpochs(n)
    IN  /\ A \cup B \cup C \cup D \cup L \subseteq 1..last_epoch_number[n]
        /\ A \cap (B \cup C \cup D \cup L) = {}
        /\ B \cap (C \cup D \cup L) = {}
        /\ C \cap (D \cup L) = {}
        /\ D \cap L = {}
        /\ E \subseteq L
        /\ V \subseteq L
        /\ E \cap V = {}

OnceInStage(n) ==
    /\ UniqueChecks(dart_box[n])
    /\ Unique(checked[n])
    /\ Unique(commits[n])
    /\ Unique(bullseyes[n])
    /\ UniqueEpochs(last_block[n])

\* An epoch between the transcript and its vote has an entry that waits for the bullseye.
OpenVotes(n) ==
    running[n] = "up" =>
        \A e \in Ids(commits[n]) \cup CommittingIds(n) \cup Ids(bullseyes[n]) :
            e \in DOMAIN votes[n] /\ votes[n][e].bullseye = None

\* The DART has one recorder of epoch_commit to store at most, the one that is waited for.
StoresOne(n) ==
    /\ \A i, j \in ModifiesIn(dart_box[n]) : i = j
    /\ ModifiesIn(dart_box[n]) # {} => committing[n] # None /\ committing[n].at = "dart"

\* A node signs one bullseye for an epoch.
OneBallot ==
    \A v, w \in ballots : v.owner = w.owner /\ v.epoch = w.epoch => v = w

\* The bullseye of a finished epoch is signed by every node.
ChainSigned(n) ==
    /\ Len(previous_epoch[n]) = last_consensus_epoch[n]
    /\ \A i \in 1..last_consensus_epoch[n], m \in Node :
           \E v \in ballots : /\ v.owner = m
                              /\ v.epoch = i
                              /\ v.bullseye = previous_epoch[n][i].bullseye

NodeInvariant(n) ==
    /\ InOneStage(n)
    /\ OnceInStage(n)
    /\ OpenVotes(n)
    /\ StoresOne(n)
    /\ ChainSigned(n)

Invariant ==
    /\ TypeOK
    /\ OneBallot
    /\ \A n \in Node : NodeInvariant(n)
===============================================================================
