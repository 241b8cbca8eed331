---------------------------- MODULE EpochPipeline ----------------------------
(***************************************************************************)
(* The epoch pipeline of a whole network: the services of every node, the  *)
(* hashgraph that hands the same epochs to all of them, each with the      *)
(* witnesses that the node has, and carries their votes, the TVM, the      *)
(* operator and the supervisor.                                            *)
(*                                                                         *)
(* Nothing in the code paces the hashgraph to the services behind the      *)
(* transcript. The constants MaxInFlight and ProductsInTime say what is    *)
(* assumed of the timing; the theorems assume nothing.                     *)
(***************************************************************************)
EXTENDS TranscriptService, StorageServices

CONSTANTS
    MaxEpoch,        \* bound: epochs the hashgraph produces
    MaxInFlight,     \* epochs the transcript has taken and not got the bullseye of, at most
    ProductsInTime   \* whether every product comes before the epoch of its contract

ASSUME BoundAssumption ==
    MaxEpoch \in Nat /\ MaxInFlight \in Nat \ {0} /\ ProductsInTime \in BOOLEAN

CarriedContracts ==
    UNION {{consensus[i].contracts[j] : j \in DOMAIN consensus[i].contracts} :
           i \in DOMAIN consensus}

CarriedVotes == UNION {consensus[i].votes : i \in DOMAIN consensus}

Orders(S) == {s \in [1..Cardinality(S) -> S] : {s[i] : i \in DOMAIN s} = S}

(***************************************************************************)
(* The hashgraph decides the next epoch: some of the contracts and votes   *)
(* that are on their way, in an order that is the same for all nodes. The  *)
(* witnesses are not: finishedEpoch hands on every witness that the node   *)
(* has of the round when it collects it, and a late one may not be there.  *)
(***************************************************************************)
decideEpoch ==
    /\ Len(consensus) < MaxEpoch
    /\ \E S \in SUBSET (Contract \ CarriedContracts) :
       \E cs \in Orders(S) :
       \E ballot \in SUBSET (ballots \ CarriedVotes) :
       \E w \in Witnesses :
           consensus' = Append(consensus, [contracts |-> cs, votes |-> ballot,
                                           witnesses |-> w])
    /\ UNCHANGED <<ballots, produced, running, shutdown, last_epoch_number, votingVars,
                   executionVars, boxVars, storageVars>>

Ids(s) == {s[i].id : i \in DOMAIN s}

ChecksIn(s) == {i \in DOMAIN s : s[i].method = "checkRead"}

CheckIds(s) == {s[i].id : i \in ChecksIn(s)}

CommittingIds(n) == IF committing[n] = None THEN {} ELSE {committing[n].id}

\* The epochs of a node between the hashgraph and the bullseye, of which a message is on
\* its way.
InFlight(n) ==
    CheckIds(dart_box[n]) \cup Ids(checked[n]) \cup Ids(commits[n]) \cup CommittingIds(n)
        \cup Ids(bullseyes[n])

Timely(n) ==
    LET id == last_epoch_number[n] + 1
    IN  /\ Cardinality(InFlight(n)) < MaxInFlight
        /\ ProductsInTime /\ id \in DOMAIN consensus =>
               \A j \in DOMAIN consensus[id].contracts :
                   consensus[id].contracts[j] \in produced[n]

\* The operator schedules the shutdown once, and ahead of the network.
scheduleShutdown(n) ==
    \E s \in ShutdownEpoch :
        /\ shutdown[n] = 0
        /\ Len(consensus) < s
        /\ epoch_shutdown(n, s)

(***************************************************************************)
(* Sig.STOP has priority: what is in the mailboxes of the services when    *)
(* the supervisor stops them is never handled.                             *)
(***************************************************************************)
stopServices(n) ==
    /\ running[n] = "stopping"
    /\ running' = [running EXCEPT ![n] = "down"]
    /\ UNCHANGED <<networkVars, shutdown, last_epoch_number, votingVars, executionVars,
                   boxVars, storageVars>>

\* What each actor of a node does with the message it takes from its mailbox.
Transcript(n) == (epoch(n) /\ Timely(n)) \/ receiveChecked(n) \/ receiveBullseye(n)
DARTService(n) == checkRead(n) \/ modifyDART(n)
TVM(n) == \E c \in Contract : produceContract(n, c)

Next ==
    \/ decideEpoch
    \/ \E n \in Node :
        \/ Transcript(n)
        \/ epoch_commit(n)
        \/ DARTService(n)
        \/ receiveRecorder(n)
        \/ TVM(n)
        \/ stopServices(n)
        \/ scheduleShutdown(n)

Spec == Init /\ [][Next]_vars

(***************************************************************************)
(* An actor handles the messages in its mailbox, and the TVM executes the  *)
(* contracts it is given. That the hashgraph decides another epoch and     *)
(* that the operator schedules a shutdown is not assumed.                  *)
(***************************************************************************)
Fairness ==
    \A n \in Node :
        /\ WF_vars(Transcript(n))
        /\ WF_vars(epoch_commit(n))
        /\ WF_vars(DARTService(n))
        /\ WF_vars(receiveRecorder(n))
        /\ WF_vars(TVM(n))

FairSpec == Spec /\ Fairness

-----------------------------------------------------------------------------
(***************************************************************************)
(* Properties                                                              *)
(***************************************************************************)
Quiescent(n) ==
    /\ dart_box[n] = <<>> /\ checked[n] = <<>>
    /\ commits[n] = <<>> /\ bullseyes[n] = <<>>
    /\ committing[n] = None

\* Every recorder the transcript of node n made is stored and replicated.
Stored(n) == commits[n] = <<>> /\ committing[n] = None

EpochNumber == 1..MaxEpoch

(***************************************************************************)
(* The variables have the types of the program's fields and messages, a    *)
(* node keeps state only for epochs it has taken from the hashgraph, and a *)
(* vote is filed under the epoch it is for.                                *)
(***************************************************************************)
NodeTypeOK(n) ==
    /\ last_epoch_number[n] <= Len(consensus)
    /\ last_consensus_epoch[n] <= last_epoch_number[n]
    /\ DOMAIN votes[n] \subseteq 1..last_epoch_number[n]
    /\ votes[n] \in [DOMAIN votes[n] -> Votes]
    /\ \A e \in DOMAIN votes[n] : votes[n][e].votes \subseteq {v \in ballots : v.epoch = e}
    /\ DOMAIN epoch_contracts[n] \subseteq 1..last_epoch_number[n]
    /\ epoch_contracts[n] \in [DOMAIN epoch_contracts[n] -> EpochContracts]
    /\ committing[n] # None => committing[n] \in Committing

TypeOK ==
    /\ consensus \in Seq(ConsensusEpoch)
    /\ ballots \subseteq ConsensusVoting
    /\ \A i \in DOMAIN consensus : consensus[i].votes \subseteq ballots
    /\ produced \in [Node -> SUBSET Contract]
    /\ running \in [Node -> {"up", "stopping", "down"}]
    /\ shutdown \in [Node -> ShutdownEpoch \cup {0}]
    /\ last_epoch_number \in [Node -> Nat]
    /\ last_consensus_epoch \in [Node -> Nat]
    /\ previous_epoch \in [Node -> Seq(Epoch)]
    /\ products \in [Node -> SUBSET Contract]
    /\ last_globals \in [Node -> Int]
    /\ dart_box \in [Node -> Seq(DARTRequest)]
    /\ checked \in [Node -> Seq(CheckResponse)]
    /\ commits \in [Node -> Seq(CommitRequest)]
    /\ bullseyes \in [Node -> Seq(CommitResponse)]
    /\ dart \in [Node -> Content]
    /\ last_block \in [Node -> Seq(RecorderBlock)]
    /\ DOMAIN votes = Node /\ DOMAIN epoch_contracts = Node /\ DOMAIN committing = Node
    /\ \A n \in Node : NodeTypeOK(n)

(***************************************************************************)
(* Two nodes never finish the same epoch with different bullseyes, and no  *)
(* node takes a finished epoch back: the pipeline implements EpochChain.   *)
(* Every node signs one bullseye per epoch (receiveBullseye) and an epoch  *)
(* is finished only with the signature of every node on the bullseye that  *)
(* the node itself has computed (createRecorder).                          *)
(***************************************************************************)
chainBar ==
    [n \in Node |-> [i \in DOMAIN previous_epoch[n] |-> previous_epoch[n][i].bullseye]]

Chain == INSTANCE EpochChain WITH chain <- chainBar

ChainSpec == Chain!Spec

(***************************************************************************)
(* The invariant part of the same promise: finished epochs of two nodes    *)
(* have the same bullseye.                                                 *)
(***************************************************************************)
ChainAgreement ==
    \A n, m \in Node : Chain!Compatible(chainBar[n], chainBar[m])

(***************************************************************************)
(* The log of the replicator is a faithful journal: replaying its          *)
(* recorders from the genesis DART gives the DART of the node, up to the   *)
(* one recorder that is stored and not yet replicated. It is what the      *)
(* nested receives of epoch_commit are for.                                *)
(***************************************************************************)
Replay(log) ==
    LET after[i \in 0..Len(log)] ==
            IF i = 0 THEN GenesisDART ELSE modify(after[i - 1], log[i].recorder)
    IN  after[Len(log)]

LogReplaysDART ==
    \A n \in Node :
        dart[n] = IF committing[n] # None /\ committing[n].at = "replicator"
                  THEN modify(Replay(last_block[n]), committing[n].recorder)
                  ELSE Replay(last_block[n])

(***************************************************************************)
(* No epoch is committed twice, whatever the order in which the answers of *)
(* the DART and the epochs of the hashgraph reach the transcript.          *)
(***************************************************************************)
CommittedOnce ==
    \A n \in Node : \A i, j \in DOMAIN last_block[n] :
        last_block[n][i].epoch = last_block[n][j].epoch => i = j

(***************************************************************************)
(* The answer of epoch_commit finds the entry in votes that it writes to:  *)
(* an index that is missing is a RangeError, which ends the thread.        *)
(***************************************************************************)
ResponseHasVote ==
    \A n \in Node : \A i \in DOMAIN bullseyes[n] :
        running[n] = "up" => bullseyes[n][i].id \in DOMAIN votes[n]

(***************************************************************************)
(* No archive is spent twice: two contracts that were executed have no     *)
(* input in common, whether one epoch executed both or two did. The used   *)
(* list of createRecorder sees one epoch, the rest depends on the answer   *)
(* of dartCheckRead.                                                       *)
(***************************************************************************)
NoDoubleSpend ==
    \A n \in Node : \A i, j \in DOMAIN last_block[n] :
        \A c \in last_block[n][i].recorder.adds, d \in last_block[n][j].recorder.adds :
            i # j \/ c # d => Inputs[c] \cap Inputs[d] = {}

\* A DART or a recorder, but for its WitnessHead.
ButWitnesses(x) == [x EXCEPT !.witnesses = {}]

LogButWitnesses(log) ==
    [i \in DOMAIN log |-> [log[i] EXCEPT !.recorder = ButWitnesses(@),
                                        !.bullseye = ButWitnesses(@)]]

(***************************************************************************)
(* The WitnessHead is all that two nodes store differently: the recorders  *)
(* in their logs and the DARTs these gave are otherwise the same, epoch by *)
(* epoch, also when the nodes have different bullseyes, so that a vote     *)
(* disagrees and one of them makes no recorder any more while others go    *)
(* on. Nothing is exchanged to make it so, it has to follow from the       *)
(* consensus order alone.                                                  *)
(***************************************************************************)
SameRecorders ==
    \A n, m \in Node :
        Chain!Compatible(LogButWitnesses(last_block[n]), LogButWitnesses(last_block[m]))

(***************************************************************************)
(* TagionGlobals counts the bills of the DART: the sum that bill_statistics *)
(* keeps by recorder is the number of bills that are there.                *)
(***************************************************************************)
GlobalsCountBills ==
    \A n \in Node : Quiescent(n) => last_globals[n] = Cardinality(dart[n].bills)

(***************************************************************************)
(* The epoch chain in the DART has no gap: up to some epoch all are stored *)
(* as finished, the others up to the head without signatures and with      *)
(* their locked archives. That epoch is the last that counts as finished,  *)
(* unless a vote disagrees: then the loop of createRecorder has thrown     *)
(* away the recorder of the epochs it finished, and the chain in the DART  *)
(* stays behind the one in memory.                                         *)
(***************************************************************************)
ChainInDART ==
    \A n \in Node : Quiescent(n) /\ shutdown[n] = 0 =>
        \E last \in 0..last_consensus_epoch[n] :
            /\ dart[n].final = 1..last
            /\ dart[n].open = (last + 1)..dart[n].head
            /\ dart[n].locked = dart[n].open
            /\ last < last_consensus_epoch[n] => Disagreeing(votes[n]) # {}

(***************************************************************************)
(* When the votes of all nodes on an epoch and on all epochs before it are *)
(* in epochs of the hashgraph and agree, every node that is up finishes    *)
(* that epoch, also when votes on a later epoch disagree and the node      *)
(* throws on them from then on. No epoch within the bound carries the      *)
(* votes on the last one, which is left out.                               *)
(***************************************************************************)
SignedAlike(e) ==
    LET on == {v \in CarriedVotes : v.epoch = e}
    IN  /\ {v.owner : v \in on} = Node
        /\ \A v, w \in on : v.bullseye = w.bullseye

SignedEpochFinishes ==
    \A n \in Node, e \in EpochNumber \ {MaxEpoch} :
        (\A k \in 1..e : SignedAlike(k))
            ~> (last_consensus_epoch[n] >= e \/ running[n] # "up")

(***************************************************************************)
(* A node whose transcript stopped and whose last recorder was stored is   *)
(* clean: the head is the scheduled epoch, the chain in the DART goes to   *)
(* it and no archive is left locked, although recorders of later epochs    *)
(* were made while the votes on the scheduled one came in.                 *)
(***************************************************************************)
CleanShutdown ==
    \A n \in Node : running[n] # "up" /\ Stored(n) =>
        /\ dart[n].head = shutdown[n]
        /\ 1..shutdown[n] \subseteq dart[n].final
        /\ dart[n].locked = {}

-----------------------------------------------------------------------------
(***************************************************************************)
(* What the documentation, a comment or a test says and the code does not  *)
(* do; each is refuted by a run of its own.                                *)
(***************************************************************************)
\* isMajority of HashGraphBasic.d.
IsMajority(voting, nodes) == 3 * voting > 2 * nodes

(***************************************************************************)
(* "If 2/3+1 of the nodes agree on the bullseye of an epoch that epoch is  *)
(* marked as finished" (EpochRules.md): a node that has got the votes of   *)
(* all nodes on the next epoch, a majority of them on its own bullseye,    *)
(* and is through with them, has finished it.                              *)
(***************************************************************************)
Agreeing(n, e) == {v \in votes[n][e].votes : v.bullseye = votes[n][e].bullseye}

MajorityFinishes ==
    \A n \in Node :
        LET next == last_consensus_epoch[n] + 1
        IN  Quiescent(n) /\ next \in DOMAIN votes[n] =>
                ~ /\ {v.owner : v \in votes[n][next].votes} = Node
                  /\ IsMajority(Cardinality(Agreeing(n, next)), Cardinality(Node))

(***************************************************************************)
(* "the network should stop at the specified epoch": the test of the       *)
(* shutdown reads that epoch from the head of the stopped nodes' DARTs.    *)
(***************************************************************************)
StopsAtShutdownEpoch ==
    \A n \in Node : running[n] = "down" => dart[n].head = shutdown[n]
===============================================================================
