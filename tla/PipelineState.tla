---------------------------- MODULE PipelineState ----------------------------
(***************************************************************************)
(* The state of the epoch pipeline of a tagion network: on every node the  *)
(* TranscriptService, the EpochCommit, the DARTService and the             *)
(* ReplicatorService, each an actor (a thread with a mailbox), and between *)
(* the nodes the consensus order that the hashgraph produces.              *)
(*                                                                         *)
(* Simplifications, the same in every module that extends this one:        *)
(*  - a hash is injective: the bullseye of a DART is its content, the      *)
(*    fingerprint of a RecorderBlock is the log that ends in it, and the   *)
(*    hash of an Epoch is the chain of epochs that ends in it;             *)
(*  - a list of witness events is a value that stands for it, and a list   *)
(*    of one round is never a list of another;                             *)
(*  - a contract makes one bill, and that bill is named by the contract;   *)
(*  - an actor's mailbox is kept as one queue per kind of message. Only    *)
(*    the mailbox of the DART has two senders whose order matters, and it  *)
(*    is one queue;                                                        *)
(*  - the signature of a node on a bullseye is the pair of both, and the   *)
(*    signs of an Epoch are the owners of the votes already counted.       *)
(***************************************************************************)
EXTENDS Integers, Sequences, FiniteSets

CONSTANTS
    Node,           \* the nodes, number_of_nodes of them
    Contract,       \* the signed contracts that clients submit
    Bill,           \* the bills of the genesis DART
    Inputs,         \* Inputs[c]: the bills that contract c spends
    EarliestEpoch,  \* first epoch whose time lets the bill of c in (BUFFER_TIME_SECONDS)
    Witnesses,      \* the witness events of a round that the nodes may have when they
                    \* collect it, each w a function: w[n] is the list that node n has
    ShutdownEpoch,  \* the epochs the operator may schedule the shutdown for
    None            \* a null Fingerprint

ASSUME NodeAssumption ==
    IsFiniteSet(Node) /\ Node # {}

ASSUME ContractAssumption ==
    /\ IsFiniteSet(Contract)
    /\ IsFiniteSet(Bill)
    /\ Bill \cap Contract = {}
    /\ Inputs \in [Contract -> SUBSET (Bill \cup Contract)]
    /\ EarliestEpoch \in [Contract -> Nat]
    /\ ShutdownEpoch \subseteq Nat \ {0}

VARIABLES
    \* the network
    consensus,             \* the epochs the hashgraph produced, in order, the same on every
                           \* node but for the witnesses that the node has of the round
    ballots,               \* every ConsensusVoting that was sent as a payload
    produced,              \* the contracts whose product the TVM of a node has sent
    \* TranscriptService
    running,               \* "up", "stopping" (the transcript stopped) or "down"
    shutdown,              \* the scheduled shutdown epoch, 0 when there is none
    last_epoch_number,     \* number of the last epoch taken from the hashgraph
    last_consensus_epoch,  \* number of the last epoch every node signed
    previous_epoch,        \* hash of the last finished Epoch: the chain that ends in it
    votes,                 \* the epochs that are not finished, by number
    products,              \* the products that wait for their contract's epoch
    epoch_contracts,       \* the contracts of the epochs that wait for the DART's answer
    last_globals,          \* number_of_bills of the last TagionGlobals
    \* the mailboxes between the services of a node
    dart_box,              \* requests in the mailbox of the DART
    checked,               \* dartCheckReadRR responses on their way to the transcript
    commits,               \* EpochCommitRR requests in the mailbox of epoch_commit
    bullseyes,             \* EpochCommitRR responses on their way to the transcript
    \* EpochCommit, DARTService and ReplicatorService
    committing,            \* the request epoch_commit works on and the reply it waits for
    dart,                  \* content of the DART
    last_block             \* log of the replicator: the recorder blocks it wrote

networkVars == <<consensus, ballots, produced>>
votingVars == <<last_consensus_epoch, previous_epoch, votes>>
executionVars == <<products, epoch_contracts, last_globals>>
storageVars == <<committing, dart, last_block>>
boxVars == <<dart_box, checked, commits, bullseyes>>
vars == <<networkVars, running, shutdown, last_epoch_number, votingVars,
          executionVars, boxVars, storageVars>>

Archive == Bill \cup Contract

\* The lists of fingerprints that a node may have of a round.
Fingerprints == {w[n] : w \in Witnesses, n \in Node}

ASSUME WitnessAssumption ==
    Witnesses # {}

(***************************************************************************)
(* The values in the variables: the content of a DART, which is also its   *)
(* bullseye, a Recorder, a ConsensusVoting, a RecorderBlock, a finished    *)
(* Epoch, an entry of votes, and the messages between the services. The    *)
(* WitnessHead of a DART or Recorder is in the set witnesses, empty when   *)
(* there is none.                                                          *)
(***************************************************************************)
WitnessHead == [epoch : Nat, witnesses : Fingerprints]

Content == [head : Nat, open : SUBSET Nat, final : SUBSET Nat, locked : SUBSET Nat,
            bills : SUBSET Archive, witnesses : SUBSET WitnessHead]

Recorder == [head : Nat, open : SUBSET Nat, final : SUBSET Nat,
             adds : SUBSET Contract, removes : SUBSET Archive,
             witnesses : SUBSET WitnessHead]

ConsensusVoting == [owner : Node, epoch : Nat, bullseye : Content]

ConsensusEpoch == [contracts : Seq(Contract), votes : SUBSET ConsensusVoting,
                   witnesses : Witnesses]

RecorderBlock == [epoch : Nat, recorder : Recorder, bullseye : Content]

Epoch == [epoch : Nat, bullseye : Content, block : Seq(RecorderBlock)]

Votes == [votes : SUBSET ConsensusVoting, bullseye : Content \cup {None},
          recorder_block : Seq(RecorderBlock)]

EpochContracts == [contracts : Seq(Contract), witnesses : Fingerprints]

DARTRequest == [method : {"checkRead"}, id : Nat, inputs : SUBSET Archive]
                   \cup [method : {"modify"}, recorder : Recorder]

CheckResponse == [id : Nat, not_in_dart : SUBSET Archive]

CommitRequest == [id : Nat, recorder : Recorder]

Committing == [id : Nat, recorder : Recorder, at : {"dart", "replicator"}]

CommitResponse == [id : Nat, bullseye : Content, block : Seq(RecorderBlock)]

\* A null Fingerprint is no bullseye; None also says that epoch_commit is idle.
ASSUME NoneAssumption ==
    None \notin Content \cup Committing

(***************************************************************************)
(* What a Recorder does to the DART: it replaces the TagionHead (head, 0   *)
(* when the recorder has none), writes the Epoch and the LockedArchives of *)
(* the new epoch (open), rewrites the Epoch of finished epochs and removes *)
(* their LockedArchives (final), adds and removes bills, and replaces the  *)
(* WitnessHead. Adding an archive whose name is there replaces it,         *)
(* removing one that is not there does nothing.                            *)
(***************************************************************************)
modify(content, r) ==
    [head   |-> IF r.head = 0 THEN content.head ELSE r.head,
     open   |-> (content.open \ r.final) \cup r.open,
     final  |-> content.final \cup r.final,
     locked |-> (content.locked \ r.final) \cup r.open,
     bills  |-> (content.bills \ r.removes) \cup r.adds,
     witnesses |-> IF r.witnesses = {} THEN content.witnesses ELSE r.witnesses]

GenesisDART ==
    [head |-> 0, open |-> {}, final |-> {}, locked |-> {}, bills |-> Bill, witnesses |-> {}]

Init ==
    /\ consensus = <<>>
    /\ ballots = {}
    /\ produced = [n \in Node |-> {}]
    /\ running = [n \in Node |-> "up"]
    /\ shutdown = [n \in Node |-> 0]
    /\ last_epoch_number = [n \in Node |-> 0]
    /\ last_consensus_epoch = [n \in Node |-> 0]
    /\ previous_epoch = [n \in Node |-> <<>>]
    /\ votes = [n \in Node |-> <<>>]
    /\ products = [n \in Node |-> {}]
    /\ epoch_contracts = [n \in Node |-> <<>>]
    /\ last_globals = [n \in Node |-> Cardinality(Bill)]
    /\ dart_box = [n \in Node |-> <<>>]
    /\ checked = [n \in Node |-> <<>>]
    /\ commits = [n \in Node |-> <<>>]
    /\ bullseyes = [n \in Node |-> <<>>]
    /\ committing = [n \in Node |-> None]
    /\ dart = [n \in Node |-> GenesisDART]
    /\ last_block = [n \in Node |-> <<>>]
===============================================================================
