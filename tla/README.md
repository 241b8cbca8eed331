# A verification model of the tagion node

The repository is the tagion network in D: nodes that order contracts with a
hashgraph, execute them, keep the result in a hash-addressed database (the
DART) and vote, epoch by epoch, that their databases are the same. This
directory holds TLA+ models of its core logic, the TLC configurations that
check them and proofs for TLAPS. Paths below are relative to `src/` of the
repository; services are in `src/lib-services/tagion/services/`.

## 1. Inventory

A node is a set of services. Each is an actor (`lib-actor/tagion/actor/actor.d`):
a thread with a mailbox that takes one message at a time and runs the handler
for it. An exception in a handler is reported to the supervisor and the actor
goes on with the state the handler left.

### The epoch pipeline

    hashgraph --consensusEpoch--> transcript --dartCheckReadRR--> DART
    TVM ------producedContract--> transcript <-------Response----- DART
    transcript --EpochCommitRR--> epoch_commit --dartModifyRR--> DART
                                  epoch_commit --Replicate-----> replicator
    transcript <---Response------ epoch_commit
    transcript --Payload (ConsensusVoting)--> epoch_creator --> hashgraph

| component | state | operations | what makes it correct |
|---|---|---|---|
| TranscriptService (`transcript.d`) | votes, products, epoch_contracts, shutdown, the last epoch numbers, previous_epoch, last_globals | epoch, createRecorder, receiveBullseye, produceContract, epoch_shutdown | nodes store the same recorders but for the WitnessHead, and finish the same epochs with the same bullseyes, in order; no bill is spent twice; statistics are right; a shutdown leaves no locked archives |
| EpochCommit (`epoch_commit.d`) | none but the request it is blocked on | epoch_commit with two nested receives | one recorder at a time reaches the DART and then the log |
| DARTService (`DART.d`) | the DART | read, checkRead, bullseye, modify, dartHiRPC | a check sees the state the epoch is to be executed on |
| ReplicatorService (`replicator.d`) | last_block, the file of the epoch | receiveRecorder, readRecorder | the log replays to the DART |
| Supervisor (`supervisor.d`) | the handles of the services | start, EpochShutdown, STOP | a stop leaves the database consistent |

Hard here: messages of five threads interleave, epochs of the hashgraph are not
paced to the services behind the transcript, votes on several epochs arrive in
any order, handlers throw half way through, and a STOP has priority over what
is in the mailboxes. The hashgraph gives all nodes the same contracts and votes in an
epoch but not the same list of witnesses, which goes into the DART and makes
bullseyes differ without any fault.

### From a client to the pipeline

| component | state | operations | what makes it correct |
|---|---|---|---|
| HiRPCVerifier (`hirpc_verifier.d`), Collector (`collector.d`) | contracts that wait for reads of the DART | verify, collect inputs and reads in a fiber | every signed contract with inputs reaches the TVM, once per source |
| TVMService (`TVM.d`) | none | execute, check the outputs, send the product and the payload | a product for every valid contract of the consensus |
| EpochCreator (`epoch_creator.d`), GossipNet, AddressBook | hashgraph, queue of payloads, counter | receive payloads, answer wavefronts, time out | a payload goes into one event; a node talks to each other node in one wavefront at a time |
| Hashgraph (`lib-hashgraph`) | events, rounds, witnesses, the votes on rounds | register events, decide famous witnesses, vote on and collect rounds | all nodes collect the same rounds with the same events in the same order |

Hard here: the order of rounds is decided by votes that travel in the events
themselves, rounds may be skipped, votes may arrive before the first round.

### Storage

| component | state | operations | what makes it correct |
|---|---|---|---|
| DART database (`lib-dart/tagion/dart/DARTFile.d`, `DART.d`) | a tree of branches addressed by hash prefix | modify, search, traverse, synchronize, replay | the tree is a set of archives; its bullseye depends on the set only |
| BlockFile, Recycler (`BlockFile.d`, `Recycler.d`) | blocks, a set of free segments, a masterblock | save, dispose, store, claim, recycle, write | no segment is free and in use; a file can be read after every store |
| DART synchronisation (`DARTSyncService.d`, ...) | journal of recorders, the peers | find the differing rims, replay | afterwards the bullseye is that of the network |
| TRT (`TRTService.d`, `lib-trt`) | an index from owners to bills and contracts | trt_read, modify | the index follows the DART |

### The explorer

    hashgraph --Monitor event--> logger, subscription --> shell --web socket--> page

| component | state | operations | what makes it correct |
|---|---|---|---|
| Explorer hashgraph viewer (`scripts/docker/explorer/htdocs/static/explorer/hashgraph.js`) | the events it was told of, the shapes on the stage, the selected event | a report of an event, click, double click, clear, pause, resume | what is drawn is what was reported; a click takes back what the last one did; no handler dies half way |

Hard here: the shapes on the stage are looked up by id long after they were drawn,
reports are lost while the page is paused or not yet connected, the same event is
reported several times, and between two clicks the page may be cleared or the node
restarted, after which ids are used again.

### Edge and libraries

Node interfaces (`nodeinterface.d`, `socket_nodeinterface.d`,
`lib-network`), RPC server, subscription, logger, wallet, HiBON documents and
envelopes, cryptography, WASM translators, caches and bit masks
(`lib-utils`), command line tools, mobile and C libraries, the bindings of the
WASM library for browsers (`src/wasi/browser`), the configuration of the
documentation site. `trans.d` is an
alternative transcript that no build compiles (`version(NEW_TRANSCRIPT)`).

`PROJECT.json` lists every component with its status, and every hazard found in
reading the code, at its line, with the properties that cover it.

## 2. Modules

| module | models |
|---|---|
| `PipelineState` | the variables of all services of all nodes, their types, `modify` of the DART, Init |
| `TranscriptService` | the handlers of `transcript.d` |
| `StorageServices` | `epoch_commit.d`, `DART.d`, `replicator.d` |
| `EpochPipeline` | composes both with the hashgraph (`decideEpoch`), the TVM, the operator and the supervisor; all properties |
| `EpochChain` | the abstract specification: chains of finished epochs that only grow and continue one another |
| `EpochInvariant` | the inductive invariant of an epoch's way through a node |
| `EpochPipelineProofs` | its proofs, with agreement and the refinement |
| `StorageInvariant` | two more inductive invariants, of the recorders on their way to the DART and to the log: `FlowInvariant`, `SpendingInvariant` |
| `StorageProofs` | proofs of what recorders open and finish, and of the log |
| `SpendingProofs` | proofs of what recorders spend, with one epoch in flight |
| `InStepInvariant` | what the consensus order determines when nodes are in step, what a node adds to it with its own witnesses, and the inductive invariant that each node holds just that, at every stage of an epoch |
| `InStepProofs` | its proofs, and what follows for the recorders of two nodes and for the epoch chain in the DART |
| `MCEpochPipeline` | the instances for TLC |
| `RoundVoting` | the votes that decide which rounds of the hashgraph become epochs (`Round.d`, called from `Event.connect`) |
| `RoundInvariant`, `RoundVotingProofs` | its inductive invariant and proofs |
| `MCRoundVoting` | its instances for TLC |
| `PipelineRestart` | extends `EpochPipeline` with crashes of the network between any two steps, what is on disk, and the start from it |
| `RestartInvariant` | its inductive invariant: in every life of the network the nodes are in step, from the DART that the last life left, and what is on disk follows from the recorders stored in all lives |
| `RestartProofs` | its proofs, and the seven properties of a network that crashes |
| `MCPipelineRestart` | its instance for TLC |
| `Recycler` | the recycler of a block file (`Recycler.d`): which segments are free, in memory and on disk; operators only |
| `BlockFile` | the block file under the DART (`BlockFile.d`) with the transactions that `DARTFile.d` makes on it; composes the recycler with documents, statistics and the masterblock |
| `BlockFileInvariant`, `BlockFileProofs` | its inductive invariant and proofs |
| `MCBlockFile` | its instance for TLC |
| `EventView` | the explorer's page that draws the hashgraph (`hashgraph.js`), with the reports of the node |
| `EventViewProofs`, `MCEventView` | its proofs and its instance for TLC |

`EpochPipeline` and `RoundVoting` are not composed. `decideEpoch` takes the
next epoch of the network, with the same contracts and votes at every node, and the
property `EpochsAgree` of `RoundVoting` is half of what justifies that: nodes never
make an epoch of a round from different valid witnesses. The other half does not hold
(finding 4), so `decideEpoch` stands for a network in which no node skips a round. The
list of witnesses that goes with an epoch is not protected by the votes on rounds, and
`decideEpoch` gives each node one of its own (below). The DART of
the pipeline is not composed with `BlockFile` either: `modifyDART` stands for a
transaction that ends with `store`, which `BlockFile` says keeps what the
masterblock leads to.

### How state and actions correspond to the code

The epoch pipeline. A variable of the services is a function from nodes to the field of the same
name (`votes`, `products`, `epoch_contracts`, `last_epoch_number`,
`last_consensus_epoch`, `previous_epoch`, `last_globals`, `shutdown`). A mailbox
is a sequence per kind of message (`dart_box`, `checked`, `commits`,
`bullseyes`). An action is one whole handler. `createRecorder` is a helper of
the two handlers that end in it: `epoch`, when the epoch has no inputs to check,
and `receiveChecked`, when the DART has answered. It ends in three ways:
`ThrowFromRecorder` (a vote disagrees, or the epoch's contracts are not known),
`CommitShutdown` (the scheduled epoch is finished) and `CommitEpoch`.

Simplifications:

- Hashes are injective. A bullseye is the content of the DART, a recorder
  block's fingerprint is the log that ends in it, an epoch's hash is the chain
  that ends in it. Signatures cannot be forged; the signs of an Epoch are the
  owners of the votes counted.
- The list of witnesses of an epoch is a value that stands for it. `finishedEpoch`
  sends the transcript all events that the node has in the round
  (`Refinement.d:116`, `Round.d:134-143`), not the valid witnesses that the pattern
  of the round is made of; an event that comes late is in the list of one node and
  not of another. So `consensus[i].witnesses` is a function from nodes to lists, and
  `decideEpoch` picks any of the constant `Witnesses`. The list ends up in the
  WitnessHead of every recorder that `CommitEpoch` makes
  (`transcript.d:288-290`), also past a scheduled shutdown, and so in the DART and in
  the bullseye. A WitnessHead has a name (`common.d:304-309`), and a new one
  replaces the old. Two lists of different rounds are different.
- Queues per kind of message. The run loop of an actor takes the oldest message
  of its mailbox, so two kinds of messages are taken in any order here and not
  in the order they came: the model has more behaviours than the code. Only in
  the mailbox of the DART does the order between two senders decide what the
  answer is, and it is one queue.
- `epoch_commit` blocks for exactly one answer after each send, so its step from
  one receive to the next is part of the step that answers (`modifyDART`,
  `receiveRecorder`); `committing` says where it is.
- The DART is a flat set of bills with the head, the epochs and the locked
  archives beside it. The tree by hash prefix is left out.
- A contract makes one bill, named by the contract. A contract that is sent
  twice is two contracts with the same inputs.
- `last_globals` keeps the number of bills of `TagionGlobals`.
- The operator schedules the shutdown once on each node and before the network
  reaches the epoch (`scheduleShutdown`); nodes may hear of it at different times
  or never.
- The copy of recorders to the TRT, logging, files and the read requests of the
  DART, which change nothing, are left out.

The votes on rounds. `rounds[n]` is what node n has in its hashgraph about each
round: the witnesses, `_valid_witness`, `_round_votes`, the number of
`_last_decided_round` and of `_round_to_be_collected`, the votes n put in its
payload queue, and what it collected. Connecting one event is one action: if the
event is a witness, the round it belongs to takes it, the next round is decided
if it is complete, a decided round is voted on and the round to be collected is
tried (`HandleWitness`, in this order); if it carries a vote, the vote is filed
last (`CheckRoundVotes`). The three actions `ConnectWitness`, `ConnectVote` and
`ConnectWitnessVote` are the event that is the first, the second or both.

Simplifications:

- A pattern is the set of valid witnesses it hashes. The witness of a node in a
  round is the same event at all nodes.
- Which witnesses a node finds valid when a round is completed is any member of
  the constant `Found` that it knows. How `Round.completed` finds them from the
  votes of the witnesses of the next round is left out: here two nodes may find
  different ones, which is what the second vote is there to repair.
- The first majority of the witnesses of a round arrives at once
  (`ConnectFirst`), the late ones one by one: no operation reads a round with
  fewer than a majority of witnesses.
- An event is connected after its ancestors, which are all events its maker
  knew (the wavefront closes over them, `HashGraph.d:775-790`). So a vote is
  filed after the witnesses its sender knew of in the round (`known`).
- A round after a decided round exists, so `_round_to_be_collected` is null only
  before the first decision. Votes that arrive that early are dropped, as in
  the code.
- The subtraction in `isDecided` is unsigned in the code: a negative difference
  counts as a majority, and `IsDecided` says so.

Crash and start (`PipelineRestart`). In mode 0 the nodes are threads of one process
(`neuewelle.d`), and a crash takes all of them at once, with their memory, their
mailboxes and the hashgraph. On disk are the DART of each node and the files of its
replicator. The steps of `EpochPipeline` are taken as they are and say in addition
what they leave on disk: `MakeRecorder` the statistics in the Epoch record,
`Store` the recorder in the DART, `Replicate` the name of a new file, and
`WriteBlock` is the write that the replicator does after it has answered. `Boot` is a
crash, between any two steps, and the start after it, since nothing happens in
between; a process that is not started again takes no more steps. `neuewelle.d` refuses
DARTs with different bullseyes, `transcript.d` takes the epoch of the head as its last
epoch and its last finished one and the statistics of the head's record, and the
replicator begins a new chain of blocks. Bullseyes that differ, if only in the
WitnessHead of the last epoch that was stored, stop the network for
good: nothing in the code makes them equal again but a synchronisation by hand.

Simplifications, besides those of the pipeline: a `modify` of the DART is stored as a
whole or not at all; the new hashgraph begins with empty epochs up to that of the
head, so that numbers go on; every contract may come again; shutdown and
new_file_interval are left out; nodes that run as processes of their own (mode 1),
and could crash one by one, are left out.

The block file (`Recycler`, `BlockFile`). A recycler is a record: the set of free
segments (`indices`, which the code keeps sorted by index and by size), the list of
disposed segments and the end of the file. `claim` is a set of outcomes, since the
array by size does not say which of two equal segments is in front. A document is the
segment it takes. `save`, `disposeDocument` and `forgetBranch` are the steps of a
transaction; `store` is `DARTFile.modify` to its end (statistics disposed and saved,
documents, the list of free segments, the masterblock, in this order), `reset` the
`modify` that leaves nothing, `remove_disposed_and_added` is `futureEye`, which takes
the transaction back, and `open` reads the file. `disk` keeps of every segment ever
written as free what the disk says of it, until it is written over, so that
`ReadFrom` follows the list that is there and not the one that should be.

What reading the code for this module showed, beyond the properties:

- `store` is not atomic. Segments disposed in a transaction are claimed and written
  over in the same transaction, while the old masterblock still leads to them. A crash
  in the middle of `store` can leave a file that is refused or whose old tree is
  damaged, although the comment at `BlockFile.d:634` expects otherwise. This is why
  the model has store as one step, and why `WholeOnDisk` speaks of crashes between
  two stores. `DARTFile.modify` covers an exception with `scope(failure)` only up
  to the point where its `scope(success)` begins, and that is where `store` is called.
- A branch below the sectors that is replaced by another is not disposed
  (`DARTFile.d:886-914`), and `futureEye` does not give back what it claimed; both
  leave blocks that nothing uses and that are not free. `lost` counts them, and
  `EachBlockOnce` says that nothing else is lost.
- The assertion against disposing twice compares pointers and never fires.
- An exception in `traverse_dart` leaves the cache of saved blocks non-empty.

The page of the explorer (`EventView`). A handler of the page is one action: a report
from the web socket (`SetEventNode`, which creates, updates or ignores), `Click`,
`DoubleClick`, `Clear`, `Pause`, `Resume`, `Subscribe`. The node beside it connects
events (`ConnectEvent`), reports them again or with something new (`ReportAgain`,
`ReportLater`) and may restart and count its events from one again
(`RestartNode`). `lookup` and `data` are `lookup` of the page, `circles`, `edges`, `lit`
and `rings` are what is on the Konva stage, `selected` is `selectedNode`, which keeps
its data through `_reset`. The traversal `_selectEventNode` is a set of outcomes
(`Traversals`): everything it reaches, or, where an edge is missing and it throws,
any part that it may have reached by then. `threw` says that the last handler
ended in an exception; what it had done by then stays done.

`disturbed` names what the page is not written for, and the properties speak of the
time before it: with events or a selection on the page a removal is reported, the node
restarts, or an event is heard of after a later one. What happens then is in the
model, and TLC visits it (`ViewTypeOK` and the rings hold there too), but nothing is
claimed of the drawing:

- The removal of an event throws half way (`find(...).destroy` is called on an
  array): the edges are gone, the circle and the data stay, and every click that
  reaches a missing edge throws.
- After a restart of the node ids are used again. The click handler first takes back
  the highlighting of `selectedNode`, by ids and data from before: it throws at each
  click, and Clear does not help while something is selected.
- An event that is first heard of after a child of it leaves the edge between them
  undrawn, and clicks on the child throw.
- A grounded event is the first of its chain that is drawn: an Eva has no mother in
  its report and is ignored.

Simplifications are in the header of the module. The main one: fields that are only
printed are left out, and so is what touches nothing else (scrolling, zooming,
resizing, the colour under the pointer, `setHighlightedEventNode`).

## 3. Runs

| run | question | result |
|---|---|---|
| `pipeline_in_step` | with the timing the design assumes, do two nodes store the same recorders but for the WitnessHead, without a double spend, with right statistics, how far may the epoch chain in the DART stay behind, are the inductive invariants of spending and of nodes in step right? | holds |
| `pipeline_progress` | is an epoch finished by every node when all votes on it and on the epochs before agree, also if votes on a later one do not? | holds under fairness |
| `pipeline_overlap` | with epochs overlapping and products late, and a shutdown at any moment: do chains agree and only grow, does the log replay to the DART, is a stopped node clean, is the inductive invariant (`FlowInvariant`, of which `Invariant` is a conjunct) right? | holds |
| `pipeline_stale_check` | the same double spend, with two epochs in flight | violated |
| `pipeline_majority` | is an epoch finished when a majority agrees on its bullseye, as documented, and one node had a witness less of the round? | violated |
| `pipeline_stop` | does a stopped node have the scheduled epoch as head? | violated |
| `rounds_agree` | do nodes that found different witnesses in a round make the same epoch of it, does a node pass over a round only if its pattern wins nowhere, is the inductive invariant right? | holds |
| `rounds_get_past` | does a node get past every round it decided? | holds under fairness |
| `rounds_skip` | does every node make an epoch of a round that one node made an epoch of? | violated |
| `restart_crash` | if the network crashes at any moment and starts again, does a finished epoch stay as it is, is no bill spent twice over the crash, do the DARTs have one history but for the WitnessHeads, are statistics and epoch records right, does the replicator find no file in its way, what does the backup miss, and is the inductive invariant right? | holds |
| `block_file` | is every block of the file used once or free once, in memory and in what is on disk, do free segments that touch become one, is the inductive invariant right? | holds |
| `view_monitor` | does the drawing of the hashgraph agree with what was reported, does a click highlight exactly the ancestors and take back exactly what the last one did, does no handler throw, is the inductive invariant right? | holds |

Nothing in the code paces the hashgraph to the storage services: `epoch` takes
the next epoch while the last one is being stored. Two constants make the
timing explicit. `MaxInFlight` is how many epochs of a node may be between the
hashgraph and the bullseye, with a message on its way (`InFlight`): an epoch on which
createRecorder threw has none and is not waited for; `ProductsInTime` says whether every product comes
before the epoch of its contract. In step is `MaxInFlight = 1` and
`ProductsInTime = TRUE`, what the real network has as long as epochs come
slowly; overlap is 2 and FALSE. What holds only in step is said so.

Bounds: two nodes (four in `pipeline_majority`, the smallest number for which a
majority is not all; one in the two violations that need no other), three epochs,
none to two contracts. Two nodes are
enough for the properties on pairs of nodes, and the theorems cover the rest.
`Witnesses` is `SameOrOwn` in `pipeline_in_step`, `pipeline_progress` and
`restart_crash` (all nodes have the same witnesses of a round, or each has a list of
its own), `OneMisses` in `pipeline_majority` (one node misses some) and `NoneMisses` in
`pipeline_overlap`, where nodes come to different bullseyes by late products and
overlapping checks already. A round is decided with more than two thirds of the
witnesses, which of two or three nodes are all: in the code lists can differ
from four nodes on. The runs with two nodes allow them to differ all the same, which
only adds behaviours to what has to hold; the one violation that needs different lists
has four nodes.
Three epochs are needed so that one epoch is finished by the votes carried in
a later one while a third is on its way: votes on epoch 1 can be in epoch 2 and
finish it with the recorder of epoch 2 or 3; and a vote that disagrees on epoch 2 can
come after epoch 1 was finished, or with the votes that finish it, in epoch 3.
`SignedEpochFinishes` leaves out the last epoch, the votes on which would be in an
epoch past the bound. The contracts are chosen to
conflict: `PairInputs` are two contracts that spend the same bill. `EarliestEpoch` delays a
contract's bill to a later epoch (BUFFER_TIME_SECONDS). CHECK_DEADLOCK is FALSE
because the network really stops: after the last epoch (the bound), after a
disagreement, and after a shutdown.

Fairness (`FairSpec`, used by `pipeline_progress`): weak fairness of the message
handling of each actor, which the run loop of its thread is, and of the TVM. It
is not assumed that the hashgraph decides another epoch; the property speaks of
votes that are in epochs already decided.

Bounds of the `rounds_` runs: four nodes in `rounds_agree` and `rounds_skip`, the
smallest number with a majority that is not all, and one round, since a round
reads nothing of another but the order in which they are passed. One node, `l`, is
silent for long: `First` and `Found` are all nodes or all but `l`, so that two
patterns with a majority of witnesses compete. Two nodes (`Collector`) are followed
to the end, the others until they have voted; the properties speak of pairs.
`VotesWait` = FALSE lets a vote arrive before the node has a round to collect,
where it is dropped. `rounds_get_past` has two rounds, so that one blocked round
could block a later one, and three nodes, of which all are a majority: patterns of
two witnesses win the vote and are not collected. There `VotesWait` is TRUE: a
node that drops votes may never get past that round (the hazard is in
`PROJECT.json`), and the property is about the others. CHECK_DEADLOCK is not
needed in these runs, a witness of a later round can always arrive.

Fairness of `rounds_get_past` (`Gossip`): a node goes on to connect events of the
others. Each round gets its first witnesses, a completed round is seen to be
completed, and witnesses and votes that one node knows arrive at all. It is not
assumed that a witness nobody knows ever comes. With three nodes all of them have a
witness in a round before it is completed, so the run says nothing of a node that
is silent for ever; that the leading pattern then has a majority, or that the
votes missing cannot give it one, is what `IsDecided` counts.

Bounds of `restart_crash`: two nodes with the timing of `pipeline_in_step`, one
contract, which spends both bills for a new one and may come again after the crash,
three epochs and one crash. One crash is enough for what relates two lives of the
network; three epochs let a crash find one epoch stored and unfinished, one finished
and one to come. The double spend over a crash needs only the same contract twice.
`JournalMissesLast` is what the code gives: the replicator answers before it writes,
and after a crash begins a new chain, so each crash may cost the backup the last two
recorders. CHECK_DEADLOCK is FALSE because the network stops after the last epoch,
and for good when it finds different bullseyes at its start.

Bounds of `block_file`: six blocks, documents of one or two. With six blocks there is
room for both statistics, two documents and a gap, so that segments are joined below,
above and on both sides, split, claimed from what the transaction disposed, and the
list of free segments has up to three members. CHECK_DEADLOCK is FALSE because a full
file (the bound) can only be opened again.

Bounds of `view_monitor`: three events of two nodes and two later reports or restarts.
Three events have a grandparent, two parents, and a gap (the page subscribes late or
was paused); two later reports are a change and its repetition, or a restart with
something before it. `LaterReports` are fame, which the page is written for, and the
removal; today's node sends neither of an event after it was connected. The witnesses
are two of the events, one at the bottom and one above. The theorems cover any number
of events, chains, and later reports.

### Findings

1. `epoch` checks the inputs of an epoch at once (`transcript.d:170`), also when
   the recorder of the epoch before it is not stored yet. Both epochs then
   execute contracts with the same input.
2. An epoch is finished by the signatures of all nodes (`transcript.d:208`); the
   comment above it and `docs/tech/Protocols/Consensus/EpochRules.md` say a
   majority. And no fault is needed for one node to sign something else: a witness that
   it got late changes its WitnessHead. Then every node throws on the disagreeing
   vote (`transcript.d:201`), now and in every later epoch, and no node makes
   a recorder any more, although three of four agree. When such a vote comes
   together with those that finish a lower epoch, the loop has counted that epoch as
   finished before it throws, and the recorder that should have stored it is lost.
3. Sig.STOP is sent with priority right after the last recorder
   (`transcript.d:238`) and can overtake it; the node then stops with an older
   head than the scheduled epoch, which the test of the shutdown reads.
4. A node whose pattern was outvoted, or which cannot tell any more, gives the
   round up (`Round.d:681`) and makes no epoch of it, while nodes of the winning
   pattern do. `docs/tech/Protocols/Consensus/Epoch.md` says each node produces the
   same epoch.

Not a run of its own, but met on the way: `docs/tech/architecture/DART.md` says
the DART is rolled back when the bullseye differs; the code throws from
createRecorder and nothing is undone. The network stays safe (the chains agree),
it does not make progress.

## 4. Proofs

`EpochPipelineProofs` proves, for every number of nodes, contracts and epochs
and with no assumption on the timing (`MaxInFlight` and `ProductsInTime` play no
part):

| theorem | states |
|---|---|
| `InvariantHolds` | `Spec => []Invariant` |
| `TypesHold` | `Spec => []TypeOK` |
| `ChainsAgree` | `Spec => []ChainAgreement` |
| `PipelineImplementsChain` | `Spec => ChainSpec` |
| `EpochsCommittedOnce` | `Spec => []CommittedOnce` |
| `ResponsesHaveVotes` | `Spec => []ResponseHasVote` |

Assumptions: Node, Contract and Bill are finite, Node is not empty, bills and
contracts have different names, ShutdownEpoch holds positive numbers, and None
is neither a bullseye nor a request.

The argument. Agreement needs that a node casts one vote per epoch
(`OneBallot`): then two nodes that finished epoch e both hold the vote of, say,
the first of them on their own bullseye, and the bullseyes are equal. That a
node votes once is not in any one handler: a vote is cast for every answer of
epoch_commit. It follows from where an epoch can be. `InOneStage` says that an
epoch is in at most one of the mailbox of the DART, its answers, the mailbox of
epoch_commit, the request being committed, and the log; that bullseyes on their
way are of logged epochs and not yet voted on. `OnceInStage` says it is there
once. `StoresOne` (the DART holds at most one recorder, that of the request being
committed) is what keeps the two nested receives of epoch_commit matched.
`OpenVotes` says the transcript still has an entry without a bullseye for an
epoch on its way, so an entry is never overwritten or finished too early.
`ChainSigned` says that a finished epoch has the vote of each node on the
bullseye this node computed. The module begins with the facts on mailboxes
(what Append and Tail do to the set of epochs in them) and `FinishedInterval`,
that the loop over the votes finishes an interval of epochs. One lemma per action
shows that it preserves `Invariant`; `RecorderStep` collects what the three ends of
createRecorder have in common.

`StorageProofs` goes on from there, under the same assumptions and again with none on
the timing:

| theorem | states |
|---|---|
| `FlowHolds` | `Spec => []FlowInvariant` |
| `ShutdownIsClean` | `Spec => []CleanShutdown` |
| `LogIsJournal` | `Spec => []LogReplaysDART` |

The argument. A recorder is waiting (with epoch_commit, or stored next by the DART) or
applied (logged, or stored and logged next), and `StoresCommitted` says that what the
DART is to store is what epoch_commit works on. So a step of `dartModifyRR` and a step
of the replicator move one and the same recorder, and the log replays the DART
(`ReplayAppend`). For the shutdown, `FinishedReachDART` says that the epochs that
count as finished are final in the DART or in a recorder that waits, unless a vote
disagrees, after which no recorder is sent any more; `OpensBeforeShutdown` that no
recorder opens the scheduled epoch or a later one. When the scheduled epoch is
finished, a recorder that waits is therefore of an epoch after it, since its own
bullseye is still missing, and opens nothing; that is `StopsClean`, and with
nothing waiting it is `CleanShutdown`.

`SpendingProofs` proves under the assumption `MaxInFlight = 1`, and none on when
products come:

| theorem | states |
|---|---|
| `SpendingHolds` | `MaxInFlight = 1`, so `Spec => []SpendingInvariant` |
| `SpentOnce` | `MaxInFlight = 1`, so `Spec => []NoDoubleSpend` |
| `GlobalsCount` | `MaxInFlight = 1`, so `Spec => []GlobalsCountBills` |

The argument. With one epoch in flight no recorder waits while another epoch is
checked (`OneBusy`, `NothingBusy`), so the answer of the DART is still true when
createRecorder uses it (`ChecksTrue`) and a recorder removes only what is there
(`RemovesPresent`). What was removed does not come back (`SpentIsGone`), since a
contract is executed once: its product is used up (`ExecutedOnce`). Within one epoch
the used list keeps inputs apart (`ExecutedSpends`). The assumption is needed:
`pipeline_stale_check` has two epochs in flight and a double spend.

What `Executed` and `Replay` compute is an induction over the length of a sequence.
It is done with the least counterexample (`LeastNat`, from the well-foundedness of the
natural numbers) instead of an induction theorem.

`InStepProofs` proves, for every number of nodes, contracts and epochs, under
`MaxInFlight = 1`, `ProductsInTime` and `ShutdownEpoch = {}`:

| theorem | states |
|---|---|
| `InStepHolds` | `Spec => []InStepInvariant` |
| `NodesMakeSameRecorders` | `Spec => []SameRecorders` |
| `ChainIsInDART` | `Spec => []ChainInDART` |

The argument. Two nodes exchange nothing but votes, so that they make the same
recorders cannot be shown from what they say to each other: it has to be shown that
each is a function of the consensus order. They are not, quite: the WitnessHead is not.
So there are two layers. `Determined` is what the order alone gives, without any
WitnessHead: the DART and the last finished epoch after each epoch of the order.
`HeadAt` is the WitnessHead that node n adds, with the witnesses that it had;
`DartAt`, `RecorderAt`, `BlockAt`, `EpochAt` and `EntryAt` give the DART, the recorder,
the block, the Epoch record and the entry in votes of node n. `InStepInvariant` says of
every node that there is a stage (`Stage`: between two epochs, the DART asked, its
answer there, the recorder made, with the DART, with the replicator, logged) in which
each of its variables has the value that the order and its own witnesses give it, up
to the epoch it has taken. It is inductive only with the votes: a vote in the hashgraph
is for the bullseye that the order and the witnesses of its sender determine
(`VotesDetermined`), which is so because its sender was in step when it cast it.
Therefore two votes on an epoch agree if and only if their senders had the same
witnesses of it (`BullseyesAlike`), and that the order knows: `FinishedBy`, the epochs
that a recorder finishes, asks for the votes of all nodes and for `Alike`, that all had
the same witnesses, and both are the same at every node. A node throws from
the epoch on that brings it the first vote of a node with other witnesses than its
own (`Split`, `SplitDisputes`, `DisputeSplits`), and makes recorders for the epochs
before (`MakesUpTo`). Which epoch that is differs from node to node, and so do the
lengths of the logs; but up to where both go, the recorders differ in the
WitnessHead only (`BlocksAlike`), which is `SameRecorders`. When a node throws, the
loop may have finished lower epochs, whose recorder is lost: that is why the
invariant keeps apart the epochs for which createRecorder was called, which say what
counts as finished, and those for which a recorder was made, which say what is stored,
and why `ChainInDART` lets the chain in the DART stay behind.

`LifeDetermined` is the induction over the order, `DeterminedKept` says that an epoch
more leaves what was determined as it is. One lemma per handler takes a node from one
stage to the next (`NodeInStepKept` puts them together). All three assumptions are
needed: with two epochs in flight a vote for an epoch may be in the order before the
node's own bullseye is there, and a product that comes late makes createRecorder skip a
contract at one node only. With a shutdown scheduled nodes leave at different epochs;
that case stays with `pipeline_overlap`, which does not state `SameRecorders`.

`RestartProofs` proves, in addition for every number of crashes (`MaxBoots`), under the
same three assumptions and `\A c \in Contract : Inputs[c] # {}` (the collector
refuses a contract without inputs: `collector.d:68` calls `verify`, which wants owners
of the inputs, `lib-funnel/tagion/script/common.d:203`):

| theorem | states |
|---|---|
| `RestartHolds` | `RestartSpec => []RestartInvariant` |
| `FinishedStaysForGood` | `RestartSpec => []FinishedForGood` |
| `SpentOnceInAllLives` | `RestartSpec => []NoDoubleSpendEver` |
| `HistoryIsShared` | `RestartSpec => []SameHistory` |
| `EpochsAreShared` | `RestartSpec => []SameEpochs` |
| `JournalMissesOnlyTheLast` | `RestartSpec => []JournalMissesLast` |
| `FilesAreNew` | `RestartSpec => []FileIsNew` |
| `GlobalsCountInAllLives` | `RestartSpec => []GlobalsCountBills` |

The argument. A life of the network is the order of its epochs with the DART and the
head that it started from. `InStep` is stated of a life, so that the lemmas of
`InStepProofs` hold in each of them, and `Boot` only has to show that what the process
finds on disk is the beginning of a new one (`BootInStep`). Across lives hold facts on
what a node stored in all of them (`DiskHeld`). The DART is what replaying them
gives (`HistoryHeld`), so equal bullseyes at the start mean equal DARTs but not
equal histories: a later WitnessHead replaces an earlier one, and nodes that had
different witnesses of an epoch, and the same of the last one, are started again
(`HistoryIsShared` therefore speaks of the recorders but for their WitnessHeads).
`HistoryShared` carries the histories over the start, where
they have the same length, and in a life the order determines how they continue.
`SpentForGood` says that what was removed was in the genesis or was added and is not
there any more; a contract whose inputs were removed in an earlier life therefore finds
them missing, whatever order it comes in (this is where a contract needs inputs: one
without any could be executed again and again). `FinishedHeld` says that an epoch any
node finished was stored by all, with that bullseye: a finished epoch has
the vote of every node, which logged it before it voted (`FinishedIsLogged`), so the
next life starts after it and no node finishes it anew. For the same reason finished
epochs do not differ in anything: all nodes had the same witnesses of all of them
(`ChainOfNode`, `EpochsAlike`). `StatisticsHeld` follows the
number of bills from the recorder that is made to the Epoch record that the next start
reads, `FilesHeld` and `JournalHeld` the files of the replicator.

`RoundVotingProofs` proves, for every finite set of nodes, every number of rounds,
every `Collector` and every `Found`:

| theorem | states |
|---|---|
| `VotingInvariantHolds` | `Spec => []VotingInvariant` |
| `EpochsOfARoundAgree` | `Spec => []EpochsAgree` |
| `NobodyGivesUpTooEarly` | `Spec => []GivesUpSoundly` |

Assumptions: Node is finite, null is not a set of nodes, the first witnesses of a
round are a majority, and `Found` holds sets of nodes.

The argument. An epoch is the pattern of the node that makes it and has a majority
of the votes that node filed (`EpochIsWon`). A vote on file is the one its sender
made (`VotesGenuine`), a sender votes once per round, for the witnesses it holds
valid from then on (`VotesOncePerRound`). Two majorities of the same nodes have a
node in common (`MajoritiesIntersect`), so two epochs of a round are the same pattern.
These conjuncts also have to survive the step that gets past a round: votes for a
round that is past are not filed, so the count that decided it does not change.
For `GivesUpSoundly`, `PassedForAReason` keeps why a node gave a round up: with the
witnesses of all nodes known, the leading pattern has a majority or cannot reach
one with the votes that are missing. If another node has a majority for the first
one's pattern, that majority is among the votes the first one filed for it and
those it misses, so the leading pattern could have reached one too.

`EventViewProofs` proves, for any number of events, chains and later reports, and
whichever events are witnesses:

| theorem | states |
|---|---|
| `ViewTypesHold` | `Spec => []ViewTypeOK` |
| `ViewInvariantHolds` | `Spec => []ViewInvariant` |
| `DrawingAgrees` | `Spec => []DrawnAsReported` |
| `ThrowsOnlyWhenDisturbed` | `Spec => []ThrowsOnlyDisturbed` |
| `SelectionHolds` | `Spec => []SelectionIsAncestry` |
| `PlacesHold` | `Spec => []OnePlaceEach` |

Assumptions: the bounds are natural numbers, witnesses are events, the ids of grounded
parents and of no event differ from each other and from all events
(`EventAssumption`, `IdAssumption`), and a later report says nothing of the parents
(`LaterAssumption`; `Monitor.d` has no such report).

The argument. `ViewTypeOK` and `ViewInvariant` together are inductive. The
invariant says that an event of the node has only earlier parents, and that, until
it is disturbed, what the page knows and has selected are events of the node with the
parents they have there, and that its edges are those to the parents it knows.
`DrawnAsReported` is part of it. A handler throws only where a traversal meets an
edge that is missing, and with the invariant none is (`TraversalIsComplete`), which
is `ThrowsOnlyDisturbed`. `SelectionIsAncestry` has to survive the drawing of new
events between two clicks: an event that is drawn later is no ancestor of one that is
known, since its number is larger than those of all known events and parents are
smaller (`LaterEventsKeepAncestry`); so the traversal that takes the highlighting
back goes where the one that made it went (`AllTakenBack`). `OnePlaceEach` needs in
addition that the chain of a node has no forks: the mother of an event is the last
before it (`PlaceInvariant`), and an event is therefore above the one before it in its
chain, unless the page missed that one.

`BlockFileProofs` proves, for every length of the file and every set of sizes of
documents:

| theorem | states |
|---|---|
| `FileTypesHold` | `Spec => []FileTypeOK` |
| `FileInvariantHolds` | `Spec => []FileInvariant` |
| `BlocksHeldOnce` | `Spec => []EachBlockOnce` |
| `DiskIsWhole` | `Spec => []WholeOnDisk` |
| `FreeIsInOnePiece` | `Spec => []FreeInOnePiece` |

Assumptions: a file has a positive number of blocks, documents have positive sizes and
None is no segment.

The argument. `Whole` says that documents, saved documents, statistics, lost blocks and
the blocks of the recycler are five parts of the file that share nothing and leave
nothing out, and that the free segments do not touch. Whatever way `claim` ends, the
blocks it returns were in the recycler or are new (`ClaimEffect`); `dispose` and
`recycle` move blocks within it (`DisposeEffect`, `RecycleEffect`), where a segment that
becomes free has at most one free neighbour on each side (`RecycleOneEffect`). The same
`Whole` is claimed of what is on disk (`OnDisk`). That needs to know which free
segments a store need not write again: `NamedOnDisk` says that a free segment in memory
that names its successor is on disk as it is, which holds because every segment that was
joined or cut names none; so what `write` skips is still there, since nothing saved in
the transaction was written over a free segment (`StoreEffect`). That `read` then finds
the whole list, and nothing else that was ever written as free, is `ChainIsRead`: the
segment with k free ones before it is reached in step k, and there are at least as many
steps as free segments. `Transaction` says what a transaction has done to the
documents of the masterblock, which is what `futureEye` takes back.

`recycle` and `ReadFrom` are recursive functions over the length of a list; what they
compute is again proved with the least counterexample (`LeastNumber`).

Model-checked only:

- liveness (`SignedEpochFinishes`, `RoundsGetPast`), which the prover does not do;
- what the runs show besides, of the system as it is: the four violations, and that the
  actions of the models can all be taken.

`TypeOK` and `FileTypeOK` are no properties of a run of their own: the first is a
conjunct of `Invariant`, and so of `FlowInvariant`, which `pipeline_overlap` checks, the
second follows from `FileInvariant` (`FileTypesHold`), which `block_file` checks.

## 5. Not modelled

- **The order of events in the hashgraph and the exchange of wavefronts**
  (`EpochCreator`, `HashGraph.d` below the votes on rounds). What is sent and which
  witnesses are valid depends on the event graphs of both nodes. `RoundVoting` begins
  where the nodes have found witnesses, whichever these are; below it the state
  of a graph of events of four nodes over several rounds is out of TLC's reach. What
  the unsigned and overflowing comparisons of rounds and altitudes
  (`HashGraphBasic.d:46`) do is listed as a hazard.
- **The DART's tree by hash prefix, and synchronisation on it.** The recursion over
  ranges of recorders is a computation on data. The models need that a DART is a set
  of archives and that its bullseye depends on the set.
- **A crash in the middle of `store`** and the damage it can do to a file (section 2).
- **Crashes of single nodes** (mode 1): a node that starts alone has to synchronise its
  DART first, which is not modelled.
- **The path of a contract before the consensus** (`hirpc_verifier.d`, `collector.d`):
  sequential per contract; that a product comes late or never is in the pipeline.
- **TRT, RPC server, subscription, logger, node interfaces**: nothing in the core
  waits for the first; the others are I/O, and `EventView` takes their reports to arrive
  in order or not at all.
- **HiBON, envelopes, cryptography**: documents, hashes and signatures are abstract.
- **Wallet, WASM translators, utilities, tools, mobile and C libraries**: sequential
  code without state shared between calls.
- **Browser bindings** (`src/wasi/browser`): wrappers that copy arguments into the
  memory of a WASM module. `wallet.js` calls exports that `lib-api` does not have
  (`tagion_wallet_create_instance`), and `hibon.js` uses a size that is not defined, so
  there is no running program to model. `wtag.js` converts one document at a time.
- `trans.d`: no build sets `NEW_TRANSCRIPT`.

Worth proving next: `SameRecorders` with a scheduled shutdown, where nodes leave the
pipeline at different epochs but should make the same recorders up to then.
