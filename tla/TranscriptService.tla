-------------------------- MODULE TranscriptService --------------------------
(***************************************************************************)
(* The handlers of the TranscriptService (transcript.d). One action per    *)
(* handler that its run loop dispatches to: epoch, createRecorder,         *)
(* receiveBullseye, produceContract and epoch_shutdown.                    *)
(***************************************************************************)
EXTENDS PipelineState

number_of_nodes == Cardinality(Node)

\* Seeded fault: a vote that disagrees is counted like any other.
DisagreementIgnored(vs) == {}

(***************************************************************************)
(* The loop over the unfinished epochs in createRecorder. It goes through  *)
(* them in the order of their numbers, so that the exception it throws on  *)
(* the first vote that disagrees leaves the lower ones finished and the    *)
(* higher ones untouched.                                                  *)
(***************************************************************************)
Disagreeing(vs) ==
    {e \in DOMAIN vs : /\ vs[e].bullseye # None
                       /\ \E v \in vs[e].votes : v.bullseye # vs[e].bullseye}

Reached(vs) == {e \in DOMAIN vs : \A d \in Disagreeing(vs) : e < d}

\* Seeded fault: one signature too few is enough.
SignedByAllButOne(vs, e) ==
    /\ e \in DOMAIN vs
    /\ vs[e].bullseye # None
    /\ Cardinality({v.owner : v \in vs[e].votes}) >= number_of_nodes - 1

\* Every node has signed the bullseye that this node computed for epoch e.
Signed(vs, e) ==
    /\ e \in DOMAIN vs
    /\ vs[e].bullseye # None
    /\ {v.owner : v \in vs[e].votes} = Node

\* Seeded fault: an epoch does not wait for the ones before it.
FinishedInAnyOrder(lce, vs) == {e \in Reached(vs) : lce < e /\ Signed(vs, e)}

\* Seeded fault: the loop ends after one epoch.
FinishedOne(lce, vs) == {e \in Reached(vs) : e = lce + 1 /\ Signed(vs, e)}

\* The epochs the loop finishes: from last_consensus_epoch on without a gap.
Finished(lce, vs) ==
    {e \in Reached(vs) : lce < e /\ \A k \in (lce + 1)..e : Signed(vs, k)}

\* The Epoch records of the finished epochs, each with the one before it as previous.
Chained(lce, vs, count) ==
    [i \in 1..count |-> [epoch |-> lce + i, bullseye |-> vs[lce + i].bullseye,
                         block |-> vs[lce + i].recorder_block]]

\* Seeded fault: the used list does not start with what the DART did not have.
ExecutedUnchecked(cs, id, not_in_dart, ready) ==
    LET taken[i \in DOMAIN cs] ==
            /\ \A j \in 1..(i - 1) : taken[j] => Inputs[cs[i]] \cap Inputs[cs[j]] = {}
            /\ cs[i] \in ready
            /\ EarliestEpoch[cs[i]] <= id
    IN  {cs[i] : i \in {j \in DOMAIN cs : taken[j]}}

\* Seeded fault: the inputs of a contract are not added to the used list.
ExecutedUnused(cs, id, not_in_dart, ready) ==
    {c \in {cs[i] : i \in DOMAIN cs} :
        Inputs[c] \cap not_in_dart = {} /\ c \in ready /\ EarliestEpoch[c] <= id}

(***************************************************************************)
(* The loop over the signed contracts in createRecorder: the contracts of  *)
(* the sequence that are executed. The inputs of each go to the used list, *)
(* which starts with the archives the DART did not have.                   *)
(***************************************************************************)
Executed(cs, id, not_in_dart, ready) ==
    LET taken[i \in DOMAIN cs] ==
            /\ Inputs[cs[i]] \cap not_in_dart = {}
            /\ \A j \in 1..(i - 1) : taken[j] => Inputs[cs[i]] \cap Inputs[cs[j]] = {}
            /\ cs[i] \in ready
            /\ EarliestEpoch[cs[i]] <= id
    IN  {cs[i] : i \in {j \in DOMAIN cs : taken[j]}}

InputsOf(cs) == UNION {Inputs[cs[i]] : i \in DOMAIN cs}

\* f without the keys in S.
Without(f, S) == [x \in DOMAIN f \ S |-> f[x]]

\* f with key k set to v.
With(f, k, v) == [x \in DOMAIN f \cup {k} |-> IF x = k THEN v ELSE f[x]]

NewVotes == [votes |-> {}, bullseye |-> None, recorder_block |-> <<>>]

\* Seeded fault: an epoch after the scheduled one gets no entry.
VoteOpenedInChain(n, id, vs) ==
    IF shutdown[n] = 0 \/ id < shutdown[n] THEN With(vs, id, NewVotes) ELSE vs

\* The new epoch gets an entry in votes, also when it is past the shutdown.
VoteOpened(n, id, vs) == With(vs, id, NewVotes)

\* Seeded fault: every epoch goes to the chain in the DART.
AlwaysInChain(n, id) == TRUE

\* Whether epoch id becomes part of the epoch chain in the DART.
InChain(n, id) == shutdown[n] = 0 \/ id < shutdown[n]

(***************************************************************************)
(* The three ways createRecorder(id, not_in_dart) ends, given the votes vs *)
(* and the epoch contracts ecs that the calling handler left.              *)
(***************************************************************************)
\* What the loop over the votes leaves behind, however the call goes on.
FinishEpochs(n, finished, vs) ==
    LET lce == last_consensus_epoch[n]
    IN  /\ last_consensus_epoch' =
               [last_consensus_epoch EXCEPT ![n] = @ + Cardinality(finished)]
        /\ previous_epoch' =
               [previous_epoch EXCEPT ![n] = @ \o Chained(lce, vs, Cardinality(finished))]

\* A vote disagrees (or the epoch is unknown): the recorder is lost, and what the
\* loop finished stays finished in memory.
ThrowFromRecorder(n, finished, vs, ecs) ==
    /\ FinishEpochs(n, finished, vs)
    /\ votes' = [votes EXCEPT ![n] = Without(vs, finished)]
    /\ epoch_contracts' = [epoch_contracts EXCEPT ![n] = ecs]
    /\ UNCHANGED <<products, last_globals, commits, running>>

\* The scheduled epoch is finished: the last recorder only sets the head, the
\* transcript asks the supervisor to stop the node and stops itself.
CommitShutdown(n, id, finished, vs, ecs) ==
    /\ FinishEpochs(n, finished, vs)
    /\ votes' = [votes EXCEPT ![n] = Without(vs, finished)]
    /\ epoch_contracts' = [epoch_contracts EXCEPT ![n] = Without(ecs, {id})]
    /\ commits' = [commits EXCEPT ![n] = Append(@,
           [id |-> id, recorder |-> [head |-> shutdown[n], open |-> {}, final |-> finished,
                                     adds |-> {}, removes |-> {}, witnesses |-> {}]])]
    /\ running' = [running EXCEPT ![n] = "stopping"]
    /\ UNCHANGED <<products, last_globals>>

\* The ordinary end: the recorder of epoch id goes to epoch_commit, with the witnesses
\* that this node had of the round.
CommitEpoch(n, id, not_in_dart, finished, vs, ecs) ==
    LET exec == Executed(ecs[id].contracts, id, not_in_dart, products[n])
        removes == UNION {Inputs[c] : c \in exec}
        recorder == [head |-> IF InChain(n, id) THEN id ELSE 0,
                     open |-> IF InChain(n, id) THEN {id} ELSE {},
                     final |-> finished, adds |-> exec, removes |-> removes,
                     witnesses |-> {[epoch |-> id, witnesses |-> ecs[id].witnesses]}]
    IN  /\ FinishEpochs(n, finished, vs)
        /\ votes' = [votes EXCEPT ![n] = VoteOpened(n, id, Without(vs, finished))]
        /\ epoch_contracts' = [epoch_contracts EXCEPT ![n] = Without(ecs, {id})]
        /\ products' = [products EXCEPT ![n] = @ \ exec]
        /\ last_globals' =
               [last_globals EXCEPT ![n] = @ + Cardinality(exec) - Cardinality(removes)]
        /\ commits' = [commits EXCEPT ![n] = Append(@, [id |-> id, recorder |-> recorder])]
        /\ UNCHANGED running

createRecorder(n, id, not_in_dart, vs, ecs) ==
    LET finished == Finished(last_consensus_epoch[n], vs)
        stop == /\ shutdown[n] # 0
                /\ last_consensus_epoch[n] + Cardinality(finished) >= shutdown[n]
        throw == Disagreeing(vs) # {} \/ id \notin DOMAIN ecs
    IN  \/ throw /\ ThrowFromRecorder(n, finished, vs, ecs)
        \/ ~throw /\ stop /\ CommitShutdown(n, id, finished, vs, ecs)
        \/ ~throw /\ ~stop /\ CommitEpoch(n, id, not_in_dart, finished, vs, ecs)

\* Seeded fault: a vote is put to every unfinished epoch.
AddVotesToAll(n, ballot) ==
    [e \in DOMAIN votes[n] |-> [votes[n][e] EXCEPT !.votes = @ \cup ballot]]

\* Seeded fault: votes count when they are received, before the hashgraph ordered them.
AddVotesUnordered(n, ballot) ==
    [e \in DOMAIN votes[n] |->
        [votes[n][e] EXCEPT !.votes = @ \cup {v \in ballots : v.epoch = e}]]

(***************************************************************************)
(* consensusEpoch: the next epoch of the hashgraph. Its votes are put to   *)
(* the epochs they are for, a vote for an epoch that has no entry is       *)
(* dropped. Without inputs to check the recorder is made at once,          *)
(* otherwise when the DART has answered.                                   *)
(***************************************************************************)
AddVotes(n, ballot) ==
    [e \in DOMAIN votes[n] |->
        [votes[n][e] EXCEPT !.votes = @ \cup {v \in ballot : v.epoch = e}]]

epoch(n) ==
    LET id == last_epoch_number[n] + 1
        vs == AddVotes(n, consensus[id].votes)
        ecs == With(epoch_contracts[n], id, [contracts |-> consensus[id].contracts,
                                             witnesses |-> consensus[id].witnesses[n]])
        inputs == InputsOf(consensus[id].contracts)
    IN  /\ running[n] = "up"
        /\ id \in DOMAIN consensus
        /\ last_epoch_number' = [last_epoch_number EXCEPT ![n] = id]
        /\ \/ /\ inputs = {}
              /\ createRecorder(n, id, {}, vs, ecs)
              /\ UNCHANGED dart_box
           \/ /\ inputs # {}
              /\ votes' = [votes EXCEPT ![n] = vs]
              /\ epoch_contracts' = [epoch_contracts EXCEPT ![n] = ecs]
              /\ dart_box' = [dart_box EXCEPT ![n] =
                     Append(@, [method |-> "checkRead", id |-> id, inputs |-> inputs])]
              /\ UNCHANGED <<last_consensus_epoch, previous_epoch, products, last_globals,
                             commits, running>>
        /\ UNCHANGED <<networkVars, shutdown, checked, bullseyes, storageVars>>

\* dartCheckReadRR.Response: which inputs of the epoch the DART does not have.
receiveChecked(n) ==
    /\ running[n] = "up"
    /\ checked[n] # <<>>
    /\ checked' = [checked EXCEPT ![n] = Tail(@)]
    /\ createRecorder(n, Head(checked[n]).id, Head(checked[n]).not_in_dart,
                      votes[n], epoch_contracts[n])
    /\ UNCHANGED <<networkVars, shutdown, last_epoch_number, dart_box, bullseyes, storageVars>>

\* EpochCommitRR.Response: the node's own bullseye of an epoch, which it votes for.
receiveBullseye(n) ==
    LET res == Head(bullseyes[n])
    IN  /\ running[n] = "up"
        /\ bullseyes[n] # <<>>
        /\ res.id \in DOMAIN votes[n]
        /\ bullseyes' = [bullseyes EXCEPT ![n] = Tail(@)]
        /\ votes' = [votes EXCEPT ![n][res.id].bullseye = res.bullseye,
                                  ![n][res.id].recorder_block = res.block]
        /\ ballots' = ballots \cup
               {[owner |-> n, epoch |-> res.id, bullseye |-> res.bullseye]}
        /\ UNCHANGED <<consensus, produced, running, shutdown, last_epoch_number,
                       last_consensus_epoch, previous_epoch, executionVars, dart_box,
                       checked, commits, storageVars>>

\* producedContract: the TVM executed contract c.
produceContract(n, c) ==
    /\ running[n] = "up"
    /\ c \notin produced[n]
    /\ produced' = [produced EXCEPT ![n] = @ \cup {c}]
    /\ products' = [products EXCEPT ![n] = @ \cup {c}]
    /\ UNCHANGED <<consensus, ballots, running, shutdown, last_epoch_number, votingVars,
                   epoch_contracts, last_globals, boxVars, storageVars>>

\* EpochShutdown: the last epoch is scheduled.
epoch_shutdown(n, s) ==
    /\ running[n] = "up"
    /\ shutdown' = [shutdown EXCEPT ![n] = s]
    /\ UNCHANGED <<networkVars, running, last_epoch_number, votingVars, executionVars,
                   boxVars, storageVars>>
===============================================================================
