--------------------------- MODULE InStepInvariant ---------------------------
(***************************************************************************)
(* The inductive invariant of nodes that take an epoch when the one before *)
(* is stored, with the products of its contracts at hand, and without a    *)
(* scheduled shutdown.  Then the consensus order alone determines what all *)
(* nodes store, but for the WitnessHead: the recorder of an epoch and the  *)
(* DART after it.  Determined goes through the order and computes it once; *)
(* with the witnesses that a node had of each round it gives the blocks,   *)
(* the Epoch records and the votes of that node.  The invariant says of    *)
(* each node that it holds just that, up to the epoch and the stage of the *)
(* pipeline that it has reached.  Nodes that had different witnesses of a  *)
(* round have different bullseyes; a node makes recorders up to the epoch  *)
(* that brings it a vote of such a node, and none from there on.           *)
(*                                                                         *)
(* A life of the network is the order of its epochs, with the DART that it *)
(* started from and the epoch of the head of that DART: the genesis, or    *)
(* what a crash left behind.                                               *)
(***************************************************************************)
EXTENDS EpochPipeline

LifeFrom(head, content) == [epoch |-> head, dart |-> content, order |-> consensus]

(***************************************************************************)
(* What the consensus order determines                                     *)
(***************************************************************************)
\* The votes for epoch e that the epochs up to i carry.
VotesOn(life, e, i) == {v \in UNION {life.order[j].votes : j \in 1..i} : v.epoch = e}

\* All nodes had the same witnesses of the round of epoch e.
Alike(life, e) ==
    \A n, m \in Node : life.order[e].witnesses[n] = life.order[e].witnesses[m]

\* The epochs that epoch i finishes, when the ones up to last are.
FinishedBy(life, last, i) ==
    {e \in (last + 1)..(i - 1) :
        \A k \in (last + 1)..e :
            Alike(life, k) /\ {v.owner : v \in VotesOn(life, k, i)} = Node}

\* The recorder of epoch i, in a state of the DART and of the epoch chain.
RecorderOf(life, i, state) ==
    LET cs == life.order[i].contracts
        exec == Executed(cs, i, InputsOf(cs) \ state.dart.bills, Contract)
    IN  [head |-> i, open |-> {i}, final |-> FinishedBy(life, state.finished, i),
         adds |-> exec, removes |-> UNION {Inputs[c] : c \in exec}, witnesses |-> {}]

After(life, i, state) ==
    LET r == RecorderOf(life, i, state)
    IN  [dart |-> modify(state.dart, r), finished |-> state.finished + Cardinality(r.final)]

\* The DART and the last finished epoch after each epoch of a life.
Determined(life) ==
    LET state[i \in life.epoch..Len(life.order)] ==
            IF i = life.epoch THEN [dart |-> life.dart, finished |-> i]
            ELSE After(life, i, state[i - 1])
    IN  state

(***************************************************************************)
(* What it determines together with the witnesses of a node                *)
(***************************************************************************)
\* The WitnessHead in the DART of node n after epoch i.
HeadAt(life, n, i) ==
    IF i = life.epoch THEN life.dart.witnesses
    ELSE {[epoch |-> i, witnesses |-> life.order[i].witnesses[n]]}

DartAt(life, n, i) ==
    [Determined(life)[i].dart EXCEPT !.witnesses = HeadAt(life, n, i)]

RecorderAt(life, n, i) ==
    [RecorderOf(life, i, Determined(life)[i - 1]) EXCEPT !.witnesses = HeadAt(life, n, i)]

Request(life, n, i) == [id |-> i, recorder |-> RecorderAt(life, n, i)]

BlockAt(life, n, i) ==
    [epoch |-> i, recorder |-> RecorderAt(life, n, i), bullseye |-> DartAt(life, n, i)]

LogTo(life, n, i) == [j \in 1..(i - life.epoch) |-> BlockAt(life, n, life.epoch + j)]

EpochAt(life, n, i) ==
    [epoch |-> i, bullseye |-> DartAt(life, n, i), block |-> LogTo(life, n, i)]

ChainTo(life, n, i) == [j \in 1..(i - life.epoch) |-> EpochAt(life, n, life.epoch + j)]

\* The entry of epoch e in votes: known is the last epoch whose bullseye is there.
EntryAt(life, n, e, taken, known) ==
    [votes |-> VotesOn(life, e, taken),
     bullseye |-> IF e <= known THEN DartAt(life, n, e) ELSE None,
     recorder_block |-> IF e <= known THEN LogTo(life, n, e) ELSE <<>>]

WaitingAt(life, n, e) ==
    [contracts |-> life.order[e].contracts, witnesses |-> life.order[e].witnesses[n]]

\* An epoch up to i carries the vote of a node that had other witnesses than n.
Split(life, n, i) ==
    \E j \in 1..i : \E v \in life.order[j].votes :
        life.order[v.epoch].witnesses[v.owner] # life.order[v.epoch].witnesses[n]

\* Of the epochs up to called, node n makes recorders for those before such a vote.
MakesUpTo(life, n, made, called) ==
    /\ made \in life.epoch..called
    /\ ~Split(life, n, made)
    /\ made < called => Split(life, n, made + 1)

ContractsOf(life, i) == {life.order[i].contracts[j] : j \in DOMAIN life.order[i].contracts}

--------------------------------------------------------------------------------
(***************************************************************************)
(* The stages that an epoch goes through in a node                         *)
(***************************************************************************)
Stage == {"idle", "asked", "answered", "recorded", "storing", "stored", "logged"}

Recorded == {"recorded", "storing", "stored", "logged"}

\* The transcript has taken the epochs up to taken, called createRecorder for those up to
\* called, made the recorders up to made and knows the bullseyes up to known.
TranscriptAt(life, n, taken, called, made, known) ==
    LET finished == Determined(life)[called].finished
    IN  /\ running[n] = "up" /\ shutdown[n] = 0
        /\ last_epoch_number[n] = taken
        /\ last_consensus_epoch[n] = finished
        /\ previous_epoch[n] = ChainTo(life, n, finished)
        /\ votes[n] = [e \in (finished + 1)..made |-> EntryAt(life, n, e, taken, known)]
        /\ epoch_contracts[n] = [e \in (made + 1)..taken |-> WaitingAt(life, n, e)]
        /\ \A e \in (life.epoch + 1)..taken : ContractsOf(life, e) \subseteq produced[n]
        /\ products[n] = produced[n] \
               UNION {RecorderAt(life, n, i).adds : i \in (life.epoch + 1)..made}

\* The DART has the recorders up to stored, the log those up to logged.
StorageAt(life, n, stored, logged) ==
    /\ dart[n] = DartAt(life, n, stored)
    /\ last_block[n] = LogTo(life, n, logged)

\* The message about epoch e is in one place.
MessageAt(life, n, stage, e) ==
    LET inputs == InputsOf(life.order[e].contracts)
        recorder == RecorderAt(life, n, e)
    IN  /\ dart_box[n] =
               CASE stage = "asked" -> <<[method |-> "checkRead", id |-> e, inputs |-> inputs]>>
                 [] stage = "storing" -> <<[method |-> "modify", recorder |-> recorder]>>
                 [] OTHER -> <<>>
        /\ checked[n] =
               IF stage = "answered"
               THEN <<[id |-> e, not_in_dart |-> inputs \ dart[n].bills]>>
               ELSE <<>>
        /\ commits[n] = IF stage = "recorded" THEN <<Request(life, n, e)>> ELSE <<>>
        /\ committing[n] =
               CASE stage = "storing" -> [id |-> e, recorder |-> recorder, at |-> "dart"]
                 [] stage = "stored" -> [id |-> e, recorder |-> recorder, at |-> "replicator"]
                 [] OTHER -> None
        /\ bullseyes[n] =
               IF stage = "logged"
               THEN <<[id |-> e, bullseye |-> DartAt(life, n, e),
                       block |-> LogTo(life, n, e)]>>
               ELSE <<>>

InStage(life, n, stage, made) ==
    LET taken == last_epoch_number[n]
        before == IF stage = "idle" THEN taken ELSE taken - 1
        called == IF stage \in {"asked", "answered"} THEN before ELSE taken
        known == IF stage \in Recorded THEN before ELSE made
        stored == IF stage \in {"recorded", "storing"} THEN before ELSE made
        logged == IF stage \in {"recorded", "storing", "stored"} THEN before ELSE made
    IN  /\ taken \in life.epoch..Len(life.order) /\ before \in life.epoch..taken
        /\ stage \in Recorded => made = taken
        /\ MessageAt(life, n, stage, taken)
        /\ MakesUpTo(life, n, made, called)
        /\ StorageAt(life, n, stored, logged)
        /\ TranscriptAt(life, n, taken, called, made, known)

NodeInStep(life, n) ==
    \E stage \in Stage, made \in life.epoch..last_epoch_number[n] :
        InStage(life, n, stage, made)

(***************************************************************************)
(* What the hashgraph carries                                              *)
(***************************************************************************)
\* A contract is in one epoch.
ContractsOnce(life) ==
    \A i, j \in DOMAIN life.order :
        i # j => ContractsOf(life, i) \cap ContractsOf(life, j) = {}

\* The votes for an epoch come after it.
VotesFollow(life) ==
    \A i \in DOMAIN life.order : \A v \in life.order[i].votes : v \in ballots /\ v.epoch < i

\* A node votes for the bullseye that the order determines, of an epoch that it logged.
VotesDetermined(life) ==
    \A v \in ballots :
        /\ v \in ConsensusVoting
        /\ v.epoch \in (life.epoch + 1)..(life.epoch + Len(last_block[v.owner]))
        /\ v.bullseye = DartAt(life, v.owner, v.epoch)

LifeOK(life) ==
    /\ life.order \in Seq(ConsensusEpoch)
    /\ life.epoch \in 0..Len(life.order)
    /\ life.dart \in Content /\ life.dart.head = life.epoch

\* Every variable of a node is kept per node.
PerNode ==
    /\ DOMAIN produced = Node /\ DOMAIN running = Node /\ DOMAIN shutdown = Node
    /\ DOMAIN last_epoch_number = Node /\ DOMAIN last_consensus_epoch = Node
    /\ DOMAIN previous_epoch = Node /\ DOMAIN votes = Node
    /\ DOMAIN products = Node /\ DOMAIN epoch_contracts = Node /\ DOMAIN last_globals = Node
    /\ DOMAIN dart_box = Node /\ DOMAIN checked = Node
    /\ DOMAIN commits = Node /\ DOMAIN bullseyes = Node
    /\ DOMAIN committing = Node /\ DOMAIN dart = Node /\ DOMAIN last_block = Node

InStep(life) ==
    /\ life.order = consensus /\ LifeOK(life) /\ PerNode
    /\ ContractsOnce(life) /\ VotesFollow(life) /\ VotesDetermined(life)
    /\ \A n \in Node : NodeInStep(life, n)

InStepInvariant == InStep(LifeFrom(0, GenesisDART))
================================================================================
