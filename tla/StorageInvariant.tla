--------------------------- MODULE StorageInvariant ---------------------------
(***************************************************************************)
(* Two more inductive invariants of EpochPipeline, on top of Invariant.    *)
(* They look at the recorders of a node, which are first with epoch_commit *)
(* (waiting) and then in the DART (applied).  FlowInvariant is about the   *)
(* epochs that recorders open and finish, and holds whatever the timing;   *)
(* SpendingInvariant is about the bills that they remove and add, and      *)
(* holds when a node has one epoch in flight.                              *)
(***************************************************************************)
EXTENDS EpochInvariant, Functions

\* What epoch_commit works on, as it was in its mailbox.
Working(n) == [id |-> committing[n].id, recorder |-> committing[n].recorder]

WorkingAt(n, place) ==
    IF committing[n] # None /\ committing[n].at = place THEN {Working(n)} ELSE {}

\* The requests whose recorders are not in the DART yet.
Waiting(n) == Range(commits[n]) \cup WorkingAt(n, "dart")

\* Those whose recorders are.
Logged(n) == {[id |-> b.epoch, recorder |-> b.recorder] : b \in Range(last_block[n])}

Applied(n) == Logged(n) \cup WorkingAt(n, "replicator")

Checks(s) == {s[i] : i \in ChecksIn(s)}

Modifies(s) == {s[i].recorder : i \in ModifiesIn(s)}

--------------------------------------------------------------------------------
\* Every answer of the DART finds the contracts of its epoch.
ChecksKnown(n) ==
    CheckIds(dart_box[n]) \cup Ids(checked[n]) \subseteq DOMAIN epoch_contracts[n]

\* What the DART is to store is the recorder that epoch_commit works on.
StoresCommitted(n) == \A r \in Modifies(dart_box[n]) : r = committing[n].recorder

\* A recorder opens its own epoch, and moves the head there, or neither.
OpensOwnEpoch(n) ==
    \A x \in Waiting(n) :
        /\ x.recorder.open \subseteq {x.id}
        /\ running[n] = "up" /\ x.recorder.head # 0 => x.recorder.open # {}

Opens(n) == UNION {x.recorder.open : x \in Waiting(n)}

Finals(n) == UNION {x.recorder.final : x \in Waiting(n)}

\* The epochs that are opened are before the scheduled one.
OpensBeforeShutdown(n) ==
    \A e \in dart[n].locked \cup Opens(n) :
        /\ e \in 1..last_epoch_number[n]
        /\ shutdown[n] # 0 => e < shutdown[n]

\* Unless a vote disagrees, the epochs that count as finished are stored as finished
\* and unlocked in the DART, or will be.
FinishedReachDART(n) ==
    running[n] = "up" /\ Disagreeing(votes[n]) = {} =>
        /\ 1..last_consensus_epoch[n] \subseteq dart[n].final \cup Finals(n)
        /\ \A e \in dart[n].locked : e <= last_consensus_epoch[n] => e \in Finals(n)

\* What is waiting when the transcript has stopped cleans the DART and sets the head.
StopsClean(n) ==
    running[n] # "up" =>
        /\ shutdown[n] # 0
        /\ 1..shutdown[n] \subseteq dart[n].final \cup Finals(n)
        /\ dart[n].locked \subseteq Finals(n)
        /\ \A x \in Waiting(n) : x.recorder.open = {} /\ x.recorder.head \in {0, shutdown[n]}
        /\ dart[n].head # shutdown[n] => \E x \in Waiting(n) : x.recorder.head = shutdown[n]

Flow(n) ==
    /\ ChecksKnown(n) /\ StoresCommitted(n)
    /\ OpensOwnEpoch(n) /\ OpensBeforeShutdown(n)
    /\ FinishedReachDART(n) /\ StopsClean(n)

FlowInvariant == Invariant /\ \A n \in Node : Flow(n)

--------------------------------------------------------------------------------
\* Epochs between the hashgraph and the log.
Busy(n) ==
    CheckIds(dart_box[n]) \cup Ids(checked[n]) \cup Ids(commits[n]) \cup CommittingIds(n)

OneBusy(n) == \A d, e \in Busy(n) : d = e

Recorders(n) == Waiting(n) \cup Applied(n)

\* A contract is executed once, and no product of it is left.
ExecutedOnce(n) ==
    /\ products[n] \subseteq produced[n]
    /\ \A x \in Recorders(n) : x.recorder.adds \subseteq produced[n] \ products[n]
    /\ \A x, y \in Recorders(n) : x # y => x.recorder.adds \cap y.recorder.adds = {}

\* A recorder removes the inputs of the contracts that it executed, each once.
RemovesInputs(n) ==
    \A x \in Recorders(n) :
        /\ x.recorder.removes = UNION {Inputs[c] : c \in x.recorder.adds}
        /\ \A c, d \in x.recorder.adds : c # d => Inputs[c] \cap Inputs[d] = {}

InputsAt(n, id) == InputsOf(epoch_contracts[n][id].contracts)

\* The DART is asked for the inputs of the epoch, and its answer is true when it is used.
ChecksTrue(n) ==
    /\ \A q \in Checks(dart_box[n]) : InputsAt(n, q.id) \subseteq q.inputs
    /\ \A a \in Range(checked[n]) : InputsAt(n, a.id) \ dart[n].bills \subseteq a.not_in_dart

\* What a waiting recorder removes is in the DART.
RemovesPresent(n) == \A x \in Waiting(n) : x.recorder.removes \subseteq dart[n].bills

Gone(n) == UNION {x.recorder.removes : x \in Applied(n)}

Made(n) == UNION {x.recorder.adds : x \in Applied(n)}

\* What was spent is not in the DART, and was not spent twice.
SpentIsGone(n) ==
    /\ Gone(n) \cap dart[n].bills = {}
    /\ Gone(n) \cup dart[n].bills \subseteq Bill \cup Made(n)
    /\ \A x, y \in Applied(n) : x # y => x.recorder.removes \cap y.recorder.removes = {}

\* The statistics are those of the DART with what is waiting, one recorder at most.
GlobalsAhead(n) ==
    /\ Waiting(n) = {} => last_globals[n] = Cardinality(dart[n].bills)
    /\ \A x \in Waiting(n) : last_globals[n] = Cardinality(modify(dart[n], x.recorder).bills)

Spending(n) ==
    /\ OneBusy(n)
    /\ ExecutedOnce(n) /\ RemovesInputs(n)
    /\ ChecksTrue(n) /\ RemovesPresent(n) /\ SpentIsGone(n)
    /\ GlobalsAhead(n)

SpendingInvariant == \A n \in Node : Spending(n)
================================================================================
