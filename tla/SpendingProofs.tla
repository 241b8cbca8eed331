---------------------------- MODULE SpendingProofs ----------------------------
(***************************************************************************)
(* When a node has one epoch in flight, what it spends is in its DART and  *)
(* is spent once: the answer of dartCheckRead is still true when           *)
(* createRecorder uses it, since no other recorder is waiting then. The    *)
(* runs show that with two epochs in flight it is not so.                  *)
(***************************************************************************)
EXTENDS StorageProofs

SpendingFlow == FlowInvariant /\ SpendingInvariant

\* An epoch is taken when the node has none in flight.
LEMMA NothingBusy ==
    ASSUME MaxInFlight = 1, Invariant, NEW n \in Node, Timely(n)
    PROVE  Busy(n) = {}
<1>1. TypeOK /\ NodeInvariant(n)
  BY DEF Invariant
<1>2. /\ last_epoch_number[n] \in Nat
      /\ DOMAIN votes[n] \subseteq 1..last_epoch_number[n]
      /\ DOMAIN epoch_contracts[n] \subseteq 1..last_epoch_number[n]
  BY <1>1 DEF TypeOK, NodeTypeOK
<1>3. IsFiniteSet(1..last_epoch_number[n])
  BY <1>2, FS_Interval
<1>4. InFlight(n) \in SUBSET (1..last_epoch_number[n])
  BY <1>1 DEF NodeInvariant, InOneStage, InFlight
<1>5. IsFiniteSet(InFlight(n))
  BY <1>3, <1>4, FS_Subset
<1>6. Cardinality(InFlight(n)) \in Nat /\ Cardinality(InFlight(n)) < 1
  BY <1>5, FS_CardinalityType DEF Timely
<1>7. InFlight(n) = {}
  <2>1. Cardinality(InFlight(n)) = 0
    BY <1>6
  <2> QED BY <1>5, <2>1, FS_EmptySet
<1> QED BY <1>7 DEF InFlight, Busy

\* What is not busy is in no mailbox.
LEMMA BusyHolds ==
    ASSUME NEW n \in Node
    PROVE  /\ \A q \in Checks(dart_box[n]) : q.id \in CheckIds(dart_box[n]) /\ q.id \in Busy(n)
           /\ \A a \in Range(checked[n]) : a.id \in Ids(checked[n]) /\ a.id \in Busy(n)
           /\ \A x \in Range(commits[n]) : x.id \in Ids(commits[n]) /\ x.id \in Busy(n)
BY IdsOfRange DEF Busy

\* A step that makes no recorder and stores none keeps what was spent.
LEMMA SpendingBehind ==
    ASSUME NEW n \in Node, Spending(n),
           Waiting(n)' = Waiting(n), Applied(n)' = Applied(n), dart'[n] = dart[n],
           last_globals'[n] = last_globals[n],
           OneBusy(n)', ExecutedOnce(n)', ChecksTrue(n)'
    PROVE  Spending(n)'
<1>1. Recorders(n)' = Recorders(n)
  BY DEF Recorders
<1>2. RemovesInputs(n)' /\ RemovesPresent(n)'
  BY <1>1 DEF Spending, RemovesInputs, RemovesPresent
<1>3. Gone(n)' = Gone(n) /\ Made(n)' = Made(n)
  BY DEF Gone, Made
<1>4. SpentIsGone(n)'
  BY <1>3 DEF Spending, SpentIsGone
<1>5. GlobalsAhead(n)'
  BY DEF Spending, GlobalsAhead
<1> QED BY <1>2, <1>4, <1>5 DEF Spending

\* Products and recorders that stay as they are were executed once.
LEMMA ExecutedKept ==
    ASSUME NEW n \in Node, Spending(n), Waiting(n)' = Waiting(n), Applied(n)' = Applied(n),
           products'[n] = products[n], produced'[n] = produced[n]
    PROVE  ExecutedOnce(n)'
BY DEF Spending, ExecutedOnce, Recorders

\* A step that leaves the state of a node alone keeps what was spent.
LEMMA SpendingKept ==
    ASSUME NEW n \in Node, Spending(n), UNCHANGED NodeView(n)
    PROVE  Spending(n)'
<1> USE DEF NodeView
<1>1. Waiting(n)' = Waiting(n) /\ Applied(n)' = Applied(n)
  BY DEF Waiting, Applied, Logged, WorkingAt, Working
<1>2. OneBusy(n)'
  <2>1. Busy(n)' = Busy(n)
    BY DEF Busy, CommittingIds
  <2> QED BY <2>1 DEF Spending, OneBusy
<1>3. ChecksTrue(n)'
  BY DEF Spending, ChecksTrue, InputsAt
<1> QED BY <1>1, <1>2, <1>3, ExecutedKept, SpendingBehind

\* Neither epoch_commit nor the replicator spends.
LEMMA SpendingCommitting ==
    ASSUME SpendingFlow, NEW n \in Node, epoch_commit(n) \/ receiveRecorder(n)
    PROVE  Spending(n)'
<1> USE DEF networkVars, votingVars, executionVars, storageVars, boxVars
<1>1. Invariant /\ StoresCommitted(n) /\ Spending(n)
  BY DEF SpendingFlow, FlowInvariant, Flow, SpendingInvariant
<1>2. /\ Waiting(n)' = Waiting(n) /\ Applied(n)' = Applied(n)
      /\ Checks(dart_box[n])' = Checks(dart_box[n])
      /\ \A e \in Ids(commits[n])' \cup CommittingIds(n)' :
             e \in Ids(commits[n]) \cup CommittingIds(n)
  <2>1. CASE epoch_commit(n)
    BY <1>1, <2>1, EpochCommitEffect
  <2>2. CASE receiveRecorder(n)
    <3>1. Waiting(n)' = Waiting(n) /\ Applied(n)' = Applied(n) /\ committing'[n] = None
      BY <1>1, <2>2, ReceiveRecorderEffect
    <3>2. UNCHANGED <<dart_box, commits>>
      BY <2>2 DEF receiveRecorder
    <3> QED BY <3>1, <3>2 DEF CommittingIds
  <2> QED BY <2>1, <2>2
<1>3. UNCHANGED <<products, produced, epoch_contracts, last_globals, checked, dart>>
  BY DEF epoch_commit, receiveRecorder
<1>4. OneBusy(n)'
  <2>1. \A e \in CheckIds(dart_box[n])' : e \in CheckIds(dart_box[n])
    BY <1>2 DEF CheckIds, Checks
  <2>2. \A e \in Busy(n)' : e \in Busy(n)
    BY <1>2, <1>3, <2>1 DEF Busy
  <2> QED BY <1>1, <2>2 DEF Spending, OneBusy
<1>5. ChecksTrue(n)'
  BY <1>1, <1>2, <1>3 DEF Spending, ChecksTrue, InputsAt
<1> QED BY <1>1, <1>2, <1>3, <1>4, <1>5, ExecutedKept, SpendingBehind

\* The answer of the DART says which inputs of the epoch are missing.
LEMMA SpendingCheckRead ==
    ASSUME SpendingFlow, NEW n \in Node, checkRead(n)
    PROVE  Spending(n)'
<1> USE DEF networkVars, votingVars, executionVars, storageVars, boxVars
<1>1. Invariant /\ StoresCommitted(n) /\ Spending(n)
  BY DEF SpendingFlow, FlowInvariant, Flow, SpendingInvariant
<1>2. /\ Waiting(n)' = Waiting(n) /\ Applied(n)' = Applied(n)
      /\ Checks(dart_box[n])' \subseteq Checks(dart_box[n])
  BY <1>1, CheckReadEffect
<1>3. PICK q \in Checks(dart_box[n]) :
          Range(checked[n])' = Range(checked[n]) \cup
              {[id |-> q.id, not_in_dart |-> q.inputs \ dart[n].bills]}
  BY <1>1, CheckReadEffect
<1>4. UNCHANGED <<products, produced, epoch_contracts, last_globals, commits, committing, dart>>
  BY DEF checkRead
<1>5. OneBusy(n)'
  <2>1. \A e \in CheckIds(dart_box[n])' : e \in CheckIds(dart_box[n])
    BY <1>2 DEF CheckIds, Checks
  <2>2. \A e \in Ids(checked[n])' : e \in Ids(checked[n]) \/ e \in CheckIds(dart_box[n])
    <3>1. Ids(checked[n])' = {a.id : a \in Range(checked[n])'}
      BY DEF Ids, Range
    <3> QED BY <1>3, <3>1, IdsOfRange
  <2>3. Ids(commits[n])' = Ids(commits[n]) /\ CommittingIds(n)' = CommittingIds(n)
    BY <1>4 DEF CommittingIds
  <2>4. \A e \in Busy(n)' : e \in Busy(n)
    BY <2>1, <2>2, <2>3 DEF Busy
  <2> QED BY <1>1, <2>4 DEF Spending, OneBusy
<1>6. ChecksTrue(n)'
  <2>1. /\ \A p \in Checks(dart_box[n]) : InputsAt(n, p.id) \subseteq p.inputs
        /\ \A a \in Range(checked[n]) : InputsAt(n, a.id) \ dart[n].bills \subseteq a.not_in_dart
    BY <1>1 DEF Spending, ChecksTrue
  <2>2. \A e : InputsAt(n, e)' = InputsAt(n, e)
    BY <1>4 DEF InputsAt
  <2>3. \A p \in Checks(dart_box[n])' : InputsAt(n, p.id)' \subseteq p.inputs
    BY <1>2, <2>1, <2>2
  <2>4. \A a \in Range(checked[n])' : InputsAt(n, a.id)' \ dart'[n].bills \subseteq a.not_in_dart
    BY <1>3, <1>4, <2>1, <2>2
  <2> QED BY <2>3, <2>4 DEF ChecksTrue, InputsAt
<1> QED BY <1>1, <1>2, <1>4, <1>5, <1>6, ExecutedKept, SpendingBehind

\* modifyDART stores the only recorder that waits: nothing else is busy.
LEMMA SpendingModifyDART ==
    ASSUME SpendingFlow, NEW n \in Node, modifyDART(n)
    PROVE  Spending(n)'
<1> USE DEF networkVars, votingVars, executionVars, storageVars, boxVars
<1> DEFINE x == Working(n)
           r == x.recorder
<1>1. Invariant /\ NodeInvariant(n) /\ TypeOK /\ StoresCommitted(n) /\ Spending(n)
  BY DEF SpendingFlow, FlowInvariant, Flow, Invariant, SpendingInvariant
<1>2. /\ x \in CommitRequest /\ x.id \in CommittingIds(n) /\ x \notin Applied(n)
      /\ CommittingIds(n)' = CommittingIds(n)
      /\ Waiting(n) = Range(commits[n]) \cup {x}
      /\ Waiting(n)' = Range(commits[n])
      /\ Applied(n)' = Applied(n) \cup {x}
      /\ dart'[n] = modify(dart[n], r)
      /\ Checks(dart_box[n])' \subseteq Checks(dart_box[n])
  BY <1>1, ModifyDARTEffect
<1> HIDE DEF x
<1>3. UNCHANGED <<products, produced, epoch_contracts, last_globals, checked, commits>>
  BY DEF modifyDART
<1>4. r.adds \subseteq Contract
  BY <1>2 DEF CommitRequest, Recorder
<1> HIDE DEF r
<1>5. x \in Waiting(n) /\ x \in Recorders(n)
  BY <1>2 DEF Recorders
<1>6. dart'[n].bills = (dart[n].bills \ r.removes) \cup r.adds
  BY <1>2 DEF modify
<1>7. /\ r.removes \subseteq dart[n].bills
      /\ Gone(n) \cap dart[n].bills = {}
      /\ Gone(n) \cup dart[n].bills \subseteq Bill \cup Made(n)
  BY <1>1, <1>5 DEF Spending, RemovesPresent, SpentIsGone, r
<1>8. \A e \in Busy(n) : e = x.id
  BY <1>1, <1>2 DEF Spending, OneBusy, Busy
<1>9. Range(commits[n]) = {} /\ Checks(dart_box[n]) = {} /\ Range(checked[n]) = {}
  <2>1. x.id \notin Ids(commits[n]) /\ x.id \notin CheckIds(dart_box[n]) /\ x.id \notin Ids(checked[n])
    BY <1>1, <1>2 DEF NodeInvariant, InOneStage
  <2> QED BY <1>8, <2>1, BusyHolds
<1>10. Waiting(n)' = {} /\ Checks(dart_box[n])' = {} /\ Range(checked[n])' = {}
  <2>1. Range(checked[n])' = Range(checked[n])
    BY <1>3
  <2> QED BY <1>2, <1>9, <2>1
<1>11. OneBusy(n)'
  <2>1. \A e \in CheckIds(dart_box[n])' : e \in CheckIds(dart_box[n])
    BY <1>2 DEF CheckIds, Checks
  <2>2. \A e \in Busy(n)' : e \in Busy(n)
    BY <1>2, <1>3, <2>1 DEF Busy
  <2> QED BY <1>1, <2>2 DEF Spending, OneBusy
<1>12. \A y \in Recorders(n)' : y \in Recorders(n)
  BY <1>2, <1>5, <1>9 DEF Recorders
<1>13. ExecutedOnce(n)' /\ RemovesInputs(n)'
  BY <1>1, <1>3, <1>12 DEF Spending, ExecutedOnce, RemovesInputs
<1>14. ChecksTrue(n)' /\ RemovesPresent(n)'
  BY <1>10 DEF ChecksTrue, RemovesPresent
<1>15. Gone(n)' = Gone(n) \cup r.removes /\ Made(n)' = Made(n) \cup r.adds
  BY <1>2 DEF Gone, Made, r
<1>16. SpentIsGone(n)'
  <2>1. Made(n) \cap r.adds = {}
    BY <1>1, <1>2, <1>5 DEF Spending, ExecutedOnce, Made, Recorders, r
  <2>2. Bill \cap r.adds = {}
    BY <1>4, ContractAssumption
  <2>3. /\ (Gone(n) \cup r.removes) \cap dart'[n].bills = {}
        /\ Gone(n) \cup r.removes \cup dart'[n].bills \subseteq Bill \cup Made(n) \cup r.adds
    BY <1>6, <1>7, <2>1, <2>2
  <2>4. \A y \in Applied(n) : y.recorder.removes \cap r.removes = {}
    BY <1>7 DEF Gone
  <2>5. \A y, z \in Applied(n)' :
            y # z => y.recorder.removes \cap z.recorder.removes = {}
    BY <1>1, <1>2, <2>4 DEF Spending, SpentIsGone, r
  <2> QED BY <1>15, <2>3, <2>5 DEF SpentIsGone
<1>17. GlobalsAhead(n)'
  <2>1. last_globals[n] = Cardinality(dart'[n].bills)
    BY <1>1, <1>2, <1>5 DEF Spending, GlobalsAhead, r
  <2> QED BY <1>3, <1>10, <2>1 DEF GlobalsAhead
<1> QED BY <1>11, <1>13, <1>14, <1>16, <1>17 DEF Spending

\* createRecorder, when nothing else is busy: what it executes was not executed before, and
\* spends what is in the DART.
LEMMA SpendingRecording ==
    ASSUME Invariant, NEW n \in Node, Spending(n), NEW id, NEW absent, NEW vs, NEW ecs,
           Recording(n, id, absent, vs, ecs), \A e \in Busy(n) : e = id,
           InputsOf(ecs[id].contracts) \ dart[n].bills \subseteq absent
    PROVE  Spending(n)'
<1> USE DEF networkVars, storageVars
<1>1. TypeOK
  BY DEF Invariant
<1>2. Applied(n)' = Applied(n)
  BY RecordingEffect
<1>3. /\ UNCHANGED <<produced, dart_box, committing, dart>>
      /\ Range(checked'[n]) \subseteq Range(checked[n])
      /\ id \notin CheckIds(dart_box[n]) \cup Ids(checked'[n])
      /\ id \notin Ids(commits[n]) \cup CommittingIds(n)
      /\ id \in DOMAIN ecs /\ ecs[id].contracts \in Seq(Contract)
  BY DEF Recording, RecorderInput, EpochContracts
<1>4. Range(commits[n]) = {} /\ committing[n] = None /\ Checks(dart_box[n]) = {}
  <2>1. committing[n] # None => committing[n].id \in Busy(n) /\ committing[n].id \in CommittingIds(n)
    BY DEF Busy, CommittingIds
  <2> QED BY <1>3, <2>1, BusyHolds
<1>5. Waiting(n) = {} /\ CheckIds(dart_box[n]) = {}
  BY <1>4, IdsOfRange DEF Waiting, WorkingAt
<1>6. Range(checked'[n]) = {} /\ Ids(checked'[n]) = {}
  <2>1. \A a \in Range(checked'[n]) : a.id \in Ids(checked'[n]) /\ a.id = id
    BY <1>3, BusyHolds DEF Range, Ids
  <2>2. Range(checked'[n]) = {}
    BY <1>3, <2>1
  <2> QED BY <2>2 DEF Range, Ids
<1>7. ChecksTrue(n)'
  BY <1>3, <1>4, <1>6 DEF ChecksTrue
<1>8. ASSUME \A y \in Range(commits[n])' : y.id = id
      PROVE  OneBusy(n)'
  <2>1. \A e \in Ids(commits'[n]) : e = id
    BY <1>8 DEF Ids, Range
  <2>2. CheckIds(dart_box[n])' = {} /\ CommittingIds(n)' = {}
    BY <1>3, <1>4, <1>5 DEF CommittingIds
  <2>3. \A e \in Busy(n)' : e = id
    BY <1>6, <2>1, <2>2 DEF Busy
  <2> QED BY <2>3 DEF OneBusy
<1>9. last_globals[n] = Cardinality(dart[n].bills)
  BY <1>5 DEF Spending, GlobalsAhead
<1>10. CASE RecorderLost(n, ecs)
  <2>1. UNCHANGED <<products, last_globals, commits>>
    BY <1>10 DEF RecorderLost
  <2>2. Waiting(n)' = Waiting(n)
    BY <1>3, <2>1 DEF Waiting, WorkingAt, Working
  <2>3. OneBusy(n)'
    <3>1. Range(commits[n])' = {}
      BY <1>4, <2>1
    <3> QED BY <1>8, <3>1
  <2> QED BY <1>2, <1>3, <1>7, <2>1, <2>2, <2>3, ExecutedKept, SpendingBehind
<1>11. CASE \E r \in Recorder : Sent(n, id, absent, vs, ecs, r)
  <2> PICK r \in Recorder : Sent(n, id, absent, vs, ecs, r)
    BY <1>11
  <2> DEFINE x == [id |-> id, recorder |-> r]
  <2>1. /\ x.id = id /\ x.recorder = r
        /\ Range(commits[n])' = {x} /\ Waiting(n)' = {x}
        /\ ShutdownSent(n, r) \/ RecorderSent(n, id, absent, ecs, r)
    BY <1>4, <1>5 DEF Sent
  <2> HIDE DEF x
  <2>2. /\ r.adds \subseteq products[n]
        /\ products'[n] = products[n] \ r.adds
        /\ r.removes = UNION {Inputs[c] : c \in r.adds}
        /\ \A c, d \in r.adds : c # d => Inputs[c] \cap Inputs[d] = {}
        /\ r.removes \subseteq dart[n].bills
        /\ last_globals'[n] = last_globals[n] + Cardinality(r.adds) - Cardinality(r.removes)
    <3>1. CASE ShutdownSent(n, r)
      <4>1. r.adds = {} /\ r.removes = {} /\ UNCHANGED <<products, last_globals>>
        BY <3>1 DEF ShutdownSent
      <4>2. last_globals[n] \in Int /\ Cardinality({}) = 0
        BY <1>1, FS_EmptySet DEF TypeOK
      <4> QED BY <4>1, <4>2
    <3>2. CASE RecorderSent(n, id, absent, ecs, r)
      <4>1. /\ r.adds = Executed(ecs[id].contracts, id, absent, products[n])
            /\ r.removes = UNION {Inputs[c] : c \in r.adds}
            /\ products'[n] = products[n] \ r.adds
            /\ last_globals'[n] = last_globals[n] + Cardinality(r.adds) - Cardinality(r.removes)
        BY <3>2 DEF RecorderSent
      <4>2. /\ \A c \in r.adds : /\ \E i \in DOMAIN ecs[id].contracts : c = ecs[id].contracts[i]
                                  /\ c \in products[n] /\ Inputs[c] \cap absent = {}
            /\ \A c, d \in r.adds : c # d => Inputs[c] \cap Inputs[d] = {}
        BY <1>3, <4>1, ExecutedSpends
      <4>3. \A c \in r.adds : Inputs[c] \subseteq InputsOf(ecs[id].contracts)
        BY <4>2 DEF InputsOf
      <4>4. \A c \in r.adds : Inputs[c] \subseteq dart[n].bills
        BY <4>2, <4>3
      <4>5. r.removes \subseteq dart[n].bills
        BY <4>1, <4>4
      <4> QED BY <4>1, <4>2, <4>5
    <3> QED BY <2>1, <3>1, <3>2
  <2>3. OneBusy(n)'
    BY <1>8, <2>1
  <2>4. /\ products[n] \subseteq produced[n]
        /\ \A y \in Applied(n) : y.recorder.adds \subseteq produced[n] \ products[n]
        /\ \A y, z \in Applied(n) : y # z => y.recorder.adds \cap z.recorder.adds = {}
    BY DEF Spending, ExecutedOnce, Recorders
  <2>5. Recorders(n)' = Applied(n) \cup {x}
    BY <1>2, <2>1 DEF Recorders
  <2>6. ExecutedOnce(n)'
    <3>1. \A y \in Applied(n) : y.recorder.adds \cap r.adds = {}
      BY <2>2, <2>4
    <3>2. r.adds \subseteq produced[n] \ products'[n] /\ products'[n] \subseteq produced[n]
      BY <2>2, <2>4
    <3>3. \A y \in Applied(n) \cup {x} : y.recorder.adds \subseteq produced[n] \ products'[n]
      BY <2>1, <2>2, <2>4, <3>2
    <3>4. \A y, z \in Applied(n) \cup {x} : y # z => y.recorder.adds \cap z.recorder.adds = {}
      BY <2>1, <2>4, <3>1
    <3> QED BY <1>3, <2>5, <3>2, <3>3, <3>4 DEF ExecutedOnce
  <2>7. RemovesInputs(n)'
    BY <2>1, <2>2, <2>5 DEF Spending, RemovesInputs, Recorders
  <2>8. RemovesPresent(n)'
    BY <1>3, <2>1, <2>2 DEF RemovesPresent
  <2>9. Gone(n)' = Gone(n) /\ Made(n)' = Made(n)
    BY <1>2 DEF Gone, Made
  <2>10. SpentIsGone(n)'
    BY <1>2, <1>3, <2>9 DEF Spending, SpentIsGone
  <2>11. GlobalsAhead(n)'
    <3>1. IsFiniteSet(dart[n].bills) /\ IsFiniteSet(r.adds)
      <4>1. dart[n].bills \in SUBSET Archive /\ r.adds \in SUBSET Archive
        BY <1>1 DEF TypeOK, Content, Recorder, Archive
      <4> QED BY <4>1, ArchiveFinite, FS_Subset
    <3>2. dart[n].bills \cap r.adds = {}
      <4>1. dart[n].bills \subseteq Bill \cup Made(n)
        BY DEF Spending, SpentIsGone
      <4>2. Made(n) \cap r.adds = {}
        BY <2>2, <2>4 DEF Made
      <4>3. Bill \cap r.adds = {}
        BY ContractAssumption DEF Recorder
      <4> QED BY <4>1, <4>2, <4>3
    <3> DEFINE left == dart[n].bills \ r.removes
    <3>3. IsFiniteSet(left) /\ Cardinality(left) = Cardinality(dart[n].bills) - Cardinality(r.removes)
      <4>1. dart[n].bills \cap r.removes = r.removes
        BY <2>2
      <4> QED BY <3>1, <4>1, FS_Difference
    <3>4. Cardinality(left \cup r.adds)
              = Cardinality(left) + Cardinality(r.adds) - Cardinality({})
      <4>1. left \cap r.adds = {}
        BY <3>2
      <4> HIDE DEF left
      <4> QED BY <3>1, <3>3, <4>1, FS_Union
    <3>5. /\ Cardinality({}) = 0 /\ Cardinality(left) \in Nat /\ Cardinality(r.adds) \in Nat
          /\ Cardinality(dart[n].bills) \in Nat
      BY <3>1, <3>3, FS_EmptySet, FS_CardinalityType
    <3>6. modify(dart[n], r).bills = left \cup r.adds
      BY DEF modify
    <3>7. r.removes \in SUBSET dart[n].bills /\ Cardinality(r.removes) \in Nat
      <4>1. r.removes \in SUBSET dart[n].bills
        BY <2>2
      <4>2. IsFiniteSet(r.removes)
        BY <3>1, <4>1, FS_Subset
      <4> QED BY <4>1, <4>2, FS_CardinalityType
    <3> HIDE DEF left
    <3>8. last_globals'[n] = Cardinality(modify(dart[n], r).bills)
      BY <1>9, <2>2, <3>3, <3>4, <3>5, <3>6, <3>7
    <3> QED BY <1>3, <2>1, <3>8 DEF GlobalsAhead
  <2> QED BY <1>7, <2>3, <2>6, <2>7, <2>8, <2>10, <2>11 DEF Spending
<1> QED BY <1>10, <1>11, RecordingEffect

\* epoch and receiveChecked: the answer of the DART holds until it is used.
LEMMA SpendingTranscript ==
    ASSUME MaxInFlight = 1, SpendingFlow, NEW n \in Node,
           (epoch(n) /\ Timely(n)) \/ receiveChecked(n)
    PROVE  Spending(n)'
<1> USE DEF storageVars
<1>1. Invariant /\ Flow(n) /\ ChecksKnown(n) /\ Spending(n)
  BY DEF SpendingFlow, FlowInvariant, Flow, SpendingInvariant
<1>2. CASE epoch(n) /\ Timely(n)
  <2>1. Busy(n) = {}
    BY <1>1, <1>2, NothingBusy DEF epoch
  <2>2. PICK id, vs, ecs :
            /\ EpochTaken(n, id, vs, ecs)
            /\ \/ Recording(n, id, {}, vs, ecs) /\ InputsOf(ecs[id].contracts) = {}
               \/ Asking(n, id, vs, ecs) /\ OthersKept(n)
    BY <1>1, <1>2, EpochRecordsOrAsks
  <2>3. CASE Recording(n, id, {}, vs, ecs) /\ InputsOf(ecs[id].contracts) = {}
    <3>1. \A e \in Busy(n) : e = id
      BY <2>1
    <3> QED BY <1>1, <2>3, <3>1, SpendingRecording
  <2>4. CASE Asking(n, id, vs, ecs)
    <3> DEFINE q == [method |-> "checkRead", id |-> id, inputs |-> InputsOf(ecs[id].contracts)]
    <3>1. /\ epoch_contracts'[n] = ecs
          /\ Checks(dart_box[n])' = Checks(dart_box[n]) \cup {q}
          /\ q.id = id /\ q.inputs = InputsOf(ecs[id].contracts)
          /\ UNCHANGED <<produced, products, last_globals, checked, commits, committing, dart,
                         last_block>>
      BY <2>4 DEF Asking, networkVars
    <3> HIDE DEF q
    <3>2. Waiting(n)' = Waiting(n) /\ Applied(n)' = Applied(n)
      BY <3>1 DEF Waiting, Applied, Logged, WorkingAt, Working
    <3>3. Checks(dart_box[n]) = {} /\ Range(checked[n]) = {}
      BY <2>1, BusyHolds
    <3>4. OneBusy(n)'
      <4>1. \A e \in CheckIds(dart_box[n])' : e = id
        BY <3>1, <3>3 DEF CheckIds, Checks
      <4>2. Ids(checked[n])' = {} /\ Ids(commits[n])' = {} /\ CommittingIds(n)' = {}
        BY <2>1, <3>1 DEF Busy, CommittingIds
      <4>3. \A e \in Busy(n)' : e = id
        BY <4>1, <4>2 DEF Busy
      <4> QED BY <4>3 DEF OneBusy
    <3>5. ChecksTrue(n)'
      <4>1. \A p \in Checks(dart_box[n])' : p = q
        BY <3>1, <3>3
      <4>2. InputsOf(epoch_contracts'[n][q.id].contracts) = q.inputs
        BY <3>1
      <4>3. Range(checked[n])' = {}
        BY <3>1, <3>3
      <4> QED BY <4>1, <4>2, <4>3 DEF ChecksTrue, InputsAt
    <3> QED BY <1>1, <3>1, <3>2, <3>4, <3>5, ExecutedKept, SpendingBehind
  <2> QED BY <2>2, <2>3, <2>4
<1>3. CASE receiveChecked(n)
  <2>1. PICK a \in Range(checked[n]) :
            Recording(n, a.id, a.not_in_dart, votes[n], epoch_contracts[n])
    BY <1>1, <1>3, ReceiveCheckedRecords
  <2>2. InputsOf(epoch_contracts[n][a.id].contracts) \ dart[n].bills \subseteq a.not_in_dart
    BY <1>1 DEF Spending, ChecksTrue, InputsAt
  <2>3. \A e \in Busy(n) : e = a.id
    BY <1>1, BusyHolds DEF Spending, OneBusy
  <2> QED BY <1>1, <2>1, <2>2, <2>3, SpendingRecording
<1> QED BY <1>2, <1>3

\* The other steps of a node.
LEMMA SpendingElsewhere ==
    ASSUME SpendingFlow, NEW n \in Node,
           \/ receiveBullseye(n)
           \/ scheduleShutdown(n) \/ stopServices(n)
           \/ \E c \in Contract : produceContract(n, c)
    PROVE  Spending(n)'
<1> USE DEF networkVars, votingVars, executionVars, storageVars, boxVars
<1>1. TypeOK /\ Spending(n)
  BY DEF SpendingFlow, FlowInvariant, Invariant, SpendingInvariant
<1>2. UNCHANGED <<epoch_contracts, last_globals, dart_box, checked, commits, storageVars>>
  BY DEF receiveBullseye, scheduleShutdown, epoch_shutdown, stopServices, produceContract
<1>3. Waiting(n)' = Waiting(n) /\ Applied(n)' = Applied(n)
  BY <1>2 DEF Waiting, Applied, Logged, WorkingAt, Working
<1>4. OneBusy(n)'
  <2>1. Busy(n)' = Busy(n)
    BY <1>2 DEF Busy, CommittingIds
  <2> QED BY <1>1, <2>1 DEF Spending, OneBusy
<1>5. ChecksTrue(n)'
  BY <1>1, <1>2 DEF Spending, ChecksTrue, InputsAt
<1>6. ExecutedOnce(n)'
  <2>1. CASE \E c \in Contract : produceContract(n, c)
    <3>1. PICK c \in Contract :
              /\ c \notin produced[n]
              /\ produced'[n] = produced[n] \cup {c}
              /\ products'[n] = products[n] \cup {c}
      BY <1>1, <2>1 DEF produceContract, TypeOK
    <3>2. Recorders(n)' = Recorders(n)
      BY <1>3 DEF Recorders
    <3>3. /\ products[n] \subseteq produced[n]
          /\ \A x \in Recorders(n) : x.recorder.adds \subseteq produced[n] \ products[n]
          /\ \A x, y \in Recorders(n) : x # y => x.recorder.adds \cap y.recorder.adds = {}
      BY <1>1 DEF Spending, ExecutedOnce
    <3> QED BY <3>1, <3>2, <3>3 DEF ExecutedOnce
  <2>2. CASE receiveBullseye(n) \/ scheduleShutdown(n) \/ stopServices(n)
    <3>1. products'[n] = products[n] /\ produced'[n] = produced[n]
      BY <2>2 DEF receiveBullseye, scheduleShutdown, epoch_shutdown, stopServices
    <3> QED BY <1>1, <1>3, <3>1, ExecutedKept
  <2> QED BY <2>1, <2>2
<1> QED BY <1>1, <1>2, <1>3, <1>4, <1>5, <1>6, SpendingBehind

\* A step of a node keeps what it spent.
LEMMA SpendingOfNode ==
    ASSUME MaxInFlight = 1, SpendingFlow, NEW n \in Node, NodeStep(n)
    PROVE  Spending(n)'
<1>1. CASE (epoch(n) /\ Timely(n)) \/ receiveChecked(n)
  BY <1>1, SpendingTranscript
<1>2. CASE \/ receiveBullseye(n)
           \/ scheduleShutdown(n) \/ stopServices(n)
           \/ \E c \in Contract : produceContract(n, c)
  BY <1>2, SpendingElsewhere
<1>3. CASE epoch_commit(n) \/ receiveRecorder(n)
  BY <1>3, SpendingCommitting
<1>4. CASE checkRead(n)
  BY <1>4, SpendingCheckRead
<1>5. CASE modifyDART(n)
  BY <1>5, SpendingModifyDART
<1> QED BY <1>1, <1>2, <1>3, <1>4, <1>5 DEF NodeStep

\* A node that has booted has spent nothing.
LEMMA InitSpending ==
    ASSUME Init
    PROVE  SpendingFlow
<1> USE DEF Init
<1>1. ASSUME NEW n \in Node PROVE Spending(n)
  <2>1. /\ CheckIds(<<>>) = {} /\ Checks(<<>>) = {} /\ Ids(<<>>) = {} /\ Range(<<>>) = {}
    BY DEF CheckIds, Checks, ChecksIn, Ids, Range
  <2>2. Waiting(n) = {} /\ Applied(n) = {} /\ Busy(n) = {}
    BY <2>1 DEF Waiting, WorkingAt, Applied, Logged, Busy, CommittingIds
  <2>3. Gone(n) = {} /\ Made(n) = {} /\ dart[n].bills = Bill
    BY <2>2 DEF Gone, Made, GenesisDART
  <2>4. OneBusy(n) /\ ExecutedOnce(n) /\ RemovesInputs(n)
    BY <2>2 DEF OneBusy, ExecutedOnce, RemovesInputs, Recorders
  <2>5. ChecksTrue(n) /\ RemovesPresent(n) /\ SpentIsGone(n) /\ GlobalsAhead(n)
    BY <2>1, <2>2, <2>3 DEF ChecksTrue, RemovesPresent, SpentIsGone, GlobalsAhead
  <2> QED BY <2>4, <2>5 DEF Spending
<1> QED BY <1>1, InitFlow DEF SpendingFlow, SpendingInvariant

\* Every step preserves SpendingInvariant.
LEMMA NextSpending ==
    ASSUME MaxInFlight = 1, SpendingFlow, [Next]_vars
    PROVE  SpendingFlow'
<1>1. FlowInvariant'
  BY NextFlow DEF SpendingFlow
<1>2. ASSUME NEW m \in Node PROVE Spending(m)'
  <2>1. CASE UNCHANGED NodeView(m)
    BY <2>1, SpendingKept DEF SpendingFlow, SpendingInvariant
  <2>2. CASE \E n \in Node : NodeStep(n)
    <3>1. PICK n \in Node : NodeStep(n)
      BY <2>2
    <3>2. CASE m = n
      BY <3>1, <3>2, SpendingOfNode
    <3>3. CASE m # n
      BY <2>1, <3>1, <3>3, FlowOfNode DEF SpendingFlow, OthersKept
    <3> QED BY <3>2, <3>3
  <2> QED BY <2>1, <2>2, NextIsNodeStep
<1> QED BY <1>1, <1>2 DEF SpendingFlow, SpendingInvariant

\* What a node spends with one epoch in flight is in its DART and is spent once, always.
THEOREM SpendingHolds ==
    ASSUME MaxInFlight = 1
    PROVE  Spec => []SpendingInvariant
<1>1. Init => SpendingFlow
  BY InitSpending
<1>2. SpendingFlow /\ [Next]_vars => SpendingFlow'
  BY NextSpending
<1>3. SpendingFlow => SpendingInvariant
  BY DEF SpendingFlow
<1> QED BY <1>1, <1>2, <1>3, PTL DEF Spec

(***************************************************************************)
(* No archive is spent twice when a node has one epoch in flight           *)
(* (createRecorder, dartCheckReadRR): two contracts that were executed     *)
(* have no input in common.                                                *)
(***************************************************************************)
THEOREM SpentOnce ==
    ASSUME MaxInFlight = 1
    PROVE  Spec => []NoDoubleSpend
<1>1. FlowInvariant /\ SpendingInvariant => NoDoubleSpend
  <2> SUFFICES ASSUME FlowInvariant, SpendingInvariant, NEW n \in Node,
                      NEW i \in DOMAIN last_block[n], NEW j \in DOMAIN last_block[n],
                      NEW c \in last_block[n][i].recorder.adds,
                      NEW d \in last_block[n][j].recorder.adds, i # j \/ c # d
               PROVE  Inputs[c] \cap Inputs[d] = {}
    BY DEF NoDoubleSpend
  <2> DEFINE at(k) == [id |-> last_block[n][k].epoch, recorder |-> last_block[n][k].recorder]
  <2>1. Spending(n) /\ UniqueEpochs(last_block[n])
    BY DEF SpendingInvariant, FlowInvariant, Invariant, NodeInvariant, OnceInStage
  <2>2. at(i) \in Applied(n) /\ at(j) \in Applied(n)
    BY DEF Applied, Logged, Range
  <2>3. /\ at(i).id = last_block[n][i].epoch /\ at(i).recorder = last_block[n][i].recorder
        /\ at(j).id = last_block[n][j].epoch /\ at(j).recorder = last_block[n][j].recorder
    OBVIOUS
  <2>4. i = j \/ at(i) # at(j)
    BY <2>1, <2>3 DEF UniqueEpochs
  <2> HIDE DEF at
  <2>5. /\ at(i).recorder.removes = UNION {Inputs[k] : k \in at(i).recorder.adds}
        /\ at(j).recorder.removes = UNION {Inputs[k] : k \in at(j).recorder.adds}
        /\ \A k, l \in at(i).recorder.adds : k # l => Inputs[k] \cap Inputs[l] = {}
    BY <2>1, <2>2 DEF Spending, RemovesInputs, Recorders
  <2>6. CASE i = j
    BY <2>3, <2>5, <2>6
  <2>7. CASE at(i) # at(j)
    <3>1. at(i).recorder.removes \cap at(j).recorder.removes = {}
      BY <2>1, <2>2, <2>7 DEF Spending, SpentIsGone
    <3>2. Inputs[c] \subseteq at(i).recorder.removes /\ Inputs[d] \subseteq at(j).recorder.removes
      BY <2>3, <2>5
    <3> QED BY <3>1, <3>2
  <2> QED BY <2>4, <2>6, <2>7
<1> QED BY <1>1, FlowHolds, SpendingHolds, PTL

(***************************************************************************)
(* TagionGlobals counts the bills of the DART when a node has one epoch in *)
(* flight (bill_statistics in createRecorder): a recorder removes only     *)
(* bills that are there and adds only bills that are not.                  *)
(***************************************************************************)
THEOREM GlobalsCount ==
    ASSUME MaxInFlight = 1
    PROVE  Spec => []GlobalsCountBills
<1>1. SpendingInvariant => GlobalsCountBills
  <2> SUFFICES ASSUME SpendingInvariant, NEW n \in Node, Quiescent(n)
               PROVE  last_globals[n] = Cardinality(dart[n].bills)
    BY DEF GlobalsCountBills
  <2>1. Waiting(n) = {}
    BY DEF Quiescent, Waiting, WorkingAt, Range
  <2> QED BY <2>1 DEF SpendingInvariant, Spending, GlobalsAhead
<1> QED BY <1>1, SpendingHolds, PTL
================================================================================
