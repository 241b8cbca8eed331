---------------------------- MODULE RestartProofs ----------------------------
(***************************************************************************)
(* What survives a crash: the proofs about PipelineRestart.                *)
(***************************************************************************)
EXTENDS InStepProofs, RestartInvariant

(***************************************************************************)
(* The recorders that a node stored                                        *)
(***************************************************************************)
\* The DART after the last of the recorders, with one more.
LEMMA DartAfterAppend ==
    ASSUME NEW s \in Seq(Recorder), NEW r \in Recorder
    PROVE  /\ \A i \in 0..Len(s) : DartAfter(Append(s, r), i) = DartAfter(s, i)
           /\ DartAfter(Append(s, r), Len(s) + 1) = modify(DartAfter(s, Len(s)), r)
<1>1. PICK longer : longer = Append(s, r)
  OBVIOUS
<1>2. PICK k : k = Len(s)
  OBVIOUS
<1>3. /\ k \in Nat /\ longer \in Seq(Recorder) /\ Len(longer) = k + 1
      /\ \A i \in 1..k : longer[i] = s[i]
      /\ longer[k + 1] = r
  BY <1>1, <1>2
<1> DEFINE log(t, i) == [j \in 1..i |-> [recorder |-> t[j]]]
<1>4. \A i \in 0..k : log(longer, i) = log(s, i)
  BY <1>3
<1>5. log(longer, k + 1) = Append(log(s, k), [recorder |-> r])
  <2>1. log(s, k) \in Seq([recorder : Recorder]) /\ Len(log(s, k)) = k
    BY <1>2, <1>3
  <2>2. /\ DOMAIN Append(log(s, k), [recorder |-> r]) = 1..(k + 1)
        /\ \A j \in 1..k : Append(log(s, k), [recorder |-> r])[j] = log(s, k)[j]
        /\ Append(log(s, k), [recorder |-> r])[k + 1] = [recorder |-> r]
    BY <1>3, <2>1
  <2>3. \A j \in 1..k : log(longer, k + 1)[j] = log(s, k)[j]
    BY <1>3
  <2>4. log(longer, k + 1)[k + 1] = [recorder |-> r]
    BY <1>3
  <2>5. DOMAIN log(longer, k + 1) = 1..(k + 1)
    OBVIOUS
  <2>6. Append(log(s, k), [recorder |-> r]) \in Seq([recorder : Recorder])
    BY <2>1
  <2>7. log(longer, k + 1) \in Seq([recorder : Recorder])
    BY <1>3
  <2> HIDE DEF log
  <2> QED BY <1>3, <2>2, <2>3, <2>4, <2>5, <2>6, <2>7
<1>6. log(s, k) \in Seq([recorder : Recorder]) /\ [recorder |-> r] \in [recorder : Recorder]
  BY <1>2, <1>3
<1>7. Replay(Append(log(s, k), [recorder |-> r])) = modify(Replay(log(s, k)), r)
  <2> DEFINE entry == [recorder |-> r]
  <2>1. entry \in [recorder : Recorder] /\ entry.recorder = r
    OBVIOUS
  <2> HIDE DEF log, entry
  <2>2. Replay(Append(log(s, k), entry)) = modify(Replay(log(s, k)), entry.recorder)
    BY <1>6, <2>1, ReplayAppend
  <2> QED BY <2>1, <2>2 DEF entry
<1> QED BY <1>1, <1>2, <1>4, <1>5, <1>7 DEF DartAfter

\* Before the first recorder the DART is the genesis DART.
LEMMA DartAfterNone == ASSUME NEW s PROVE DartAfter(s, 0) = GenesisDART
<1>1. [j \in 1..0 |-> [recorder |-> s[j]]] = <<>>
  OBVIOUS
<1> QED BY <1>1, ReplayEmpty DEF DartAfter

(* What a recorder does that spends the inputs of the contracts it executes, of an epoch of
   which no two contracts have an input in common. *)
Spends(r, bills) ==
    /\ r \in Recorder
    /\ r.removes = UNION {Inputs[c] : c \in r.adds}
    /\ r.removes \subseteq bills
    /\ \A c, d \in r.adds : c # d => Inputs[c] \cap Inputs[d] = {}

\* The recorders of a node do so.
LEMMA RecorderSpends ==
    ASSUME NEW life, LifeOK(life), NEW n \in Node,
           NEW i \in (life.epoch + 1)..Len(life.order)
    PROVE  Spends(RecorderAt(life, n, i), Determined(life)[i - 1].dart.bills)
<1> DEFINE state == Determined(life)[i - 1]
           cs == life.order[i].contracts
           absent == InputsOf(cs) \ state.dart.bills
           exec == Executed(cs, i, absent, Contract)
<1>1. cs \in Seq(Contract)
  BY EpochOfLife
<1>2. PICK r : r = RecorderAt(life, n, i)
  OBVIOUS
<1>3. /\ r \in Recorder
      /\ r.adds = SharedAt(life, i).adds /\ r.removes = SharedAt(life, i).removes
  BY <1>2, RecorderOfNode
<1>4. r.adds = exec /\ r.removes = UNION {Inputs[c] : c \in exec}
  BY <1>3 DEF SharedAt, RecorderOf
<1>5. /\ \A c \in exec : (\E j \in DOMAIN cs : c = cs[j]) /\ Inputs[c] \cap absent = {}
      /\ \A c, d \in exec : c # d => Inputs[c] \cap Inputs[d] = {}
  <2> HIDE DEF absent
  <2> QED BY <1>1, ExecutedSpends
<1> HIDE DEF exec
<1>6. \A c \in exec : Inputs[c] \subseteq state.dart.bills
  <2> TAKE c \in exec
  <2>1. Inputs[c] \subseteq InputsOf(cs)
    BY <1>5 DEF InputsOf
  <2> QED BY <1>5, <2>1
<1>7. r.removes \subseteq state.dart.bills
  BY <1>4, <1>6
<1>8. Spends(r, state.dart.bills)
  BY <1>3, <1>4, <1>5, <1>7 DEF Spends
<1> QED BY <1>2, <1>8

\* A contract whose inputs are bills of the DART was not executed before, if it has inputs:
\* the bill it makes is new and is none of those that were spent.
LEMMA AddsAreNew ==
    ASSUME \A c \in Contract : Inputs[c] # {},
           NEW recorders, NEW bills, SpentForGood(recorders, bills),
           NEW r, Spends(r, bills)
    PROVE  r.adds \cap (bills \cup Removed(recorders)) = {}
<1> SUFFICES ASSUME NEW c \in r.adds, c \in bills \cup Removed(recorders)
             PROVE  FALSE
  OBVIOUS
<1>1. c \in Contract /\ c \notin Bill
  BY ContractAssumption DEF Spends, Recorder
<1>2. c \in Added(recorders)
  BY <1>1 DEF SpentForGood
<1>3. PICK i \in DOMAIN recorders : c \in recorders[i].adds
  BY <1>2 DEF Added
<1>4. Inputs[c] \subseteq Removed(recorders)
  BY <1>3 DEF SpentForGood, Removed
<1>5. Inputs[c] \subseteq bills
  BY DEF Spends
<1> QED BY <1>1, <1>4, <1>5 DEF SpentForGood

\* A recorder that spends bills of the DART keeps what was spent spent.
LEMMA SpentKept ==
    ASSUME \A c \in Contract : Inputs[c] # {},
           NEW recorders \in Seq(Recorder), NEW bills, SpentForGood(recorders, bills),
           NEW r, Spends(r, bills)
    PROVE  SpentForGood(Append(recorders, r), (bills \ r.removes) \cup r.adds)
<1> DEFINE k == Len(recorders)
           longer == Append(recorders, r)
           left == (bills \ r.removes) \cup r.adds
<1>1. /\ k \in Nat /\ DOMAIN recorders = 1..k /\ DOMAIN longer = 1..(k + 1)
      /\ \A i \in 1..k : longer[i] = recorders[i]
      /\ longer[k + 1] = r
      /\ \A i \in 1..(k + 1) : i \in 1..k \/ i = k + 1
  BY DEF Spends
<1>2. r.adds \cap (bills \cup Removed(recorders)) = {}
  BY AddsAreNew
<1> HIDE DEF longer, k
<1>3. Removed(longer) = Removed(recorders) \cup r.removes
  <2>1. \A x \in Removed(longer) : x \in Removed(recorders) \cup r.removes
    BY <1>1 DEF Removed
  <2>2. \A x \in Removed(recorders) \cup r.removes : x \in Removed(longer)
    BY <1>1 DEF Removed
  <2> QED BY <2>1, <2>2
<1>4. Added(longer) = Added(recorders) \cup r.adds
  <2>1. \A x \in Added(longer) : x \in Added(recorders) \cup r.adds
    BY <1>1 DEF Added
  <2>2. \A x \in Added(recorders) \cup r.adds : x \in Added(longer)
    BY <1>1 DEF Added
  <2> QED BY <2>1, <2>2
<1>5. r.removes \subseteq bills /\ r.removes \cap Removed(recorders) = {}
  BY DEF Spends, SpentForGood
<1>6. Removed(longer) \cap left = {}
  BY <1>2, <1>3, <1>5 DEF SpentForGood
<1>7. left \subseteq Bill \cup Added(longer) /\ Removed(longer) \subseteq Bill \cup Added(longer)
  BY <1>3, <1>4, <1>5 DEF SpentForGood
<1>8. ASSUME NEW i \in DOMAIN longer
      PROVE  /\ \A c \in longer[i].adds : Inputs[c] \subseteq longer[i].removes
             /\ \A c, d \in longer[i].adds : c # d => Inputs[c] \cap Inputs[d] = {}
  <2>1. CASE i \in 1..k
    BY <1>1, <2>1 DEF SpentForGood
  <2>2. CASE i = k + 1
    BY <1>1, <2>2 DEF Spends
  <2> QED BY <1>1, <2>1, <2>2
<1>9. \A i \in 1..k : recorders[i].removes \subseteq Removed(recorders)
  BY <1>1 DEF Removed
<1>10. ASSUME NEW i \in DOMAIN longer, NEW j \in DOMAIN longer, i # j
       PROVE  longer[i].removes \cap longer[j].removes = {}
  <2>1. CASE i \in 1..k /\ j \in 1..k
    BY <1>1, <1>10, <2>1 DEF SpentForGood
  <2>2. CASE i \in 1..k /\ j = k + 1
    BY <1>1, <1>5, <1>9, <2>2
  <2>3. CASE i = k + 1 /\ j \in 1..k
    BY <1>1, <1>5, <1>9, <2>3
  <2> QED BY <1>1, <1>10, <2>1, <2>2, <2>3
<1> QED BY <1>6, <1>7, <1>8, <1>10 DEF SpentForGood, longer

\* The statistics of a recorder are the difference that it makes.
LEMMA BillsCounted ==
    ASSUME \A c \in Contract : Inputs[c] # {},
           NEW recorders, NEW bills \in SUBSET Archive, SpentForGood(recorders, bills),
           NEW r, Spends(r, bills)
    PROVE  Cardinality((bills \ r.removes) \cup r.adds) =
               Cardinality(bills) + Cardinality(r.adds) - Cardinality(r.removes)
<1> DEFINE rest == bills \ r.removes
           adds == r.adds
           removes == r.removes
<1>1. adds \cap rest = {} /\ bills \cap removes = removes
  BY AddsAreNew DEF Spends
<1>2. IsFiniteSet(bills) /\ IsFiniteSet(adds) /\ IsFiniteSet(removes)
  <2>1. bills \in SUBSET Archive /\ adds \in SUBSET Archive /\ removes \in SUBSET Archive
    BY DEF Spends, Recorder, Archive
  <2> QED BY <2>1, ArchiveFinite, FS_Subset, Zenon
<1>3. IsFiniteSet(rest) /\ Cardinality(rest) = Cardinality(bills) - Cardinality(removes)
  <2>1. Cardinality(bills \ removes) = Cardinality(bills) - Cardinality(bills \cap removes)
    BY <1>2, FS_Difference, Zenon
  <2>2. IsFiniteSet(bills \ removes)
    BY <1>2, FS_Difference, Zenon
  <2> QED BY <1>1, <2>1, <2>2
<1>4. /\ Cardinality(bills) \in Nat /\ Cardinality(adds) \in Nat
      /\ Cardinality(removes) \in Nat /\ Cardinality(rest) \in Nat
  BY <1>2, <1>3, FS_CardinalityType, Zenon
<1> HIDE DEF rest, adds, removes
<1>5. Cardinality(rest \cup adds) =
          Cardinality(rest) + Cardinality(adds) - Cardinality(rest \cap adds)
  BY <1>2, <1>3, FS_Union, Zenon
<1>6. rest \cap adds = {} /\ Cardinality({}) = 0
  BY <1>1, FS_EmptySet
<1>7. Cardinality(rest \cup adds) = Cardinality(rest) + Cardinality(adds) - 0
  BY <1>5, <1>6, Zenon
<1> QED BY <1>3, <1>4, <1>7 DEF rest, adds, removes

(***************************************************************************)
(* Where a node is in its life                                             *)
(***************************************************************************)
\* The DART has what was logged and at most one epoch more, and the transcript made the
\* recorders of what is stored and at most one more.
LEMMA NodeIsAt ==
    ASSUME NEW life, InStep(life), NEW n \in Node, NEW stage \in Stage, NEW made,
           InStage(life, n, stage, made)
    PROVE  /\ LoggedTo(life, n) \in life.epoch..Len(life.order)
           /\ dart[n].head = IF stage = "stored" THEN LoggedTo(life, n) + 1
                             ELSE LoggedTo(life, n)
           /\ made = IF stage \in {"recorded", "storing"} THEN dart[n].head + 1
                     ELSE dart[n].head
           /\ MadeEpoch(n) = made
           /\ made \in life.epoch..Len(life.order)
           /\ dart[n].head \in life.epoch..Len(life.order)
           /\ dart[n] = DartAt(life, n, dart[n].head)
           /\ stage \in {"recorded", "storing", "stored"} =>
                  last_epoch_number[n] = LoggedTo(life, n) + 1
           /\ last_block[n] = LogTo(life, n, LoggedTo(life, n))
<1>1. PICK taken : taken = last_epoch_number[n]
  OBVIOUS
<1>2. PICK before : before = IF stage = "idle" THEN taken ELSE taken - 1
  OBVIOUS
<1>3. PICK called : called = IF stage \in {"asked", "answered"} THEN before ELSE taken
  OBVIOUS
<1>4. PICK disk : disk = IF stage \in {"recorded", "storing"} THEN before ELSE made
  OBVIOUS
<1>5. PICK logged : logged = IF stage \in {"recorded", "storing", "stored"} THEN before ELSE made
  OBVIOUS
<1>6. /\ taken \in life.epoch..Len(life.order) /\ before \in life.epoch..taken
      /\ MakesUpTo(life, n, made, called) /\ StorageAt(life, n, disk, logged)
      /\ stage \in Recorded => made = taken
      /\ MessageAt(life, n, stage, taken)
  BY <1>1, <1>2, <1>3, <1>4, <1>5 DEF InStage
<1>7. LifeOK(life) /\ life.epoch \in Nat /\ Len(life.order) \in Nat
  BY DEF InStep, LifeOK
<1>8. /\ taken \in Nat /\ before \in Nat /\ made \in life.epoch..Len(life.order)
      /\ disk \in life.epoch..Len(life.order) /\ logged \in life.epoch..Len(life.order)
  BY <1>2, <1>3, <1>4, <1>5, <1>6, <1>7 DEF MakesUpTo
<1>9. dart[n] = DartAt(life, n, disk) /\ dart[n].head = disk
  BY <1>6, <1>7, <1>8, NodeOfLife DEF StorageAt
<1>10. LoggedTo(life, n) = logged /\ last_block[n] = LogTo(life, n, logged)
  <2>1. last_block[n] = LogTo(life, n, logged)
    BY <1>6 DEF StorageAt
  <2>2. Len(last_block[n]) = logged - life.epoch
    BY <1>7, <1>8, <2>1 DEF LogTo
  <2> QED BY <1>7, <1>8, <2>1, <2>2 DEF LoggedTo
<1>11. /\ disk = IF stage = "stored" THEN logged + 1 ELSE logged
       /\ made = IF stage \in {"recorded", "storing"} THEN disk + 1 ELSE disk
       /\ stage \in {"recorded", "storing", "stored"} => taken = logged + 1
  BY <1>2, <1>4, <1>5, <1>6, <1>8 DEF Recorded, Stage
<1>12. MadeEpoch(n) = made
  <2>1. CASE stage = "recorded"
    <3>1. commits[n] = <<Request(life, n, taken)>>
      BY <1>6, <2>1 DEF MessageAt
    <3>2. commits[n] # <<>>
      BY <3>1, OneMessage, Zenon
    <3> QED BY <1>9, <1>11, <2>1, <3>2 DEF MadeEpoch
  <2>2. CASE stage = "storing"
    <3>1. committing[n] = [id |-> taken, recorder |-> RecorderAt(life, n, taken), at |-> "dart"]
      BY <1>6, <2>2 DEF MessageAt
    <3>2. taken \in (life.epoch + 1)..Len(life.order)
      BY <1>2, <1>6, <1>7, <1>8, <2>2
    <3>3. RecorderAt(life, n, taken) \in Recorder
      BY <1>7, <3>2, RecorderOfNode
    <3>4. committing[n] \in Committing /\ committing[n].at = "dart"
      BY <1>8, <3>1, <3>3 DEF Committing
    <3>5. committing[n] # None
      BY <3>4, NoneAssumption
    <3> QED BY <1>9, <1>11, <2>2, <3>4, <3>5 DEF MadeEpoch
  <2>3. CASE stage = "stored"
    <3>1. commits[n] = <<>> /\ committing[n].at = "replicator"
      BY <1>6, <2>3 DEF MessageAt
    <3> QED BY <1>9, <1>11, <2>3, <3>1 DEF MadeEpoch
  <2>4. CASE stage \notin {"recorded", "storing", "stored"}
    <3>1. commits[n] = <<>> /\ committing[n] = None
      BY <1>6, <2>4 DEF MessageAt
    <3> QED BY <1>9, <1>11, <2>4, <3>1 DEF MadeEpoch
  <2> QED BY <2>1, <2>2, <2>3, <2>4
<1> QED BY <1>1, <1>8, <1>9, <1>10, <1>11, <1>12

\* Where some node is in its life.
LEMMA SomeStage ==
    ASSUME NEW life, InStep(life), NEW n \in Node
    PROVE  \E stage \in Stage, made \in life.epoch..last_epoch_number[n] :
               InStage(life, n, stage, made)
BY DEF InStep, NodeInStep

\* What a node stored, against what it logged.
LEMMA HeadOfNode ==
    ASSUME NEW life, InStep(life), NEW n \in Node
    PROVE  /\ LoggedTo(life, n) \in life.epoch..Len(life.order)
           /\ dart[n].head \in {LoggedTo(life, n), LoggedTo(life, n) + 1}
           /\ dart[n].head \in life.epoch..Len(life.order)
           /\ MadeEpoch(n) \in life.epoch..Len(life.order)
           /\ dart[n] = DartAt(life, n, dart[n].head)
           /\ last_block[n] = LogTo(life, n, LoggedTo(life, n))
<1>1. PICK stage \in Stage, made \in life.epoch..last_epoch_number[n] :
          InStage(life, n, stage, made)
  BY SomeStage
<1> QED BY <1>1, NodeIsAt

\* What a node has finished every node has logged, since it voted for it.
LEMMA FinishedIsLogged ==
    ASSUME NEW life, InStep(life), NEW k \in life.epoch..Len(life.order),
           NEW e \in (life.epoch + 1)..Determined(life)[k].finished, NEW m \in Node
    PROVE  e <= LoggedTo(life, m)
<1> DEFINE a == life.epoch
           b == Len(life.order)
           Voted(d) == \E v \in ballots : v.owner = m /\ v.epoch = d
           T == {i \in Nat : \A d \in (a + 1)..Determined(life)[i].finished : Voted(d)}
<1>1. LifeOK(life) /\ a \in Nat /\ b \in Nat /\ VotesFollow(life) /\ VotesDetermined(life)
  BY DEF InStep, LifeOK
<1>2. a \in T
  <2>1. Determined(life)[a].finished = a
    <3>1. Determined(life)[life.epoch] = [dart |-> life.dart, finished |-> life.epoch]
      BY <1>1, LifeDetermined, Zenon
    <3> QED BY <3>1
  <2>2. (a + 1)..a = {}
    BY <1>1
  <2> QED BY <1>1, <2>1, <2>2
<1>3. ASSUME NEW i \in (a + 1)..b, i - 1 \in T PROVE i \in T
  <2> DEFINE old == Determined(life)[i - 1].finished
             new == Determined(life)[i].finished
             F == FinishedBy(life, old, i)
  <2>1. RecorderOK(life, i) /\ StateOK(life, i - 1) /\ i \in Nat /\ i \in 1..b
        /\ \A j \in 1..i : j \in DOMAIN life.order
    BY <1>1, EpochOfLife
  <2>2. F = (old + 1)..new /\ old \in Nat /\ new \in Nat
    BY <1>1, <2>1 DEF RecorderOK, StateOK, SharedAt, RecorderOf
  <2> HIDE DEF new
  <2>3. ASSUME NEW d \in (a + 1)..new PROVE Voted(d)
    <3>1. CASE d \in (a + 1)..old
      BY <1>3, <3>1
    <3>2. CASE d \in F
      <4>1. d \in (old + 1)..d
        BY <2>2, <3>2
      <4>2. {v.owner : v \in VotesOn(life, d, i)} = Node
        BY <3>2, <4>1 DEF FinishedBy
      <4>3. PICK v \in VotesOn(life, d, i) : v.owner = m
        BY <4>2
      <4>4. PICK j \in 1..i : v \in life.order[j].votes /\ v.epoch = d
        BY DEF VotesOn
      <4>5. v \in ballots
        BY <1>1, <2>1, <4>4 DEF VotesFollow
      <4> QED BY <4>3, <4>4, <4>5
    <3>3. d \in (a + 1)..old \/ d \in F
      BY <2>2
    <3> QED BY <3>1, <3>2, <3>3
  <2> QED BY <2>1, <2>3 DEF new
<1> HIDE DEF T
<1>4. \A i \in a..b : i \in T
  BY <1>1, <1>2, <1>3, UpTo
<1>5. k \in T
  BY <1>4
<1>6. PICK v \in ballots : v.owner = m /\ v.epoch = e
  BY <1>5 DEF T
<1>7. e \in (a + 1)..(a + Len(last_block[m]))
  BY <1>1, <1>6 DEF VotesDetermined
<1>8. Len(last_block[m]) \in Nat /\ e \in Nat
  BY <1>1, LoggedWithin
<1> QED BY <1>1, <1>7, <1>8 DEF LoggedTo

(***************************************************************************)
(* What the steps leave on disk                                            *)
(***************************************************************************)
(* What DiskHeld sees of node n. *)
DiskView(n) ==
    <<dart[n], last_block[n], commits[n], committing[n], last_globals[n],
      stored[n], doc_globals[n], unwritten[n], journal[n], file_names[n]>>

\* A node of which nothing changes keeps what is on its disk.
LEMMA DiskKept ==
    ASSUME NEW life, NEW n, DiskHeld(life, n), UNCHANGED <<boots, DiskView(n)>>
    PROVE  DiskHeld(life, n)'
<1>1. /\ boots' = boots
      /\ dart'[n] = dart[n] /\ last_block'[n] = last_block[n]
      /\ commits'[n] = commits[n] /\ committing'[n] = committing[n]
      /\ last_globals'[n] = last_globals[n]
      /\ stored'[n] = stored[n] /\ doc_globals'[n] = doc_globals[n]
      /\ unwritten'[n] = unwritten[n] /\ journal'[n] = journal[n]
      /\ file_names'[n] = file_names[n]
  BY DEF DiskView
<1>2. HistoryHeld(life, n)' /\ SpentForGood(stored[n], dart[n].bills)'
  BY <1>1 DEF DiskHeld, HistoryHeld, History, SpentForGood, Removed, Added
<1>3. StatisticsHeld(life, n)'
  BY <1>1 DEF DiskHeld, StatisticsHeld, MadeEpoch, BillsAt
<1>4. FilesHeld(life, n)'
  BY <1>1 DEF DiskHeld, FilesHeld, LoggedTo
<1>5. JournalHeld(life, n)'
  BY <1>1 DEF DiskHeld, JournalHeld, LoggedTo, Last
<1> QED BY <1>2, <1>3, <1>4, <1>5 DEF DiskHeld

\* What all nodes have in common is kept when their recorders are.
LEMMA SharedKept ==
    ASSUME NEW life, Held(life), UNCHANGED <<boots, stored, finished>>,
           DOMAIN doc_globals' = Node, DOMAIN unwritten' = Node, DOMAIN journal' = Node,
           DOMAIN file_names' = Node
    PROVE  /\ life.epoch = Booted'
           /\ DiskPerNode' /\ HistoryShared(life)' /\ FinishedHeld'
BY DEF Held, Booted, DiskPerNode, HistoryShared, FinishedHeld

\* A life that holds is the life of every node.
LEMMA HeldIsLife ==
    ASSUME NEW life, life = [epoch |-> life.epoch, dart |-> life.dart, order |-> life.order],
           Held(life)'
    PROVE  RestartInvariant'
<1>1. PICK n \in Node : TRUE
  BY NodeAssumption
<1>2. /\ LifeOK(life) /\ life.order = consensus' /\ life.epoch = Booted'
      /\ HistoryHeld(life, n)' /\ InStep(life)'
  BY DEF Held, InStep, DiskHeld, LifeOK
<1>3. life.epoch \in life.epoch..Len(stored'[n])
  <2>1. life.epoch \in Nat /\ Len(stored'[n]) \in Nat /\ life.epoch <= Len(stored'[n])
    BY <1>2 DEF LifeOK, HistoryHeld, History
  <2> QED BY <2>1
<1>4. DartAt(life, n, life.epoch) = DartAfter(stored[n], life.epoch)'
  BY <1>2, <1>3 DEF HistoryHeld, History
<1>5. life.dart = DartAfter(stored[n], life.epoch)'
  <2>1. life.epoch \in life.epoch..Len(life.order)
    BY <1>2 DEF LifeOK
  <2>2. DartAt(life, n, life.epoch) = life.dart
    BY <1>2, <2>1, NodeOfLife
  <2> QED BY <1>4, <2>2
<1>6. life = LifeOf(n)'
  BY <1>2, <1>5 DEF LifeOf, LifeFrom
<1> QED BY <1>6 DEF RestartInvariant

\* Steps in memory leave nothing on disk.
LEMMA MemoryHeld ==
    ASSUME MaxInFlight = 1, ProductsInTime, ShutdownEpoch = {},
           NEW life, Held(life), NEW n \in Node, Memory(n), boots' = boots
    PROVE  Held(life)'
<1>1. NodeStep(n) /\ UNCHANGED diskVars
  BY DEF Memory, NodeStep, TVM
<1>2. InStep(life)'
  BY <1>1, InStepOfNode DEF Held
<1>3. /\ UNCHANGED <<dart, last_block, last_globals>>
      /\ \A m \in Node \ {n} : commits'[m] = commits[m] /\ committing'[m] = committing[m]
      /\ MadeEpoch(n)' = MadeEpoch(n)
  <2>0. DOMAIN commits = Node /\ DOMAIN committing = Node
    BY DEF Held, InStep, PerNode
  <2>1. CASE TVM(n)
    BY <2>1 DEF TVM, produceContract, storageVars, boxVars, MadeEpoch
  <2>2. CASE epoch_commit(n)
    <3>1. PICK stage \in Stage, made \in life.epoch..last_epoch_number[n] :
              InStage(life, n, stage, made)
      BY SomeStage DEF Held
    <3>2. commits[n] # <<>> /\ last_epoch_number' = last_epoch_number
      BY <2>2 DEF epoch_commit
    <3>3. stage = "recorded"
      BY <3>1, <3>2 DEF InStage, MessageAt
    <3>4. InStage(life, n, "storing", made)'
      BY <2>2, <3>1, CommitStage DEF Held
    <3>5. /\ committing'[n] = [id |-> last_epoch_number[n],
                               recorder |-> RecorderAt(life, n, last_epoch_number[n]),
                               at |-> "dart"]
      BY <3>2, <3>4 DEF InStage, MessageAt
    <3>6. /\ last_epoch_number[n] \in Nat /\ LifeOK(life)
          /\ last_epoch_number[n] \in (life.epoch + 1)..Len(life.order)
      <4>1. /\ last_epoch_number[n] \in life.epoch..Len(life.order)
            /\ last_epoch_number[n] - 1 \in life.epoch..last_epoch_number[n]
            /\ LifeOK(life)
        BY <3>1, <3>3 DEF InStage, Held, InStep
      <4> QED BY <4>1 DEF LifeOK
    <3>7. committing'[n] \in Committing /\ committing'[n].at = "dart"
      <4>1. RecorderAt(life, n, last_epoch_number[n]) \in Recorder
        BY <3>6, RecorderOfNode
      <4> QED BY <3>5, <3>6, <4>1 DEF Committing
    <3>8. committing'[n] # None
      BY <3>7, NoneAssumption
    <3>9. UNCHANGED <<dart, last_block, last_globals>>
      BY <2>2 DEF epoch_commit, executionVars
    <3>10. \A m \in Node \ {n} : commits'[m] = commits[m] /\ committing'[m] = committing[m]
      BY <2>0, <2>2 DEF epoch_commit
    <3> QED BY <3>2, <3>7, <3>8, <3>9, <3>10 DEF MadeEpoch
  <2>3. CASE checkRead(n)
    BY <2>3 DEF checkRead, executionVars, storageVars, MadeEpoch
  <2>4. CASE receiveBullseye(n)
    BY <2>4 DEF receiveBullseye, executionVars, storageVars, MadeEpoch
  <2> QED BY <2>1, <2>2, <2>3, <2>4 DEF Memory
<1>4. ASSUME NEW m \in Node PROVE DiskHeld(life, m)'
  <2>1. DiskHeld(life, m)
    BY DEF Held
  <2>2. CASE m # n
    <3>1. UNCHANGED <<boots, DiskView(m)>>
      BY <1>1, <1>3, <2>2 DEF DiskView, diskVars
    <3> QED BY <2>1, <3>1, DiskKept
  <2>3. CASE m = n
    <3>1. HistoryHeld(life, n)' /\ SpentForGood(stored[n], dart[n].bills)'
      BY <1>1, <1>3, <2>1, <2>3
         DEF DiskHeld, HistoryHeld, History, SpentForGood, Removed, Added, diskVars
    <3>2. StatisticsHeld(life, n)'
      BY <1>1, <1>3, <2>1, <2>3 DEF DiskHeld, StatisticsHeld, BillsAt, diskVars
    <3>3. FilesHeld(life, n)' /\ JournalHeld(life, n)'
      BY <1>1, <1>3, <2>1, <2>3 DEF DiskHeld, FilesHeld, JournalHeld, LoggedTo, Last, diskVars
    <3> QED BY <2>3, <3>1, <3>2, <3>3 DEF DiskHeld
  <2> QED BY <2>2, <2>3
<1>5. /\ life.epoch = Booted'
      /\ DiskPerNode' /\ HistoryShared(life)' /\ FinishedHeld'
  BY <1>1, SharedKept DEF Held, DiskPerNode, diskVars
<1> QED BY <1>2, <1>4, <1>5 DEF Held

\* The last block of the log to an epoch.
LEMMA BlockOfLife ==
    ASSUME NEW life, LifeOK(life), NEW n \in Node,
           NEW k \in (life.epoch + 1)..Len(life.order)
    PROVE  /\ BlockAt(life, n, k) \in RecorderBlock /\ BlockAt(life, n, k).epoch = k
           /\ Len(LogTo(life, n, k)) = k - life.epoch
           /\ Last(LogTo(life, n, k)) = BlockAt(life, n, k)
           /\ LogTo(life, n, k) # <<>>
<1>1. k \in life.epoch..Len(life.order) /\ k \in Nat /\ life.epoch \in Nat /\ life.epoch < k
  BY EpochOfLife DEF LifeOK
<1>2. RecorderAt(life, n, k) \in Recorder /\ DartAt(life, n, k) \in Content
  BY <1>1, RecorderOfNode, NodeOfLife
<1>3. BlockAt(life, n, k) \in RecorderBlock /\ BlockAt(life, n, k).epoch = k
  BY <1>1, <1>2 DEF BlockAt, RecorderBlock
<1>4. /\ Len(LogTo(life, n, k)) = k - life.epoch
      /\ LogTo(life, n, k)[k - life.epoch] = BlockAt(life, n, k)
      /\ LogTo(life, n, k) # <<>>
  BY <1>1 DEF LogTo
<1> QED BY <1>3, <1>4 DEF Last

\* The replicator writes the block that it answered.
LEMMA WriteBlockHeld ==
    ASSUME NEW life, Held(life), NEW n \in Node, WriteBlock(n), boots' = boots
    PROVE  Held(life)'
<1>1. /\ unwritten[n] # None
      /\ journal' = [journal EXCEPT ![n] = Append(@, unwritten[n])]
      /\ unwritten' = [unwritten EXCEPT ![n] = None]
      /\ UNCHANGED <<vars, stored, doc_globals, file_names, finished>>
  BY DEF WriteBlock
<1>2. /\ InStep(life) /\ life.epoch = Booted /\ \A m \in Node : DiskHeld(life, m)
      /\ DOMAIN journal = Node /\ DOMAIN unwritten = Node
      /\ DOMAIN doc_globals = Node /\ DOMAIN file_names = Node
  BY DEF Held, DiskPerNode
<1>3. InStep(life)'
  BY <1>1, <1>2, InStepKept
<1>4. UNCHANGED <<dart, last_block, commits, committing, last_globals>>
  BY <1>1 DEF vars, executionVars, boxVars, storageVars
<1>5. ASSUME NEW m \in Node \ {n} PROVE DiskHeld(life, m)'
  <2>1. UNCHANGED <<boots, DiskView(m)>>
    BY <1>1, <1>2, <1>4 DEF DiskView
  <2> QED BY <1>2, <2>1, DiskKept
<1>6. /\ HistoryHeld(life, n)' /\ SpentForGood(stored[n], dart[n].bills)'
      /\ StatisticsHeld(life, n)' /\ FilesHeld(life, n)'
  BY <1>1, <1>2, <1>4 DEF DiskHeld, HistoryHeld, History, SpentForGood, Removed, Added, StatisticsHeld,
         MadeEpoch, BillsAt, FilesHeld, LoggedTo
<1>7. JournalHeld(life, n)'
  <2> DEFINE k == LoggedTo(life, n)
             block == unwritten[n]
             longer == Append(journal[n], block)
  <2>1. /\ journal[n] \in Seq(RecorderBlock) /\ last_block[n] # <<>>
        /\ block = Last(last_block[n])
        /\ \A i \in 1..k :
               \/ \E j \in DOMAIN journal[n] : journal[n][j].epoch = i
               \/ \E j \in DOMAIN boots : i \in {boots[j], boots[j] - 1}
               \/ i = k
    BY <1>1, <1>2 DEF DiskHeld, JournalHeld
  <2>2. block \in RecorderBlock /\ block.epoch = k
    <3>2. k \in life.epoch..Len(life.order) /\ last_block[n] = LogTo(life, n, k)
      BY <1>2, HeadOfNode
    <3> HIDE DEF k
    <3>3. life.epoch \in Nat /\ Len(life.order) \in Nat /\ LifeOK(life)
      BY <1>2 DEF InStep, LifeOK
    <3>4. k # life.epoch
      BY <2>1, <3>2, <3>3 DEF LogTo
    <3>5. k \in (life.epoch + 1)..Len(life.order)
      BY <3>2, <3>3, <3>4
    <3>6. /\ BlockAt(life, n, k) \in RecorderBlock /\ BlockAt(life, n, k).epoch = k
          /\ Last(LogTo(life, n, k)) = BlockAt(life, n, k)
      BY <3>3, <3>5, BlockOfLife
    <3> QED BY <2>1, <3>2, <3>6
  <2>3. journal'[n] = longer /\ unwritten'[n] = None /\ last_block'[n] = last_block[n]
        /\ boots' = boots
    BY <1>1, <1>2, <1>4
  <2> HIDE DEF block
  <2>4. /\ longer \in Seq(RecorderBlock)
        /\ \A j \in DOMAIN journal[n] : j \in DOMAIN longer /\ longer[j] = journal[n][j]
        /\ Len(journal[n]) + 1 \in DOMAIN longer
        /\ longer[Len(journal[n]) + 1] = block
    BY <2>1, <2>2
  <2> HIDE DEF longer
  <2>5. ASSUME NEW i \in 1..k
        PROVE  \/ \E j \in DOMAIN longer : longer[j].epoch = i
               \/ \E j \in DOMAIN boots : i \in {boots[j], boots[j] - 1}
    BY <2>1, <2>2, <2>4
  <2>6. LoggedTo(life, n)' = k
    BY <2>3 DEF LoggedTo
  <2> HIDE DEF k
  <2> QED BY <2>3, <2>4, <2>5, <2>6 DEF JournalHeld
<1>8. /\ life.epoch = Booted'
      /\ DiskPerNode' /\ HistoryShared(life)' /\ FinishedHeld'
  <2>1. /\ UNCHANGED <<boots, stored, finished>>
        /\ DOMAIN doc_globals' = Node /\ DOMAIN unwritten' = Node /\ DOMAIN journal' = Node
        /\ DOMAIN file_names' = Node
    BY <1>1, <1>2
  <2> QED BY <2>1, SharedKept
<1>9. ASSUME NEW m \in Node PROVE DiskHeld(life, m)'
  BY <1>5, <1>6, <1>7 DEF DiskHeld
<1> QED BY <1>3, <1>8, <1>9 DEF Held

\* The replicator answers: its block is the next of this life.
LEMMA ReplicateHeld ==
    ASSUME MaxInFlight = 1, ProductsInTime, ShutdownEpoch = {},
           NEW life, Held(life), NEW n \in Node, Replicate(n), boots' = boots
    PROVE  Held(life)'
<1>1. /\ receiveRecorder(n) /\ unwritten[n] = None
      /\ unwritten' = [unwritten EXCEPT ![n] = Last(last_block'[n])]
      /\ file_names' = IF last_block[n] = <<>>
                       THEN [file_names EXCEPT ![n] = @ \cup {committing[n].id}]
                       ELSE file_names
      /\ UNCHANGED <<stored, doc_globals, journal, finished>>
  BY DEF Replicate, ReplicatorIdle, FileName
<1>2. /\ InStep(life) /\ life.epoch = Booted /\ \A m \in Node : DiskHeld(life, m)
      /\ DOMAIN journal = Node /\ DOMAIN unwritten = Node
      /\ DOMAIN doc_globals = Node /\ DOMAIN file_names = Node /\ DOMAIN last_block = Node
      /\ DOMAIN committing = Node /\ LifeOK(life)
  BY DEF Held, DiskPerNode, InStep, PerNode
<1>3. InStep(life)'
  BY <1>1, <1>2, InStepOfNode DEF NodeStep
<1>4. /\ UNCHANGED <<dart, last_epoch_number, commits, last_globals>>
      /\ committing[n] # None /\ committing[n].at = "replicator"
      /\ committing' = [committing EXCEPT ![n] = None]
  BY <1>1 DEF receiveRecorder, executionVars
<1>5. PICK block : last_block' = [last_block EXCEPT ![n] = Append(last_block[n], block)]
  BY <1>1 DEF receiveRecorder
<1>6. ASSUME NEW m \in Node \ {n} PROVE DiskHeld(life, m)'
  <2>1. UNCHANGED <<boots, DiskView(m)>>
    BY <1>1, <1>2, <1>4, <1>5 DEF DiskView
  <2> QED BY <1>2, <2>1, DiskKept
<1>7. HistoryHeld(life, n)' /\ SpentForGood(stored[n], dart[n].bills)' /\ StatisticsHeld(life, n)'
  <2>1. MadeEpoch(n)' = MadeEpoch(n)
    BY <1>2, <1>4 DEF MadeEpoch
  <2>2. HistoryHeld(life, n)'
    BY <1>1, <1>2, <1>4 DEF DiskHeld, HistoryHeld, History
  <2>3. SpentForGood(stored[n], dart[n].bills)'
    BY <1>1, <1>2, <1>4 DEF DiskHeld, SpentForGood, Removed, Added
  <2>4. StatisticsHeld(life, n)'
    BY <1>1, <1>2, <1>4, <2>1 DEF DiskHeld, StatisticsHeld, BillsAt
  <2> QED BY <2>2, <2>3, <2>4
<1>8. PICK stage \in Stage, made \in life.epoch..last_epoch_number[n] :
          InStage(life, n, stage, made)
  BY <1>2, SomeStage
<1>9. MessageAt(life, n, stage, last_epoch_number[n]) /\ (stage \in Recorded => made = last_epoch_number[n])
  BY <1>8 DEF InStage
<1>10. stage = "stored" /\ made = last_epoch_number[n]
  <2>2. stage \in {"storing", "stored"}
    BY <1>4, <1>9 DEF MessageAt
  <2>3. CASE stage = "storing"
    BY <1>4, <1>9, <2>3 DEF MessageAt
  <2> QED BY <1>9, <2>2, <2>3 DEF Recorded
<1>11. PICK k : k = LoggedTo(life, n) + 1
  OBVIOUS
<1>12. /\ k \in (life.epoch + 1)..Len(life.order) /\ k \in Nat
       /\ committing[n].id = k
       /\ LoggedTo(life, n)' = k /\ last_block'[n] # <<>>
       /\ Last(last_block'[n]) \in RecorderBlock
       /\ \A i \in 1..k : i \in 1..LoggedTo(life, n) \/ i = k
       /\ LoggedTo(life, n) \in Nat
  <2>1. /\ LoggedTo(life, n) \in life.epoch..Len(life.order) /\ last_epoch_number[n] = k
        /\ last_epoch_number[n] \in life.epoch..Len(life.order)
    BY <1>2, <1>8, <1>10, <1>11, NodeIsAt DEF InStage
  <2>2. life.epoch \in Nat /\ Len(life.order) \in Nat
    BY <1>2 DEF LifeOK
  <2>3. committing[n].id = k
    BY <1>9, <1>10, <2>1 DEF MessageAt
  <2>4. InStage(life, n, "logged", made)'
    BY <1>1, <1>2, <1>8, ReplicateStage
  <2>5. last_block'[n] = LogTo(life, n, k)
    BY <1>10, <2>1, <2>4 DEF InStage, StorageAt
  <2>6. k \in (life.epoch + 1)..Len(life.order) /\ k \in Nat
    BY <1>11, <2>1, <2>2
  <2>7. /\ Len(last_block'[n]) = k - life.epoch /\ last_block'[n] # <<>>
        /\ Last(last_block'[n]) \in RecorderBlock
    BY <1>2, <2>5, <2>6, BlockOfLife
  <2>8. LoggedTo(life, n)' = k
    BY <2>2, <2>6, <2>7 DEF LoggedTo
  <2> QED BY <1>11, <2>1, <2>2, <2>3, <2>6, <2>7, <2>8
<1>13. FilesHeld(life, n)'
  <2>1. \A f \in file_names'[n] : f \in file_names[n] \/ f = k
    BY <1>1, <1>2, <1>12
  <2>2. \A f \in file_names[n] : f \in Nat /\ f <= LoggedTo(life, n)
    BY <1>2 DEF DiskHeld, FilesHeld
  <2>3. \A f \in file_names'[n] : f \in Nat /\ f <= k
    BY <1>11, <1>12, <2>1, <2>2
  <2> QED BY <1>12, <2>3 DEF FilesHeld
<1>14. JournalHeld(life, n)'
  <2>1. /\ journal[n] \in Seq(RecorderBlock)
        /\ \A i \in 1..LoggedTo(life, n) :
               \/ \E j \in DOMAIN journal[n] : journal[n][j].epoch = i
               \/ \E j \in DOMAIN boots : i \in {boots[j], boots[j] - 1}
    BY <1>1, <1>2 DEF DiskHeld, JournalHeld
  <2>2. unwritten'[n] = Last(last_block'[n]) /\ journal'[n] = journal[n] /\ boots' = boots
    BY <1>1, <1>2
  <2>3. unwritten'[n] # None
    BY <1>12, <2>2, UnwrittenAssumption
  <2>4. \A i \in 1..k :
            \/ \E j \in DOMAIN journal'[n] : journal'[n][j].epoch = i
            \/ \E j \in DOMAIN boots' : i \in {boots'[j], boots'[j] - 1}
            \/ i = k
    BY <1>12, <2>1, <2>2
  <2> QED BY <1>12, <2>1, <2>2, <2>3, <2>4 DEF JournalHeld
<1>15. /\ life.epoch = Booted'
       /\ DiskPerNode' /\ HistoryShared(life)' /\ FinishedHeld'
  <2>1. /\ UNCHANGED <<boots, stored, finished>>
        /\ DOMAIN doc_globals' = Node /\ DOMAIN unwritten' = Node /\ DOMAIN journal' = Node
        /\ DOMAIN file_names' = Node
    BY <1>1, <1>2
  <2> QED BY <2>1, SharedKept
<1>16. ASSUME NEW m \in Node PROVE DiskHeld(life, m)'
  BY <1>6, <1>7, <1>13, <1>14 DEF DiskHeld
<1> QED BY <1>3, <1>15, <1>16 DEF Held

\* The DART stores the recorder that the order determines for its next epoch.
LEMMA StoredIsNext ==
    ASSUME NEW life, InStep(life), NEW n \in Node, modifyDART(n)
    PROVE  LET k == dart[n].head + 1
               r == RecorderAt(life, n, k)
           IN  /\ k \in (life.epoch + 1)..Len(life.order)
               /\ Head(dart_box[n]).recorder = r
               /\ dart[n] = DartAt(life, n, k - 1)
               /\ dart'[n] = modify(dart[n], r)
               /\ MadeEpoch(n) = k /\ MadeEpoch(n)' = k
<1>1. PICK k : k = dart[n].head + 1
  OBVIOUS
<1>2. PICK stage \in Stage, made \in life.epoch..last_epoch_number[n] :
          InStage(life, n, stage, made)
  BY SomeStage
<1>3. MessageAt(life, n, stage, last_epoch_number[n]) /\ (stage \in Recorded => made = last_epoch_number[n])
  BY <1>2 DEF InStage
<1>4. stage = "storing" /\ made = last_epoch_number[n]
  <2>1. dart_box[n] # <<>> /\ Head(dart_box[n]).method = "modify"
    BY DEF modifyDART
  <2>2. stage \in {"asked", "storing"}
    BY <1>3, <2>1 DEF MessageAt
  <2>3. CASE stage = "asked"
    BY <1>3, <2>1, <2>3 DEF MessageAt
  <2> QED BY <1>3, <2>2, <2>3 DEF Recorded
<1>5. /\ dart[n].head \in life.epoch..Len(life.order)
      /\ MadeEpoch(n) = k /\ MadeEpoch(n) \in life.epoch..Len(life.order)
      /\ dart[n] = DartAt(life, n, dart[n].head)
      /\ last_epoch_number[n] = k
  BY <1>1, <1>2, <1>4, NodeIsAt
<1>6. /\ life.epoch \in Nat /\ Len(life.order) \in Nat /\ DOMAIN dart = Node
      /\ DOMAIN committing = Node /\ LifeOK(life)
  BY DEF InStep, LifeOK, PerNode
<1>7. k \in (life.epoch + 1)..Len(life.order) /\ k - 1 = dart[n].head
  BY <1>1, <1>5, <1>6
<1>8. PICK r : r = RecorderAt(life, n, k)
  OBVIOUS
<1>9. Head(dart_box[n]).recorder = r
  <2>1. dart_box[n] = <<[method |-> "modify", recorder |-> r]>>
    BY <1>3, <1>4, <1>5, <1>8 DEF MessageAt
  <2>2. Head(dart_box[n]) = [method |-> "modify", recorder |-> r]
    BY <2>1, OneMessage, Zenon
  <2> QED BY <2>2
<1>10. dart'[n] = modify(dart[n], r)
  BY <1>6, <1>9 DEF modifyDART
<1>11. MadeEpoch(n)' = k
  <2>1. dart'[n].head = k
    <3>1. r.head = k
      BY <1>6, <1>7, <1>8, RecorderOfNode
    <3>2. k # 0
      BY <1>6, <1>7
    <3> QED BY <1>10, <3>1, <3>2 DEF modify
  <2>2. InStage(life, n, "stored", made)'
    BY <1>2, ModifyStage
  <2>3. commits'[n] = <<>> /\ committing'[n].at = "replicator"
    BY <2>2 DEF InStage, MessageAt
  <2> QED BY <2>1, <2>3 DEF MadeEpoch
<1> QED BY <1>1, <1>5, <1>7, <1>8, <1>9, <1>10, <1>11

\* The recorders that are stored, with the one of the next epoch.
LEMMA HistoryContinues ==
    ASSUME NEW life, LifeOK(life), NEW n \in Node,
           NEW k \in (life.epoch + 1)..Len(life.order),
           NEW s, History(life, n, s), Len(s) = k - 1
    PROVE  /\ History(life, n, Append(s, RecorderAt(life, n, k)))
           /\ Len(Append(s, RecorderAt(life, n, k))) = k
           /\ \A i \in DOMAIN s : Append(s, RecorderAt(life, n, k))[i] = s[i]
           /\ \A i \in 0..Len(s) :
                  DartAfter(Append(s, RecorderAt(life, n, k)), i) = DartAfter(s, i)
<1>1. /\ s \in Seq(Recorder)
      /\ \A i \in DOMAIN s : s[i].open = {i}
      /\ \A i \in (life.epoch + 1)..Len(s) : s[i] = RecorderAt(life, n, i)
      /\ \A i \in life.epoch..Len(s) : DartAt(life, n, i) = DartAfter(s, i)
  BY DEF History
<1>2. PICK t : t = Append(s, RecorderAt(life, n, k))
  OBVIOUS
<1>3. PICK r : r = RecorderAt(life, n, k)
  OBVIOUS
<1>4. /\ k \in Nat /\ life.epoch \in Nat /\ life.epoch < k
      /\ k - 1 \in life.epoch..Len(s)
  BY <1>1, EpochOfLife
<1>5. /\ r \in Recorder /\ r.open = {k}
      /\ DartAt(life, n, k) = modify(DartAt(life, n, k - 1), r)
  BY <1>3, RecorderOfNode
<1>6. /\ t = Append(s, r)
      /\ t \in Seq(Recorder) /\ Len(t) = k /\ t[k] = r
      /\ DOMAIN s = 1..(k - 1) /\ DOMAIN t = 1..k
      /\ \A i \in DOMAIN s : t[i] = s[i]
  BY <1>1, <1>2, <1>3, <1>4, <1>5
<1>7. /\ \A i \in 0..Len(s) : DartAfter(t, i) = DartAfter(s, i)
      /\ DartAfter(t, Len(s) + 1) = modify(DartAfter(s, Len(s)), r)
  BY <1>1, <1>5, <1>6, DartAfterAppend
<1>8. \A i \in 1..k : i \in DOMAIN s \/ i = k
  BY <1>4, <1>6
<1>9. \A i \in DOMAIN t : t[i].open = {i}
  BY <1>1, <1>5, <1>6, <1>8
<1>10. \A i \in (life.epoch + 1)..k : t[i] = RecorderAt(life, n, i)
  <2> TAKE i \in (life.epoch + 1)..k
  <2>1. CASE i = k
    BY <1>3, <1>6, <2>1
  <2>2. CASE i # k
    <3>1. i \in (life.epoch + 1)..Len(s) /\ i \in DOMAIN s
      BY <1>4, <1>6, <2>2
    <3> QED BY <1>1, <1>6, <3>1
  <2> QED BY <2>1, <2>2
<1>11. \A i \in life.epoch..k : DartAt(life, n, i) = DartAfter(t, i)
  <2> TAKE i \in life.epoch..k
  <2>1. CASE i = k
    <3>1. DartAt(life, n, k - 1) = DartAfter(s, k - 1) /\ Len(s) = k - 1
      BY <1>1, <1>4
    <3>2. DartAfter(t, k) = modify(DartAfter(s, k - 1), r)
      <4>1. Len(s) + 1 = k
        BY <1>4
      <4> QED BY <1>7, <3>1, <4>1
    <3> QED BY <1>5, <2>1, <3>1, <3>2
  <2>2. CASE i # k
    <3>1. i \in life.epoch..Len(s) /\ i \in 0..Len(s)
      BY <1>4, <2>2
    <3> QED BY <1>1, <1>7, <3>1
  <2> QED BY <2>1, <2>2
<1>12. life.epoch <= Len(t)
  BY <1>4, <1>6
<1> QED BY <1>2, <1>6, <1>7, <1>9, <1>10, <1>11, <1>12 DEF History

\* A recorder goes to the DART.
LEMMA StoreHeld ==
    ASSUME MaxInFlight = 1, ProductsInTime, ShutdownEpoch = {},
           \A c \in Contract : Inputs[c] # {},
           NEW life, Held(life), NEW n \in Node, Store(n), boots' = boots
    PROVE  Held(life)'
<1>1. /\ modifyDART(n)
      /\ stored' = [stored EXCEPT ![n] = Append(@, Head(dart_box[n]).recorder)]
      /\ UNCHANGED <<doc_globals, unwritten, journal, file_names, finished>>
  BY DEF Store
<1>2. /\ InStep(life) /\ life.epoch = Booted /\ \A m \in Node : DiskHeld(life, m)
      /\ DiskPerNode /\ HistoryShared(life) /\ FinishedHeld
      /\ DOMAIN stored = Node /\ DOMAIN dart = Node /\ DOMAIN committing = Node
      /\ LifeOK(life)
  BY DEF Held, DiskPerNode, InStep, PerNode
<1>3. InStep(life)'
  BY <1>1, <1>2, InStepOfNode DEF NodeStep
<1>4. /\ UNCHANGED <<last_block, commits, last_globals>>
      /\ \A m \in Node \ {n} : committing'[m] = committing[m]
  BY <1>1, <1>2 DEF modifyDART, executionVars
<1>5. PICK s : s = stored[n]
  OBVIOUS
<1>6. PICK k : k = dart[n].head + 1
  OBVIOUS
<1>7. PICK r : r = RecorderAt(life, n, k)
  OBVIOUS
<1>8. /\ k \in (life.epoch + 1)..Len(life.order)
      /\ Head(dart_box[n]).recorder = r
      /\ dart[n] = DartAt(life, n, k - 1)
      /\ dart'[n] = modify(dart[n], r)
      /\ MadeEpoch(n) = k /\ MadeEpoch(n)' = k
  BY <1>1, <1>2, <1>6, <1>7, StoredIsNext
<1>9. /\ k \in Nat /\ life.epoch \in Nat
      /\ r.head = k /\ r.head # 0
  BY <1>2, <1>7, <1>8, EpochOfLife, RecorderOfNode
<1>10. dart'[n].head = k /\ dart'[n].bills = (dart[n].bills \ r.removes) \cup r.adds
  BY <1>8, <1>9 DEF modify
<1>11. stored'[n] = Append(s, r) /\ \A m \in Node \ {n} : stored'[m] = stored[m]
  BY <1>1, <1>2, <1>5, <1>8
<1>12. History(life, n, s) /\ s \in Seq(Recorder) /\ Len(s) = k - 1 /\ life.epoch <= Len(s)
  <2>1. History(life, n, s) /\ Len(s) = dart[n].head
    BY <1>2, <1>5 DEF DiskHeld, HistoryHeld
  <2>2. s \in Seq(Recorder) /\ life.epoch <= Len(s)
    BY <2>1 DEF History
  <2> QED BY <1>6, <2>1, <2>2
<1>13. PICK t : t = Append(s, r)
  OBVIOUS
<1>14. /\ History(life, n, t) /\ Len(t) = k
       /\ \A i \in DOMAIN s : t[i] = s[i]
       /\ \A i \in 0..Len(s) : DartAfter(t, i) = DartAfter(s, i)
  BY <1>2, <1>7, <1>8, <1>12, <1>13, HistoryContinues
<1>15. stored'[n] = t /\ \A i \in 1..(k - 1) : i \in DOMAIN s /\ i \in DOMAIN t /\ i \in 0..Len(s)
  BY <1>9, <1>11, <1>12, <1>13, <1>14 DEF History
<1>16. HistoryHeld(life, n)'
  BY <1>10, <1>14, <1>15 DEF HistoryHeld, History
<1>17. SpentForGood(stored[n], dart[n].bills)'
  <2>1. Spends(r, dart[n].bills)
    <3>1. Spends(r, Determined(life)[k - 1].dart.bills)
      BY <1>2, <1>7, <1>8, RecorderSpends
    <3>2. k - 1 \in life.epoch..Len(life.order)
      BY <1>2, <1>8, EpochOfLife
    <3>3. dart[n].bills = Determined(life)[k - 1].dart.bills
      BY <1>2, <1>8, <3>2, NodeOfLife
    <3> QED BY <3>1, <3>3
  <2>2. SpentForGood(s, dart[n].bills)
    BY <1>2, <1>5 DEF DiskHeld
  <2>3. SpentForGood(Append(s, r), (dart[n].bills \ r.removes) \cup r.adds)
    BY <1>12, <2>1, <2>2, SpentKept
  <2>4. SpentForGood(stored'[n], dart'[n].bills)
    BY <1>10, <1>11, <2>3
  <2> QED BY <2>4 DEF SpentForGood, Removed, Added
<1>18. StatisticsHeld(life, n)'
  <2>1. MadeEpoch(n)' = k
    BY <1>8
  <2>2. /\ last_globals[n] = BillsAt(life, k)
        /\ k \in DOMAIN doc_globals[n] /\ doc_globals[n][k] = BillsAt(life, k)
    BY <1>2, <1>8, <1>9 DEF DiskHeld, StatisticsHeld
  <2> QED BY <1>1, <1>4, <1>10, <2>1, <2>2 DEF StatisticsHeld, BillsAt
<1>19. FilesHeld(life, n)' /\ JournalHeld(life, n)'
  BY <1>1, <1>2, <1>4 DEF DiskHeld, FilesHeld, JournalHeld, LoggedTo, Last
<1>20. ASSUME NEW m \in Node \ {n} PROVE DiskHeld(life, m)'
  <2>1. dart'[m] = dart[m]
    BY <1>1, <1>2 DEF modifyDART
  <2>2. UNCHANGED <<boots, DiskView(m)>>
    BY <1>1, <1>2, <1>4, <1>11, <2>1 DEF DiskView
  <2> QED BY <1>2, <2>2, DiskKept
<1>21. HistoryShared(life)'
  <2>1. ASSUME NEW m \in Node, NEW i \in 1..life.epoch PROVE stored'[m][i] = stored[m][i]
    <3>1. i \in DOMAIN s
      BY <1>9, <1>12
    <3> QED BY <1>5, <1>11, <1>14, <1>15, <3>1
  <2>2. ASSUME NEW m \in Node, NEW p \in Node, NEW i \in 1..life.epoch
        PROVE  ButWitnesses(stored'[m][i]) = ButWitnesses(stored'[p][i])
    <3>1. stored'[m][i] = stored[m][i] /\ stored'[p][i] = stored[p][i]
      BY <2>1
    <3>2. ButWitnesses(stored[m][i]) = ButWitnesses(stored[p][i])
      BY <1>2 DEF HistoryShared
    <3> QED BY <3>1, <3>2
  <2> QED BY <2>2 DEF HistoryShared, ButWitnesses
<1>22. FinishedHeld'
  <2>1. ASSUME NEW f \in finished, NEW m \in Node
        PROVE  f.epoch \in DOMAIN stored'[m] /\ f.bullseye = DartAfter(stored'[m], f.epoch)
    <3>1. f.epoch \in DOMAIN stored[m] /\ f.bullseye = DartAfter(stored[m], f.epoch)
      BY <1>2 DEF FinishedHeld
    <3>2. CASE m = n
      <4>1. f.epoch \in DOMAIN s
        BY <1>5, <3>1, <3>2
      <4>2. f.epoch \in 1..(k - 1)
        BY <1>12, <4>1
      <4>3. f.epoch \in DOMAIN t /\ f.epoch \in 0..Len(s)
        BY <1>15, <4>2
      <4> QED BY <1>5, <1>14, <1>15, <3>1, <3>2, <4>3
    <3> QED BY <1>11, <3>1, <3>2
  <2> QED BY <1>1, <2>1 DEF FinishedHeld
<1>23. DiskPerNode' /\ life.epoch = Booted'
  BY <1>1, <1>2 DEF DiskPerNode, Booted
<1>24. ASSUME NEW m \in Node PROVE DiskHeld(life, m)'
  BY <1>16, <1>17, <1>18, <1>19, <1>20 DEF DiskHeld
<1> QED BY <1>3, <1>21, <1>22, <1>23, <1>24 DEF Held

\* The transcript takes an epoch, or makes the recorder of the next epoch of the DART.
LEMMA RecorderMade ==
    ASSUME MaxInFlight = 1, ProductsInTime,
           NEW life, InStep(life), NEW n \in Node,
           (epoch(n) /\ Timely(n)) \/ receiveChecked(n)
    PROVE  LET k == dart[n].head + 1
               r == RecorderAt(life, n, k)
           IN  /\ UNCHANGED <<dart, last_block>> /\ StageOthersKept(n)
               /\ \A m \in Node \ {n} : last_globals'[m] = last_globals[m]
               /\ k - 1 \in life.epoch..Len(life.order)
               /\ MadeEpoch(n) = k - 1 /\ commits[n] = <<>>
               /\ \E j \in life.epoch..Len(life.order) :
                      previous_epoch'[n] = ChainTo(life, n, Determined(life)[j].finished)
               /\ \/ MadeEpoch(n)' = k - 1 /\ UNCHANGED <<last_globals, commits>>
                  \/ /\ k \in (life.epoch + 1)..Len(life.order) /\ MadeEpoch(n)' = k
                     /\ last_globals'[n] =
                            last_globals[n] + Cardinality(r.adds) - Cardinality(r.removes)
                     /\ commits'[n] = <<Request(life, n, k)>>
<1>1. PICK k : k = dart[n].head + 1
  OBVIOUS
<1>2. PICK stage \in Stage, made \in life.epoch..last_epoch_number[n] :
          InStage(life, n, stage, made)
  BY SomeStage
<1>3. /\ DOMAIN last_globals = Node /\ DOMAIN commits = Node
      /\ life.epoch \in Nat /\ Len(life.order) \in Nat /\ LifeOK(life)
  BY DEF InStep, LifeOK, PerNode
<1>4. UNCHANGED <<dart, last_block, committing>>
  BY DEF epoch, receiveChecked, storageVars
<1>5. stage \in {"idle", "answered"}
  <2>1. CASE epoch(n) /\ Timely(n)
    BY <1>2, <2>1, TimelyIsIdle
  <2>2. CASE receiveChecked(n)
    <3>1. checked[n] # <<>>
      BY <2>2 DEF receiveChecked
    <3>2. MessageAt(life, n, stage, last_epoch_number[n])
      BY <1>2 DEF InStage
    <3> QED BY <3>1, <3>2 DEF MessageAt
  <2> QED BY <2>1, <2>2
<1>6. /\ dart[n].head \in life.epoch..Len(life.order)
      /\ MadeEpoch(n) = dart[n].head /\ made = dart[n].head
  BY <1>2, <1>5, NodeIsAt
<1>7. commits[n] = <<>> /\ committing[n] = None
  BY <1>2, <1>5 DEF InStage, MessageAt
<1>8. k \in Nat /\ k - 1 = dart[n].head
  BY <1>1, <1>3, <1>6
<1>9. /\ StageOthersKept(n)
      /\ \/ UNCHANGED <<previous_epoch, last_globals, commits>>
         \/ Records(life, n, made)
  <2>1. CASE epoch(n) /\ Timely(n)
    BY <1>2, <2>1, EpochStage
  <2>2. CASE receiveChecked(n)
    BY <1>2, <2>2, CheckedStage
  <2> QED BY <2>1, <2>2
<1>10. ASSUME commits' = commits PROVE MadeEpoch(n)' = k - 1
  BY <1>4, <1>7, <1>8, <1>10 DEF MadeEpoch
<1>11. CASE UNCHANGED <<previous_epoch, last_globals, commits>>
  <2>1. \E j \in life.epoch..Len(life.order) :
            previous_epoch[n] = ChainTo(life, n, Determined(life)[j].finished)
    <3>1. PICK taken : taken = last_epoch_number[n]
      OBVIOUS
    <3>2. PICK before : before = IF stage = "idle" THEN taken ELSE taken - 1
      OBVIOUS
    <3>3. PICK called : called = IF stage \in {"asked", "answered"} THEN before ELSE taken
      OBVIOUS
    <3>4. /\ taken \in life.epoch..Len(life.order) /\ before \in life.epoch..taken
          /\ previous_epoch[n] = ChainTo(life, n, Determined(life)[called].finished)
      BY <1>2, <3>1, <3>2, <3>3 DEF InStage, TranscriptAt
    <3>5. called \in life.epoch..Len(life.order)
      BY <1>3, <3>3, <3>4
    <3> QED BY <3>4, <3>5
  <2>2. MadeEpoch(n)' = k - 1
    BY <1>10, <1>11
  <2> QED BY <1>1, <1>4, <1>6, <1>7, <1>8, <1>9, <1>11, <2>1, <2>2
<1>12. ASSUME NEW id, NEW ecs, InStage(life, n, "recorded", id)', Makes(life, n, id, ecs)
       PROVE  LET r == RecorderAt(life, n, k)
              IN  /\ \A m \in Node \ {n} : last_globals'[m] = last_globals[m]
                  /\ \E j \in life.epoch..Len(life.order) :
                         previous_epoch'[n] = ChainTo(life, n, Determined(life)[j].finished)
                  /\ k \in (life.epoch + 1)..Len(life.order) /\ MadeEpoch(n)' = k
                  /\ last_globals'[n] =
                         last_globals[n] + Cardinality(r.adds) - Cardinality(r.removes)
                  /\ commits'[n] = <<Request(life, n, k)>>
  <2>1. /\ id \in life.epoch..Len(life.order) /\ id - 1 \in life.epoch..id
        /\ previous_epoch'[n] = ChainTo(life, n, Determined(life)[id].finished)
        /\ dart'[n] = DartAt(life, n, id - 1)
    BY <1>12 DEF InStage, TranscriptAt, StorageAt, Recorded
  <2>2. id = k
    <3>1. id - 1 \in life.epoch..Len(life.order) /\ id \in Nat
      BY <1>3, <2>1
    <3>2. dart[n].head = id - 1
      BY <1>3, <1>4, <2>1, <3>1, NodeOfLife
    <3> QED BY <1>1, <3>1, <3>2
  <2>3. PICK r : r = RecorderAt(life, n, k)
    OBVIOUS
  <2>4. /\ last_globals'[n] =
               last_globals[n] + Cardinality(r.adds) - Cardinality(r.removes)
        /\ commits'[n] = Append(commits[n], Request(life, n, k))
        /\ \A m \in Node \ {n} : last_globals'[m] = last_globals[m]
    BY <1>3, <1>12, <2>2, <2>3 DEF Makes
  <2>5. commits'[n] = <<Request(life, n, k)>> /\ commits'[n] # <<>>
    BY <1>7, <2>4, OneMessage, Zenon
  <2>6. MadeEpoch(n)' = k
    BY <1>1, <1>4, <2>5 DEF MadeEpoch
  <2>7. k \in (life.epoch + 1)..Len(life.order)
    BY <1>3, <1>8, <2>1, <2>2
  <2> QED BY <2>1, <2>3, <2>4, <2>5, <2>6, <2>7
<1>13. ASSUME NEW id, NEW ecs, InStage(life, n, "idle", made)', Throws(life, n, id, made, ecs)
       PROVE  /\ UNCHANGED <<last_globals, commits>>
              /\ \E j \in life.epoch..Len(life.order) :
                     previous_epoch'[n] = ChainTo(life, n, Determined(life)[j].finished)
  <2>1. /\ last_epoch_number'[n] \in life.epoch..Len(life.order)
        /\ previous_epoch'[n] = ChainTo(life, n, Determined(life)[last_epoch_number'[n]].finished)
    BY <1>13 DEF InStage, TranscriptAt
  <2>2. UNCHANGED <<last_globals, commits>>
    BY <1>13 DEF Throws
  <2> QED BY <2>1, <2>2
<1>14. CASE Records(life, n, made)
  <2>1. CASE \E id, ecs : InStage(life, n, "recorded", id)' /\ Makes(life, n, id, ecs)
    <3>1. PICK id, ecs : InStage(life, n, "recorded", id)' /\ Makes(life, n, id, ecs)
      BY <2>1
    <3> QED BY <1>1, <1>4, <1>6, <1>7, <1>8, <1>9, <1>12, <3>1
  <2>2. CASE \E id, ecs : InStage(life, n, "idle", made)' /\ Throws(life, n, id, made, ecs)
    <3>1. PICK id, ecs : InStage(life, n, "idle", made)' /\ Throws(life, n, id, made, ecs)
      BY <2>2
    <3>2. /\ UNCHANGED <<last_globals, commits>>
          /\ \E j \in life.epoch..Len(life.order) :
                 previous_epoch'[n] = ChainTo(life, n, Determined(life)[j].finished)
      BY <1>13, <3>1
    <3>3. MadeEpoch(n)' = k - 1
      BY <1>10, <3>2
    <3> QED BY <1>1, <1>4, <1>6, <1>7, <1>8, <1>9, <3>2, <3>3
  <2> QED BY <1>14, <2>1, <2>2 DEF Records
<1> QED BY <1>9, <1>11, <1>14

\* The statistics in the Epoch records, after the step of the transcript.
LEMMA StatisticsContinue ==
    ASSUME MaxInFlight = 1, ProductsInTime, \A c \in Contract : Inputs[c] # {},
           NEW life, Held(life), NEW n \in Node, MakeRecorder(n)
    PROVE  StatisticsHeld(life, n)'
<1>1. PICK k : k = dart[n].head + 1
  OBVIOUS
<1>2. PICK r : r = RecorderAt(life, n, k)
  OBVIOUS
<1>3. /\ InStep(life) /\ LifeOK(life) /\ DiskHeld(life, n) /\ DOMAIN doc_globals = Node
  BY DEF Held, InStep, DiskPerNode
<1>4. /\ dart' = dart /\ k - 1 \in life.epoch..Len(life.order)
      /\ MadeEpoch(n) = k - 1 /\ commits[n] = <<>>
      /\ \/ MadeEpoch(n)' = k - 1 /\ UNCHANGED <<last_globals, commits>>
         \/ /\ k \in (life.epoch + 1)..Len(life.order) /\ MadeEpoch(n)' = k
            /\ last_globals'[n] = last_globals[n] + Cardinality(r.adds) - Cardinality(r.removes)
            /\ commits'[n] = <<Request(life, n, k)>>
  BY <1>1, <1>2, <1>3, RecorderMade DEF MakeRecorder
<1>5. /\ last_globals[n] = BillsAt(life, k - 1)
      /\ \A i \in {k - 1} \ {0} : i \in DOMAIN doc_globals[n] /\ doc_globals[n][i] = BillsAt(life, i)
      /\ dart[n].head = k - 1
  <2>1. dart[n].head = k - 1
    BY <1>1, <1>3, <1>4, HeadOfNode DEF LifeOK
  <2> QED BY <1>3, <1>4, <2>1 DEF DiskHeld, StatisticsHeld
<1>6. CASE MadeEpoch(n)' = k - 1 /\ UNCHANGED <<last_globals, commits>>
  <2>1. doc_globals' = doc_globals
    <3>1. ~(Len(commits[n]) > Len(commits[n]))
      BY <1>4
    <3> QED BY <1>6, <3>1 DEF MakeRecorder
  <2> QED BY <1>4, <1>5, <1>6, <2>1 DEF StatisticsHeld, BillsAt
<1>7. CASE /\ k \in (life.epoch + 1)..Len(life.order) /\ MadeEpoch(n)' = k
           /\ last_globals'[n] = last_globals[n] + Cardinality(r.adds) - Cardinality(r.removes)
           /\ commits'[n] = <<Request(life, n, k)>>
  <2>1. Len(commits'[n]) > Len(commits[n]) /\ Last(commits'[n]).id = k
    <3>1. Len(commits[n]) = 0 /\ Len(commits'[n]) = 1 /\ commits'[n][1] = Request(life, n, k)
      BY <1>4, <1>7
    <3> QED BY <3>1 DEF Last, Request
  <2>2. doc_globals'[n] = With(doc_globals[n], k, last_globals'[n])
    BY <1>3, <2>1 DEF MakeRecorder
  <2>3. BillsAt(life, k) = last_globals'[n]
    <3>1. /\ Spends(r, Determined(life)[k - 1].dart.bills)
          /\ RecorderOK(life, k) /\ StateOK(life, k - 1)
          /\ r.adds = SharedAt(life, k).adds /\ r.removes = SharedAt(life, k).removes
      <4>1. RecorderOK(life, k) /\ StateOK(life, k - 1)
        BY <1>3, <1>7, EpochOfLife
      <4>2. r.adds = SharedAt(life, k).adds /\ r.removes = SharedAt(life, k).removes
        BY <1>2, <1>3, <1>7, RecorderOfNode
      <4>3. Spends(r, Determined(life)[k - 1].dart.bills)
        BY <1>2, <1>3, <1>7, RecorderSpends
      <4> QED BY <4>1, <4>2, <4>3
    <3> DEFINE bills == Determined(life)[k - 1].dart.bills
    <3>2. dart[n].bills = bills
      <4>1. dart[n] = DartAt(life, n, dart[n].head)
        BY <1>3, HeadOfNode
      <4>2. PICK i : i = k - 1
        OBVIOUS
      <4>3. dart[n] = DartAt(life, n, i) /\ i \in life.epoch..Len(life.order)
        BY <1>4, <1>5, <4>1, <4>2
      <4>4. DartAt(life, n, i).bills = Determined(life)[i].dart.bills
        BY <1>3, <4>3, NodeOfLife
      <4> QED BY <4>2, <4>3, <4>4
    <3>3. bills \in SUBSET Archive
      BY <3>1 DEF StateOK, Content
    <3>4. SpentForGood(stored[n], bills)
      BY <1>3, <3>2 DEF DiskHeld
    <3>5. Determined(life)[k].dart.bills = (bills \ r.removes) \cup r.adds
      BY <1>2, <3>1 DEF RecorderOK, modify
    <3> HIDE DEF bills
    <3>6. Cardinality((bills \ r.removes) \cup r.adds) =
              Cardinality(bills) + Cardinality(r.adds) - Cardinality(r.removes)
      BY <3>1, <3>3, <3>4, BillsCounted DEF bills
    <3>7. last_globals[n] = Cardinality(bills)
      BY <1>5 DEF BillsAt, bills
    <3> QED BY <1>7, <3>5, <3>6, <3>7 DEF BillsAt
  <2>4. k \in Nat /\ k # 0
    BY <1>3, <1>7 DEF LifeOK
  <2>5. /\ k \in DOMAIN doc_globals'[n] /\ doc_globals'[n][k] = BillsAt(life, k)
        /\ \A i \in {k - 1} \ {0} :
               i \in DOMAIN doc_globals'[n] /\ doc_globals'[n][i] = BillsAt(life, i)
    BY <1>5, <2>2, <2>3, <2>4 DEF With
  <2> QED BY <1>4, <1>5, <1>7, <2>3, <2>5 DEF StatisticsHeld, BillsAt
<1> QED BY <1>4, <1>6, <1>7

\* The finished epochs, after the step of the transcript.
LEMMA FinishedContinue ==
    ASSUME MaxInFlight = 1, ProductsInTime,
           NEW life, Held(life), NEW n \in Node, MakeRecorder(n)
    PROVE  FinishedHeld'
<1>1. /\ InStep(life) /\ LifeOK(life) /\ FinishedHeld /\ \A m \in Node : DiskHeld(life, m)
      /\ stored' = stored
      /\ finished' = finished \cup
             {[epoch |-> previous_epoch'[n][i].epoch, bullseye |-> previous_epoch'[n][i].bullseye] :
                 i \in DOMAIN previous_epoch'[n]}
      /\ life.epoch \in Nat /\ Len(life.order) \in Nat
  BY DEF Held, InStep, MakeRecorder, LifeOK
<1>2. PICK j \in life.epoch..Len(life.order) :
          previous_epoch'[n] = ChainTo(life, n, Determined(life)[j].finished)
  BY <1>1, RecorderMade DEF MakeRecorder
<1>3. PICK last : last = Determined(life)[j].finished
  OBVIOUS
<1>4. /\ DOMAIN previous_epoch'[n] = 1..(last - life.epoch)
      /\ \A i \in 1..(last - life.epoch) : previous_epoch'[n][i] = EpochAt(life, n, life.epoch + i)
  BY <1>2, <1>3 DEF ChainTo
<1>5. /\ last \in Nat /\ last <= Len(life.order)
      /\ \A k \in (life.epoch + 1)..last : Alike(life, k)
  <2>1. StateOK(life, j)
    BY <1>1, LifeDetermined
  <2>2. last \in life.epoch..j /\ \A k \in (life.epoch + 1)..last : Alike(life, k)
    BY <1>3, <2>1 DEF StateOK
  <2> QED BY <1>1, <2>2
<1>6. ASSUME NEW i \in 1..(last - life.epoch), NEW m \in Node
      PROVE  /\ previous_epoch'[n][i].epoch \in DOMAIN stored[m]
             /\ previous_epoch'[n][i].bullseye = DartAfter(stored[m], previous_epoch'[n][i].epoch)
  <2>1. PICK e : e = life.epoch + i
    OBVIOUS
  <2>2. e \in (life.epoch + 1)..last /\ e \in Nat
    BY <1>1, <1>5, <2>1
  <2>3. e <= LoggedTo(life, m)
    BY <1>1, <1>3, <2>2, FinishedIsLogged
  <2>5. /\ LoggedTo(life, m) \in life.epoch..Len(life.order)
        /\ dart[m].head \in {LoggedTo(life, m), LoggedTo(life, m) + 1}
    BY <1>1, HeadOfNode
  <2>6. e <= dart[m].head /\ dart[m].head \in Nat
    BY <1>1, <2>2, <2>3, <2>5
  <2>7. History(life, m, stored[m]) /\ Len(stored[m]) = dart[m].head
    BY <1>1 DEF DiskHeld, HistoryHeld
  <2>8. e \in DOMAIN stored[m] /\ e \in life.epoch..Len(stored[m])
    BY <1>1, <2>2, <2>6, <2>7 DEF History
  <2>9. DartAt(life, n, e) = DartAfter(stored[m], e)
    <3>1. DartAt(life, m, e) = DartAfter(stored[m], e)
      BY <2>7, <2>8 DEF History
    <3>2. e \in (life.epoch + 1)..Len(life.order)
      BY <1>1, <1>5, <2>2
    <3>3. life.order[e].witnesses[n] = life.order[e].witnesses[m]
      BY <1>5, <2>2 DEF Alike
    <3>4. DartAt(life, n, e) = DartAt(life, m, e)
      BY <1>1, <3>2, <3>3, BullseyesAlike
    <3> QED BY <3>1, <3>4
  <2>10. previous_epoch'[n][i].epoch = e /\ previous_epoch'[n][i].bullseye = DartAt(life, n, e)
    <3>1. previous_epoch'[n][i] = EpochAt(life, n, e)
      BY <1>4, <2>1, Zenon
    <3> QED BY <3>1 DEF EpochAt
  <2> QED BY <2>8, <2>9, <2>10
<1>7. ASSUME NEW f \in finished', NEW m \in Node
      PROVE  f.epoch \in DOMAIN stored[m] /\ f.bullseye = DartAfter(stored[m], f.epoch)
  <2>1. CASE f \in finished
    BY <1>1, <2>1 DEF FinishedHeld
  <2>2. CASE f \notin finished
    <3>1. PICK i \in DOMAIN previous_epoch'[n] :
              f = [epoch |-> previous_epoch'[n][i].epoch,
                   bullseye |-> previous_epoch'[n][i].bullseye]
      BY <1>1, <2>2
    <3>2. f.epoch = previous_epoch'[n][i].epoch /\ f.bullseye = previous_epoch'[n][i].bullseye
      BY <3>1
    <3> QED BY <1>4, <1>6, <3>2
  <2> QED BY <2>1, <2>2
<1> QED BY <1>1, <1>7 DEF FinishedHeld

\* The transcript makes a recorder, or asks for what it needs for one.
LEMMA MakeRecorderHeld ==
    ASSUME MaxInFlight = 1, ProductsInTime, ShutdownEpoch = {},
           \A c \in Contract : Inputs[c] # {},
           NEW life, Held(life), NEW n \in Node, MakeRecorder(n), boots' = boots
    PROVE  Held(life)'
<1>1. /\ InStep(life) /\ life.epoch = Booted /\ \A m \in Node : DiskHeld(life, m)
      /\ DiskPerNode /\ HistoryShared(life) /\ DOMAIN doc_globals = Node
  BY DEF Held, DiskPerNode
<1>2. (epoch(n) /\ Timely(n)) \/ receiveChecked(n)
  BY DEF MakeRecorder
<1>3. UNCHANGED <<stored, unwritten, journal, file_names>>
  BY DEF MakeRecorder
<1>4. /\ DOMAIN doc_globals' = Node
      /\ \A m \in Node \ {n} : doc_globals'[m] = doc_globals[m]
  BY <1>1 DEF MakeRecorder
<1>5. InStep(life)'
  BY <1>1, <1>2, InStepOfNode DEF NodeStep
<1>6. /\ dart' = dart /\ last_block' = last_block /\ StageOthersKept(n)
      /\ \A m \in Node \ {n} : last_globals'[m] = last_globals[m]
  BY <1>1, <1>2, RecorderMade
<1>7. ASSUME NEW m \in Node \ {n} PROVE DiskHeld(life, m)'
  <2>1. commits'[m] = commits[m] /\ committing'[m] = committing[m]
    BY <1>6 DEF StageOthersKept, StageView
  <2>2. UNCHANGED <<boots, DiskView(m)>>
    BY <1>3, <1>4, <1>6, <2>1 DEF DiskView
  <2> QED BY <1>1, <2>2, DiskKept
<1>8. /\ HistoryHeld(life, n)' /\ SpentForGood(stored[n], dart[n].bills)'
      /\ FilesHeld(life, n)' /\ JournalHeld(life, n)'
  <2>1. HistoryHeld(life, n)'
    BY <1>1, <1>3, <1>6 DEF DiskHeld, HistoryHeld, History
  <2>2. SpentForGood(stored[n], dart[n].bills)'
    BY <1>1, <1>3, <1>6 DEF DiskHeld, SpentForGood, Removed, Added
  <2>3. FilesHeld(life, n)'
    BY <1>1, <1>3, <1>6 DEF DiskHeld, FilesHeld, LoggedTo
  <2>4. JournalHeld(life, n)'
    BY <1>1, <1>3, <1>6 DEF DiskHeld, JournalHeld, LoggedTo, Last
  <2> QED BY <2>1, <2>2, <2>3, <2>4
<1>9. StatisticsHeld(life, n)'
  BY StatisticsContinue
<1>10. FinishedHeld'
  BY FinishedContinue
<1>11. life.epoch = Booted' /\ DiskPerNode' /\ HistoryShared(life)'
  BY <1>1, <1>3, <1>4 DEF Booted, DiskPerNode, HistoryShared, ButWitnesses
<1>12. ASSUME NEW m \in Node PROVE DiskHeld(life, m)'
  BY <1>7, <1>8, <1>9 DEF DiskHeld
<1> QED BY <1>5, <1>10, <1>11, <1>12 DEF Held

\* The hashgraph decides an epoch.
LEMMA DecideHeld ==
    ASSUME NEW life, Held(life), Decide, boots' = boots,
           NEW later, later.epoch = life.epoch, later.dart = life.dart, later.order = consensus'
    PROVE  Held(later)'
<1>1. /\ InStep(life) /\ life.epoch = Booted /\ \A m \in Node : DiskHeld(life, m)
      /\ DiskPerNode /\ HistoryShared(life) /\ FinishedHeld
      /\ decideEpoch /\ UNCHANGED diskVars
  BY DEF Held, Decide
<1>2. InStep(later)' /\ Continues(life, later)
  BY <1>1, InStepOfDecide
<1>3. UNCHANGED <<dart, last_block, commits, committing, last_globals>>
  BY <1>1 DEF decideEpoch, executionVars, boxVars, storageVars
<1>4. ASSUME NEW m \in Node
      PROVE  /\ \A i \in life.epoch..Len(life.order) :
                    /\ Determined(later)[i] = Determined(life)[i]
                    /\ DartAt(later, m, i) = DartAt(life, m, i)
             /\ \A i \in (life.epoch + 1)..Len(life.order) :
                    RecorderAt(later, m, i) = RecorderAt(life, m, i)
  BY <1>2, DeterminedKept
<1>5. ASSUME NEW m \in Node PROVE DiskHeld(later, m)
  <2>2. /\ MadeEpoch(m) \in life.epoch..Len(life.order)
        /\ dart[m].head \in life.epoch..Len(life.order)
    BY <1>1, HeadOfNode
  <2>3. life.epoch \in Nat /\ Len(life.order) \in Nat
    BY <1>1 DEF InStep, LifeOK
  <2>4. History(life, m, stored[m]) /\ Len(stored[m]) = dart[m].head
    BY <1>1 DEF DiskHeld, HistoryHeld
  <2>5. History(later, m, stored[m])
    <3>1. \A i \in life.epoch..Len(stored[m]) : i \in life.epoch..Len(life.order)
      BY <2>2, <2>3, <2>4
    <3>2. \A i \in (life.epoch + 1)..Len(stored[m]) : i \in (life.epoch + 1)..Len(life.order)
      BY <2>2, <2>3, <2>4
    <3> QED BY <1>4, <2>4, <3>1, <3>2 DEF History
  <2>6. StatisticsHeld(later, m)
    <3>1. StatisticsHeld(life, m)
      BY <1>1 DEF DiskHeld
    <3>2. /\ BillsAt(later, MadeEpoch(m)) = BillsAt(life, MadeEpoch(m))
          /\ BillsAt(later, dart[m].head) = BillsAt(life, dart[m].head)
      BY <1>4, <2>2 DEF BillsAt
    <3> QED BY <3>1, <3>2 DEF StatisticsHeld
  <2>7. FilesHeld(later, m) /\ JournalHeld(later, m) /\ SpentForGood(stored[m], dart[m].bills)
    BY <1>1 DEF DiskHeld, FilesHeld, JournalHeld, LoggedTo
  <2> QED BY <2>4, <2>5, <2>6, <2>7 DEF DiskHeld, HistoryHeld
<1>6. ASSUME NEW m \in Node PROVE DiskHeld(later, m)'
  <2>1. DiskHeld(later, m)
    BY <1>5
  <2>2. UNCHANGED <<boots, DiskView(m)>>
    BY <1>1, <1>3 DEF DiskView, diskVars
  <2> QED BY <2>1, <2>2, DiskKept
<1>7. later.epoch = Booted' /\ DiskPerNode' /\ HistoryShared(later)' /\ FinishedHeld'
  BY <1>1 DEF Booted, DiskPerNode, HistoryShared, ButWitnesses, FinishedHeld, diskVars
<1> QED BY <1>2, <1>6, <1>7 DEF Held

(* The life that starts from the DARTs that the nodes have, and their bullseye is one. *)
Starts(later, head, content) ==
    /\ head \in Nat /\ content \in Content /\ content.head = head
    /\ later = [epoch |-> head, dart |-> content,
                order |-> [i \in 1..head |-> EmptyEpoch]]

\* A life that starts has no epoch yet.
LEMMA StartOfLife ==
    ASSUME NEW later, NEW head, NEW content, Starts(later, head, content)
    PROVE  /\ later.epoch = head /\ later.dart = content
           /\ LifeOK(later) /\ Len(later.order) = head
           /\ Determined(later)[head].dart = content
           /\ Determined(later)[head].finished = head
           /\ ContractsOnce(later)
           /\ \A i \in DOMAIN later.order : later.order[i].votes = {}
<1>1. /\ later.epoch = head /\ later.dart = content
      /\ head \in Nat /\ content \in Content /\ content.head = head
  BY DEF Starts
<1>2. /\ Len(later.order) = head /\ later.order \in Seq(ConsensusEpoch)
      /\ \A i \in DOMAIN later.order :
             later.order[i].votes = {} /\ later.order[i].contracts = <<>>
  <2>1. /\ EmptyEpoch \in ConsensusEpoch
        /\ EmptyEpoch.votes = {} /\ EmptyEpoch.contracts = <<>>
    BY WitnessAssumption DEF EmptyEpoch, ConsensusEpoch
  <2>2. later.order = [i \in 1..head |-> EmptyEpoch]
    BY DEF Starts
  <2> QED BY <1>1, <2>1, <2>2
<1>3. LifeOK(later)
  BY <1>1, <1>2 DEF LifeOK
<1>4. Determined(later)[head] = [dart |-> content, finished |-> head]
  BY <1>1, <1>3, LifeDetermined
<1>5. ContractsOnce(later)
  BY <1>2 DEF ContractsOnce, ContractsOf
<1> QED BY <1>1, <1>2, <1>3, <1>4, <1>5

\* The process starts with every node between two epochs.
LEMMA BootInStep ==
    ASSUME NEW life, InStep(life), Boot, NEW later, NEW head, NEW content,
           Starts(later, head, content),
           \A n \in Node : dart[n] = content, consensus' = later.order
    PROVE  InStep(later)'
<1>1. /\ later.epoch = head /\ later.dart = content
      /\ LifeOK(later) /\ Len(later.order) = head
      /\ Determined(later)[head].dart = content /\ Determined(later)[head].finished = head
      /\ ContractsOnce(later)
      /\ \A i \in DOMAIN later.order : later.order[i].votes = {}
      /\ head \in Nat /\ content \in Content /\ content.head = head
  BY StartOfLife DEF Starts
<1>2. VotesFollow(later)' /\ VotesDetermined(later)'
  BY <1>1 DEF Boot, VotesFollow, VotesDetermined
<1>3. PerNode'
  BY DEF Boot, InStep, PerNode
<1>4. ASSUME NEW n \in Node PROVE InStage(later, n, "idle", head)'
  <2>1. running[n] = "up" /\ shutdown[n] = 0
    <3>1. PICK stage \in Stage, made \in life.epoch..last_epoch_number[n] :
              InStage(life, n, stage, made)
      BY SomeStage
    <3> QED BY <3>1 DEF InStage, TranscriptAt
  <2>2. (head + 1)..head = {} /\ head - head = 0 /\ 1..0 = {}
    BY <1>1
  <2>3. /\ ChainTo(later, n, head) = <<>> /\ LogTo(later, n, head) = <<>>
        /\ \A i \in (later.epoch + 1)..head : FALSE
    BY <1>1, <2>2 DEF ChainTo, LogTo
  <2>4. TranscriptAt(later, n, head, head, head, head)'
    <3>1. /\ [e \in (head + 1)..head |-> EntryAt(later, n, e, head, head)] = <<>>
          /\ [e \in (head + 1)..head |-> WaitingAt(later, n, e)] = <<>>
      BY <2>2
    <3>2. /\ running'[n] = "up" /\ shutdown'[n] = 0
          /\ last_epoch_number'[n] = head /\ last_consensus_epoch'[n] = head
          /\ previous_epoch'[n] = <<>> /\ votes'[n] = <<>> /\ epoch_contracts'[n] = <<>>
          /\ products'[n] = {} /\ produced'[n] = {}
      BY <1>1, <2>1 DEF Boot, BootEpoch
    <3> QED BY <1>1, <2>2, <2>3, <3>1, <3>2 DEF TranscriptAt
  <2>5. StorageAt(later, n, head, head)'
    <3>1. DartAt(later, n, head) = content
      <4>1. head \in later.epoch..Len(later.order) /\ head = later.epoch
        BY <1>1
      <4> QED BY <1>1, <4>1, NodeOfLife
    <3>2. dart'[n] = content /\ last_block'[n] = <<>>
      BY DEF Boot, BootBlocks
    <3> QED BY <2>3, <3>1, <3>2 DEF StorageAt
  <2>6. MessageAt(later, n, "idle", head)'
    BY DEF Boot, MessageAt
  <2>7. last_epoch_number'[n] = head
    BY <1>1 DEF Boot, BootEpoch
  <2>8. head \in later.epoch..Len(later.order) /\ head \in later.epoch..head
    BY <1>1
  <2>9. MakesUpTo(later, n, head, head)
    <3>1. \A j \in 1..head : later.order[j].votes = {}
      BY <1>1 DEF LifeOK
    <3>2. ~Split(later, n, head)
      BY <3>1 DEF Split
    <3> QED BY <1>1, <2>8, <3>2 DEF MakesUpTo
  <2> QED BY <2>4, <2>5, <2>6, <2>7, <2>8, <2>9 DEF InStage, Recorded
<1>5. ASSUME NEW n \in Node PROVE NodeInStep(later, n)'
  <2>1. last_epoch_number'[n] = head /\ head \in later.epoch..head
    BY <1>1 DEF Boot, BootEpoch
  <2> QED BY <1>4, <2>1 DEF NodeInStep, Stage
<1> QED BY <1>1, <1>2, <1>3, <1>5 DEF InStep, LifeOK, ContractsOnce, ContractsOf

\* What the process finds on disk is what the new life starts from.
LEMMA BootHeld ==
    ASSUME NEW life, Held(life), Boot
    PROVE  RestartInvariant'
<1>1. /\ InStep(life) /\ life.epoch = Booted /\ \A m \in Node : DiskHeld(life, m)
      /\ DiskPerNode /\ HistoryShared(life) /\ FinishedHeld /\ LifeOK(life)
      /\ life.epoch \in Nat /\ Len(life.order) \in Nat
  BY DEF Held, InStep, LifeOK
<1>2. PICK p \in Node : /\ boots' = Append(boots, dart[p].head)
                        /\ consensus' = [i \in 1..dart[p].head |-> EmptyEpoch]
  BY DEF Boot, BootEpoch
<1>3. PICK content : content = dart[p]
  OBVIOUS
<1>4. PICK head : head = content.head
  OBVIOUS
<1>5. \A m \in Node : dart[m] = content
  BY <1>3 DEF Boot, SameBullseyes
<1>6. PICK later : later = [epoch |-> head, dart |-> content,
                            order |-> [i \in 1..head |-> EmptyEpoch]]
  OBVIOUS
<1>7. /\ head \in life.epoch..Len(life.order) /\ head \in Nat
      /\ \A m \in Node : /\ content = DartAt(life, m, head)
                         /\ LoggedTo(life, m) \in life.epoch..head
                         /\ head \in {LoggedTo(life, m), LoggedTo(life, m) + 1}
                         /\ content.bills = Determined(life)[head].dart.bills
  <2>1. ASSUME NEW m \in Node
        PROVE  /\ head \in life.epoch..Len(life.order) /\ head \in Nat
               /\ content = DartAt(life, m, head)
               /\ LoggedTo(life, m) \in life.epoch..head
               /\ head \in {LoggedTo(life, m), LoggedTo(life, m) + 1}
               /\ content.bills = Determined(life)[head].dart.bills
    <3>1. dart[m].head = head /\ dart[m] = content
      BY <1>4, <1>5
    <3>2. /\ LoggedTo(life, m) \in life.epoch..Len(life.order)
          /\ head \in {LoggedTo(life, m), LoggedTo(life, m) + 1}
          /\ head \in life.epoch..Len(life.order)
          /\ content = DartAt(life, m, head)
      BY <1>1, <3>1, HeadOfNode
    <3>3. content.bills = Determined(life)[head].dart.bills
      BY <1>1, <3>2, NodeOfLife
    <3> QED BY <1>1, <3>2, <3>3
  <2> QED BY <2>1
<1>8. content \in Content
  BY <1>1, <1>2, <1>7, NodeOfLife
<1>9. Starts(later, head, content)
  BY <1>4, <1>6, <1>7, <1>8 DEF Starts
<1>10. /\ later.epoch = head /\ later.dart = content /\ LifeOK(later) /\ Len(later.order) = head
       /\ Determined(later)[head].dart = content
       /\ \A m \in Node : DartAt(later, m, head) = content
  <2>1. /\ later.epoch = head /\ later.dart = content /\ LifeOK(later) /\ Len(later.order) = head
        /\ Determined(later)[head].dart = content
    BY <1>9, StartOfLife
  <2>2. head \in later.epoch..Len(later.order)
    BY <1>7, <2>1
  <2> QED BY <2>1, <2>2, NodeOfLife
<1>11. InStep(later)'
  <2>1. consensus' = later.order
    BY <1>2, <1>3, <1>4, <1>6
  <2> QED BY <1>1, <1>5, <1>9, <2>1, BootInStep
<1>12. ASSUME NEW m \in Node
       PROVE  /\ History(life, m, stored[m]) /\ Len(stored[m]) = head
              /\ DartAfter(stored[m], head) = content
  <2>1. History(life, m, stored[m]) /\ Len(stored[m]) = head
    BY <1>1, <1>4, <1>5 DEF DiskHeld, HistoryHeld
  <2>2. head \in life.epoch..Len(stored[m])
    BY <1>1, <1>7, <2>1
  <2> QED BY <1>7, <2>1, <2>2 DEF History
<1>13. UNCHANGED <<dart, stored, doc_globals, journal, file_names, finished>>
  BY DEF Boot
<1>14. ASSUME NEW m \in Node PROVE History(later, m, stored[m])
  <2>1. /\ stored[m] \in Seq(Recorder) /\ \A i \in DOMAIN stored[m] : stored[m][i].open = {i}
        /\ Len(stored[m]) = head
    BY <1>12 DEF History
  <2>2. (head + 1)..head = {} /\ head..head = {head}
    BY <1>7
  <2> QED BY <1>7, <1>10, <1>12, <2>1, <2>2 DEF History
<1>15. ASSUME NEW m \in Node PROVE DiskHeld(later, m)'
  <2>1. HistoryHeld(later, m)'
    BY <1>4, <1>5, <1>12, <1>13, <1>14 DEF HistoryHeld, History
  <2>2. SpentForGood(stored[m], dart[m].bills)'
    BY <1>1, <1>13 DEF DiskHeld, SpentForGood, Removed, Added
  <2>3. StatisticsHeld(later, m)'
    <3>1. MadeEpoch(m)' = head /\ dart'[m].head = head
      BY <1>4, <1>5, <1>13 DEF Boot, MadeEpoch
    <3>2. BillsAt(later, head) = Cardinality(content.bills)
      BY <1>10 DEF BillsAt
    <3>3. last_globals'[m] = IF head = 0 THEN Cardinality(Bill) ELSE doc_globals[m][head]
      BY <1>4, <1>5 DEF Boot, BootGlobals
    <3>4. head # 0 => /\ head \in DOMAIN doc_globals[m]
                      /\ doc_globals[m][head] = Cardinality(content.bills)
      BY <1>1, <1>4, <1>5, <1>7 DEF DiskHeld, StatisticsHeld, BillsAt
    <3>5. head = 0 => Cardinality(Bill) = Cardinality(content.bills)
      BY <1>12, DartAfterNone DEF GenesisDART
    <3> QED BY <1>13, <3>1, <3>2, <3>3, <3>4, <3>5 DEF StatisticsHeld, BillsAt
  <2>4. last_block'[m] = <<>> /\ unwritten'[m] = None
    BY DEF Boot, BootBlocks
  <2>5. LoggedTo(later, m)' = head
    BY <1>7, <1>10, <2>4 DEF LoggedTo
  <2>6. FilesHeld(later, m)'
    <3>1. \A f \in file_names[m] : f \in Nat /\ f <= LoggedTo(life, m)
      BY <1>1 DEF DiskHeld, FilesHeld
    <3>2. \A f \in file_names[m] : f \in Nat /\ f <= head
      BY <1>1, <1>7, <3>1
    <3> QED BY <1>13, <2>5, <3>2 DEF FilesHeld
  <2>7. JournalHeld(later, m)'
    <3>1. /\ journal[m] \in Seq(RecorderBlock)
          /\ \A i \in 1..LoggedTo(life, m) :
                 \/ \E j \in DOMAIN journal[m] : journal[m][j].epoch = i
                 \/ \E j \in DOMAIN boots : i \in {boots[j], boots[j] - 1}
                 \/ i = LoggedTo(life, m)
      BY <1>1 DEF DiskHeld, JournalHeld
    <3>2. /\ \A j \in DOMAIN boots : j \in DOMAIN boots' /\ boots'[j] = boots[j]
          /\ Len(boots) + 1 \in DOMAIN boots' /\ boots'[Len(boots) + 1] = head
      <4>1. boots \in Seq(Nat) /\ boots' = Append(boots, head) /\ head \in Nat
        BY <1>1, <1>2, <1>3, <1>4, <1>7 DEF DiskPerNode
      <4> QED BY <4>1
    <3>3. \A i \in 1..head :
              \/ i \in 1..LoggedTo(life, m) /\ i # LoggedTo(life, m)
              \/ i \in {head, head - 1}
      BY <1>1, <1>7
    <3>4. ASSUME NEW i \in 1..head
          PROVE  \/ \E j \in DOMAIN journal[m] : journal[m][j].epoch = i
                 \/ \E j \in DOMAIN boots' : i \in {boots'[j], boots'[j] - 1}
      BY <3>1, <3>2, <3>3
    <3> QED BY <1>13, <2>4, <2>5, <3>1, <3>4 DEF JournalHeld
  <2> QED BY <2>1, <2>2, <2>3, <2>6, <2>7 DEF DiskHeld
<1>16. HistoryShared(later)'
  <2>1. ASSUME NEW n \in Node, NEW m \in Node, NEW i \in 1..head
        PROVE  ButWitnesses(stored[n][i]) = ButWitnesses(stored[m][i])
    <3>1. CASE i \in 1..life.epoch
      BY <1>1, <3>1 DEF HistoryShared
    <3>2. CASE i \in (life.epoch + 1)..head
      <4>1. stored[n][i] = RecorderAt(life, n, i) /\ stored[m][i] = RecorderAt(life, m, i)
        BY <1>12, <3>2 DEF History
      <4>2. i \in (life.epoch + 1)..Len(life.order)
        BY <1>1, <1>7, <3>2
      <4> QED BY <1>1, <4>1, <4>2, BlocksAlike
    <3> QED BY <1>1, <1>7, <3>1, <3>2
  <2> QED BY <1>10, <1>13, <2>1 DEF HistoryShared, ButWitnesses
<1>17. FinishedHeld'
  BY <1>1, <1>13 DEF FinishedHeld
<1>18. later.epoch = Booted' /\ DiskPerNode'
  <2>1. /\ boots' \in Seq(Nat) /\ boots' # <<>> /\ Len(boots') = Len(boots) + 1
        /\ boots'[Len(boots) + 1] = head
    <3>1. boots \in Seq(Nat) /\ boots' = Append(boots, head) /\ head \in Nat
      BY <1>1, <1>2, <1>3, <1>4, <1>7 DEF DiskPerNode
    <3> QED BY <3>1
  <2>2. DOMAIN unwritten' = Node
    BY DEF Boot
  <2> QED BY <1>1, <1>10, <1>13, <2>1, <2>2 DEF Booted, Last, DiskPerNode
<1>19. Held(later)'
  BY <1>11, <1>15, <1>16, <1>17, <1>18 DEF Held
<1>20. later = [epoch |-> later.epoch, dart |-> later.dart, order |-> later.order]
  BY <1>6
<1> QED BY <1>19, <1>20, HeldIsLife

(***************************************************************************)
(* The invariant of the network that crashes                               *)
(***************************************************************************)
\* The first life starts from the genesis, with nothing on disk.
LEMMA InitHeld ==
    ASSUME RestartInit
    PROVE  RestartInvariant
<1>1. PICK life : life = LifeFrom(0, GenesisDART)
  OBVIOUS
<1>2. InStep(life) /\ LifeOK(life)
  <2>1. Init
    BY DEF RestartInit
  <2> QED BY <1>1, <2>1, InitInStep DEF InStepInvariant, InStep
<1>3. life.epoch = 0 /\ life.dart = GenesisDART /\ consensus = <<>> /\ life.order = <<>>
  BY <1>1 DEF LifeFrom, RestartInit, Init
<1>4. /\ Determined(life)[0].dart = GenesisDART
      /\ \A n \in Node : DartAt(life, n, 0) = GenesisDART
  <2>1. Determined(life)[life.epoch] = [dart |-> life.dart, finished |-> life.epoch]
    BY <1>2, LifeDetermined, Zenon
  <2>2. life.epoch \in life.epoch..Len(life.order)
    BY <1>3
  <2>3. \A n \in Node : DartAt(life, n, life.epoch) = life.dart
    BY <1>2, <2>2, NodeOfLife
  <2> QED BY <1>3, <2>1, <2>3
<1>5. GenesisDART.head = 0 /\ GenesisDART.bills = Bill
  BY DEF GenesisDART
<1>6. boots = <<>> /\ finished = {} /\ Booted = 0
  BY DEF RestartInit, Booted
<1>7. ASSUME NEW n \in Node
      PROVE  /\ stored[n] = <<>> /\ doc_globals[n] = <<>> /\ unwritten[n] = None
             /\ journal[n] = <<>> /\ file_names[n] = {} /\ dart[n] = GenesisDART
             /\ last_block[n] = <<>> /\ commits[n] = <<>> /\ committing[n] = None
             /\ last_globals[n] = Cardinality(Bill)
  BY DEF RestartInit, Init
<1>8. ASSUME NEW n \in Node PROVE DiskHeld(life, n)
  <2>1. HistoryHeld(life, n)
    <3>1. History(life, n, <<>>)
      <4>1. /\ <<>> \in Seq(Recorder) /\ Len(<<>>) = 0 /\ DOMAIN <<>> = {}
            /\ 1..0 = {} /\ (0 + 1)..0 = {} /\ 0..0 = {0}
        OBVIOUS
      <4>2. DartAfter(<<>>, 0) = GenesisDART
        BY DartAfterNone
      <4> QED BY <1>3, <1>4, <4>1, <4>2 DEF History
    <3> QED BY <1>5, <1>7, <3>1 DEF HistoryHeld
  <2>2. SpentForGood(stored[n], dart[n].bills)
    BY <1>5, <1>7 DEF SpentForGood, Removed, Added
  <2>3. StatisticsHeld(life, n)
    BY <1>4, <1>5, <1>7 DEF StatisticsHeld, MadeEpoch, BillsAt
  <2>4. FilesHeld(life, n)
    BY <1>7 DEF FilesHeld
  <2>5. JournalHeld(life, n)
    <3>1. LoggedTo(life, n) = 0
      BY <1>3, <1>7 DEF LoggedTo
    <3>2. <<>> \in Seq(RecorderBlock) /\ 1..0 = {}
      OBVIOUS
    <3> QED BY <1>7, <3>1, <3>2 DEF JournalHeld
  <2> QED BY <2>1, <2>2, <2>3, <2>4, <2>5 DEF DiskHeld
<1>9. DiskPerNode
  BY <1>6 DEF DiskPerNode, RestartInit
<1>10. HistoryShared(life) /\ FinishedHeld
  BY <1>3, <1>6 DEF HistoryShared, FinishedHeld
<1>11. Held(life)
  BY <1>2, <1>3, <1>6, <1>8, <1>9, <1>10 DEF Held
<1>12. PICK n \in Node : TRUE
  BY NodeAssumption
<1>13. life = LifeOf(n)
  BY <1>1, <1>6, <1>7, DartAfterNone DEF LifeOf
<1> QED BY <1>11, <1>13 DEF RestartInvariant

\* Nothing is lost when nothing happens.
LEMMA UnchangedHeld ==
    ASSUME NEW life, Held(life), UNCHANGED restartVars
    PROVE  Held(life)'
<1>1. UNCHANGED vars /\ UNCHANGED <<boots, diskVars>>
  BY DEF restartVars
<1>2. InStep(life)'
  BY <1>1, InStepKept DEF Held
<1>3. ASSUME NEW n \in Node PROVE DiskHeld(life, n)'
  <2>1. DiskHeld(life, n)
    BY DEF Held
  <2>2. UNCHANGED <<boots, DiskView(n)>>
    BY <1>1 DEF DiskView, diskVars, vars, networkVars, votingVars, executionVars, boxVars,
                storageVars
  <2> QED BY <2>1, <2>2, DiskKept
<1>4. life.epoch = Booted' /\ DiskPerNode' /\ HistoryShared(life)' /\ FinishedHeld'
  BY <1>1 DEF Held, Booted, DiskPerNode, HistoryShared, ButWitnesses, FinishedHeld, diskVars
<1> QED BY <1>2, <1>3, <1>4 DEF Held

LEMMA NextHeld ==
    ASSUME MaxInFlight = 1, ProductsInTime, ShutdownEpoch = {},
           \A c \in Contract : Inputs[c] # {},
           RestartInvariant, [RestartNext]_restartVars
    PROVE  RestartInvariant'
<1>1. PICK life : /\ Held(life)
                  /\ life = [epoch |-> life.epoch, dart |-> life.dart, order |-> life.order]
  <2>1. PICK n \in Node : Held(LifeOf(n))
    BY DEF RestartInvariant
  <2>2. LifeOf(n) = [epoch |-> LifeOf(n).epoch, dart |-> LifeOf(n).dart,
                     order |-> LifeOf(n).order]
    BY DEF LifeOf, LifeFrom
  <2> QED BY <2>1, <2>2
<1>2. CASE Running
  <2>1. boots' = boots
    BY <1>2 DEF Running
  <2>2. CASE Decide
    <3>1. PICK later : later = [epoch |-> life.epoch, dart |-> life.dart, order |-> consensus']
      OBVIOUS
    <3>2. later.epoch = life.epoch /\ later.dart = life.dart /\ later.order = consensus'
      BY <3>1
    <3>3. Held(later)'
      BY <1>1, <2>1, <2>2, <3>2, DecideHeld
    <3>4. later = [epoch |-> later.epoch, dart |-> later.dart, order |-> later.order]
      BY <3>1
    <3> QED BY <3>3, <3>4, HeldIsLife
  <2>3. ASSUME NEW n \in Node, Memory(n) PROVE Held(life)'
    BY <1>1, <2>1, <2>3, MemoryHeld
  <2>4. ASSUME NEW n \in Node, MakeRecorder(n) PROVE Held(life)'
    BY <1>1, <2>1, <2>4, MakeRecorderHeld
  <2>5. ASSUME NEW n \in Node, Store(n) PROVE Held(life)'
    BY <1>1, <2>1, <2>5, StoreHeld
  <2>6. ASSUME NEW n \in Node, Replicate(n) PROVE Held(life)'
    BY <1>1, <2>1, <2>6, ReplicateHeld
  <2>7. ASSUME NEW n \in Node, WriteBlock(n) PROVE Held(life)'
    BY <1>1, <2>1, <2>7, WriteBlockHeld
  <2>8. CASE Held(life)'
    BY <1>1, <2>8, HeldIsLife
  <2> QED BY <1>2, <2>2, <2>3, <2>4, <2>5, <2>6, <2>7, <2>8 DEF Running
<1>3. CASE UNCHANGED restartVars
  BY <1>1, <1>3, UnchangedHeld, HeldIsLife
<1>4. CASE Boot
  BY <1>1, <1>4, BootHeld
<1> QED BY <1>2, <1>3, <1>4 DEF RestartNext

\* In every life of the network the nodes are in step, from the DART that the last crash
\* left, and what is on disk is tied to the recorders that a node stored in all its lives:
\* the DART, the finished epochs, the statistics in the Epoch records and the files of the
\* replicator.  Two nodes may have stored recorders with different WitnessHeads
\* (transcript.d:288-290), also before a start, but not of a finished epoch.  A contract
\* has inputs: the collector refuses one without (collector.d:68, "Contract with no inputs
\* should fail" in common.d).
THEOREM RestartHolds ==
    ASSUME MaxInFlight = 1, ProductsInTime, ShutdownEpoch = {},
           \A c \in Contract : Inputs[c] # {}
    PROVE  RestartSpec => []RestartInvariant
<1>1. RestartInvariant /\ [RestartNext]_restartVars => RestartInvariant'
  BY NextHeld
<1>2. RestartInit => RestartInvariant
  BY InitHeld
<1> QED BY <1>1, <1>2, PTL DEF RestartSpec

--------------------------------------------------------------------------------
(***************************************************************************)
(* What follows for the lives of a network together                        *)
(***************************************************************************)
LEMMA LifeThatHolds ==
    ASSUME RestartInvariant
    PROVE  \E life : Held(life) /\ InStep(life) /\ LifeOK(life)
BY DEF RestartInvariant, Held, InStep

\* No epoch is finished with two bullseyes, by one node or by two, in one life or in two:
\* every node has stored an epoch that any node finished, and the next life starts from it.
THEOREM FinishedStaysForGood ==
    ASSUME MaxInFlight = 1, ProductsInTime, ShutdownEpoch = {},
           \A c \in Contract : Inputs[c] # {}
    PROVE  RestartSpec => []FinishedForGood
<1>1. RestartInvariant => FinishedForGood
  <2> SUFFICES ASSUME RestartInvariant, NEW f \in finished, NEW g \in finished,
                      f.epoch = g.epoch
               PROVE  f.bullseye = g.bullseye
    BY DEF FinishedForGood
  <2>1. FinishedHeld
    BY DEF RestartInvariant, Held
  <2>2. PICK n \in Node : TRUE
    BY NodeAssumption
  <2>3. f.bullseye = DartAfter(stored[n], f.epoch) /\ g.bullseye = DartAfter(stored[n], g.epoch)
    BY <2>1 DEF FinishedHeld
  <2> QED BY <2>3
<1> QED BY <1>1, RestartHolds, PTL

\* An archive is spent once in all lives of the network: the recorders that a node stores,
\* before and after a crash, remove the inputs of every contract, and no two contracts
\* share one.
THEOREM SpentOnceInAllLives ==
    ASSUME MaxInFlight = 1, ProductsInTime, ShutdownEpoch = {},
           \A c \in Contract : Inputs[c] # {}
    PROVE  RestartSpec => []NoDoubleSpendEver
<1>1. RestartInvariant => NoDoubleSpendEver
  <2> SUFFICES ASSUME RestartInvariant, NEW n \in Node,
                      NEW i \in DOMAIN stored[n], NEW j \in DOMAIN stored[n],
                      NEW c \in stored[n][i].adds, NEW d \in stored[n][j].adds,
                      i # j \/ c # d
               PROVE  Inputs[c] \cap Inputs[d] = {}
    BY DEF NoDoubleSpendEver
  <2>1. SpentForGood(stored[n], dart[n].bills)
    BY DEF RestartInvariant, Held, DiskHeld
  <2>2. Inputs[c] \subseteq stored[n][i].removes /\ Inputs[d] \subseteq stored[n][j].removes
    BY <2>1 DEF SpentForGood
  <2>3. CASE i # j
    BY <2>1, <2>2, <2>3 DEF SpentForGood
  <2>4. CASE i = j /\ c # d
    BY <2>1, <2>4 DEF SpentForGood
  <2> QED BY <2>3, <2>4
<1> QED BY <1>1, RestartHolds, PTL

\* The DARTs of two nodes are made by the same recorders but for the WitnessHeads, up to the
\* shorter of the two: of each life by what the order determines.  The same bullseye at a
\* start says only that the last WitnessHead is the same, as it replaces the ones before
\* (common.d:304-309).
THEOREM HistoryIsShared ==
    ASSUME MaxInFlight = 1, ProductsInTime, ShutdownEpoch = {},
           \A c \in Contract : Inputs[c] # {}
    PROVE  RestartSpec => []SameHistory
<1>1. RestartInvariant => SameHistory
  <2> SUFFICES ASSUME RestartInvariant, NEW n \in Node, NEW m \in Node,
                      NEW i \in (1..Len(HistoryButWitnesses(n)))
                                    \cap (1..Len(HistoryButWitnesses(m)))
               PROVE  HistoryButWitnesses(n)[i] = HistoryButWitnesses(m)[i]
    BY DEF SameHistory, Chain!Compatible
  <2>1. PICK life : Held(life) /\ InStep(life) /\ LifeOK(life)
    BY LifeThatHolds
  <2>2. ASSUME NEW p \in Node
        PROVE  /\ History(life, p, stored[p]) /\ Len(stored[p]) \in Nat
               /\ Len(stored[p]) <= Len(life.order)
               /\ Len(HistoryButWitnesses(p)) = Len(stored[p])
               /\ \A k \in 1..Len(stored[p]) :
                      HistoryButWitnesses(p)[k] = ButWitnesses(stored[p][k])
    <3>1. History(life, p, stored[p]) /\ Len(stored[p]) = dart[p].head
      BY <2>1 DEF Held, DiskHeld, HistoryHeld
    <3>2. dart[p].head \in life.epoch..Len(life.order)
      BY <2>1, HeadOfNode
    <3>3. DOMAIN stored[p] = 1..Len(stored[p]) /\ Len(stored[p]) \in Nat
      BY <3>1 DEF History
    <3>4. Len(HistoryButWitnesses(p)) = Len(stored[p])
      BY <3>3 DEF HistoryButWitnesses
    <3> QED BY <2>1, <3>1, <3>2, <3>3, <3>4 DEF HistoryButWitnesses, LifeOK
  <2>3. life.epoch \in Nat /\ i \in 1..Len(stored[n]) /\ i \in 1..Len(stored[m])
    BY <2>1, <2>2 DEF LifeOK
  <2>4. ButWitnesses(stored[n][i]) = ButWitnesses(stored[m][i])
    <3>1. CASE i \in 1..life.epoch
      BY <2>1, <3>1 DEF Held, HistoryShared
    <3>2. CASE i > life.epoch
      <4>1. /\ i \in (life.epoch + 1)..Len(stored[n])
            /\ i \in (life.epoch + 1)..Len(stored[m])
            /\ i \in (life.epoch + 1)..Len(life.order)
        BY <2>1, <2>2, <2>3, <3>2 DEF LifeOK
      <4>2. stored[n][i] = RecorderAt(life, n, i) /\ stored[m][i] = RecorderAt(life, m, i)
        BY <2>2, <4>1 DEF History
      <4> QED BY <2>1, <4>1, <4>2, BlocksAlike
    <3> QED BY <2>3, <3>1, <3>2
  <2> QED BY <2>2, <2>3, <2>4
<1> QED BY <1>1, RestartHolds, PTL

\* The finished epochs of a node are those of its life up to some epoch, and all nodes had
\* the same witnesses of their rounds.
LEMMA ChainOfNode ==
    ASSUME NEW life, InStep(life), NEW n \in Node
    PROVE  \E k \in life.epoch..Len(life.order) :
               /\ previous_epoch[n] = ChainTo(life, n, k)
               /\ \A e \in (life.epoch + 1)..k : Alike(life, e)
<1>1. LifeOK(life) /\ life.epoch \in Nat /\ Len(life.order) \in Nat
  BY DEF InStep, LifeOK
<1>2. PICK called \in life.epoch..Len(life.order) :
          previous_epoch[n] = ChainTo(life, n, Determined(life)[called].finished)
  <2>1. PICK stage \in Stage, made \in life.epoch..last_epoch_number[n] :
            InStage(life, n, stage, made)
    BY SomeStage
  <2>2. /\ last_epoch_number[n] \in life.epoch..Len(life.order)
        /\ \/ last_epoch_number[n] - 1 \in life.epoch..last_epoch_number[n]
           \/ stage = "idle"
        /\ \E called \in {last_epoch_number[n], last_epoch_number[n] - 1} :
               /\ called = last_epoch_number[n] \/ stage # "idle"
               /\ previous_epoch[n] = ChainTo(life, n, Determined(life)[called].finished)
    BY <2>1 DEF InStage, TranscriptAt
  <2>3. ASSUME NEW called, called = last_epoch_number[n] \/
                   (called = last_epoch_number[n] - 1 /\ stage # "idle")
        PROVE  called \in life.epoch..Len(life.order)
    BY <1>1, <2>2, <2>3
  <2> QED BY <2>2, <2>3
<1>3. PICK last : last = Determined(life)[called].finished
  OBVIOUS
<1>4. StateOK(life, called)
  BY <1>1, LifeDetermined
<1>5. last \in life.epoch..called /\ \A e \in (life.epoch + 1)..last : Alike(life, e)
  BY <1>3, <1>4 DEF StateOK
<1>6. last \in life.epoch..Len(life.order)
  BY <1>1, <1>5
<1> QED BY <1>2, <1>3, <1>5, <1>6

\* Epochs of which the nodes had the same witnesses are the same, with the log up to them.
LEMMA EpochsAlike ==
    ASSUME NEW life, LifeOK(life), NEW n \in Node, NEW m \in Node,
           NEW e \in (life.epoch + 1)..Len(life.order),
           \A k \in (life.epoch + 1)..e : Alike(life, k)
    PROVE  EpochAt(life, n, e) = EpochAt(life, m, e)
<1>1. life.epoch \in Nat /\ Len(life.order) \in Nat
  BY DEF LifeOK
<1>2. ASSUME NEW k \in (life.epoch + 1)..e
      PROVE  /\ DartAt(life, n, k) = DartAt(life, m, k)
             /\ RecorderAt(life, n, k) = RecorderAt(life, m, k)
  <2>1. k \in (life.epoch + 1)..Len(life.order)
    BY <1>1
  <2>2. life.order[k].witnesses[n] = life.order[k].witnesses[m]
    BY DEF Alike
  <2>3. HeadAt(life, n, k) = HeadAt(life, m, k)
    BY <2>2 DEF HeadAt
  <2> QED BY <2>3 DEF DartAt, RecorderAt
<1>3. \A j \in 1..(e - life.epoch) : life.epoch + j \in (life.epoch + 1)..e
  BY <1>1
<1>4. \A j \in 1..(e - life.epoch) :
          BlockAt(life, n, life.epoch + j) = BlockAt(life, m, life.epoch + j)
  BY <1>2, <1>3 DEF BlockAt
<1>5. LogTo(life, n, e) = LogTo(life, m, e)
  BY <1>4 DEF LogTo
<1>6. e \in (life.epoch + 1)..e
  BY <1>1
<1> QED BY <1>2, <1>5, <1>6 DEF EpochAt

\* The Epoch records that two nodes keep are the same, with the recorder block in each: all
\* nodes signed the bullseye of a finished epoch, and so had the same witnesses of its round.
THEOREM EpochsAreShared ==
    ASSUME MaxInFlight = 1, ProductsInTime, ShutdownEpoch = {},
           \A c \in Contract : Inputs[c] # {}
    PROVE  RestartSpec => []SameEpochs
<1>1. RestartInvariant => SameEpochs
  <2> SUFFICES ASSUME RestartInvariant, NEW n \in Node, NEW m \in Node,
                      NEW i \in (1..Len(previous_epoch[n])) \cap (1..Len(previous_epoch[m]))
               PROVE  previous_epoch[n][i] = previous_epoch[m][i]
    BY DEF SameEpochs, Chain!Compatible
  <2>1. PICK life : InStep(life) /\ LifeOK(life)
    BY LifeThatHolds
  <2>2. ASSUME NEW p \in Node, NEW k \in 1..Len(previous_epoch[p])
        PROVE  /\ previous_epoch[p][k] = EpochAt(life, p, life.epoch + k)
               /\ life.epoch + k \in (life.epoch + 1)..Len(life.order)
               /\ \A e \in (life.epoch + 1)..(life.epoch + k) : Alike(life, e)
    <3>1. PICK last \in life.epoch..Len(life.order) :
                  /\ previous_epoch[p] = ChainTo(life, p, last)
                  /\ \A e \in (life.epoch + 1)..last : Alike(life, e)
      BY <2>1, ChainOfNode
    <3>2. /\ life.epoch \in Nat /\ last \in Nat /\ life.epoch <= last
          /\ Len(life.order) \in Nat /\ last <= Len(life.order)
      BY <2>1 DEF LifeOK
    <3>3. Len(previous_epoch[p]) = last - life.epoch
      BY <3>1, <3>2 DEF ChainTo
    <3>4. k \in Nat /\ k >= 1 /\ life.epoch + k <= last
      BY <3>2, <3>3
    <3>5. \A e \in (life.epoch + 1)..(life.epoch + k) : e \in (life.epoch + 1)..last
      BY <3>2, <3>4
    <3> QED BY <3>1, <3>2, <3>3, <3>4, <3>5 DEF ChainTo
  <2>3. EpochAt(life, n, life.epoch + i) = EpochAt(life, m, life.epoch + i)
    <3>1. PICK e : e = life.epoch + i
      OBVIOUS
    <3>2. /\ e \in (life.epoch + 1)..Len(life.order)
          /\ \A k \in (life.epoch + 1)..e : Alike(life, k)
      BY <2>2, <3>1
    <3>3. EpochAt(life, n, e) = EpochAt(life, m, e)
      BY <2>1, <3>2, EpochsAlike
    <3> QED BY <3>1, <3>3
  <2> QED BY <2>2, <2>3
<1> QED BY <1>1, RestartHolds, PTL

\* The files of the replicator have the block of every recorder that a node stored, but for
\* the last two before each crash and of now.
THEOREM JournalMissesOnlyTheLast ==
    ASSUME MaxInFlight = 1, ProductsInTime, ShutdownEpoch = {},
           \A c \in Contract : Inputs[c] # {}
    PROVE  RestartSpec => []JournalMissesLast
<1>1. RestartInvariant => JournalMissesLast
  <2> SUFFICES ASSUME RestartInvariant, NEW n \in Node,
                      NEW e \in EpochsOf(stored[n]),
                      e \notin {journal[n][i].epoch : i \in DOMAIN journal[n]}
               PROVE  \E h \in {boots[i] : i \in DOMAIN boots} \cup {dart[n].head} :
                          e \in {h, h - 1}
    BY DEF JournalMissesLast
  <2>1. PICK life : Held(life) /\ InStep(life) /\ LifeOK(life)
    BY LifeThatHolds
  <2>2. HistoryHeld(life, n) /\ JournalHeld(life, n)
    BY <2>1 DEF Held, DiskHeld
  <2>4. /\ LoggedTo(life, n) \in Nat
        /\ dart[n].head \in {LoggedTo(life, n), LoggedTo(life, n) + 1}
    <3>1. /\ LoggedTo(life, n) \in life.epoch..Len(life.order)
          /\ dart[n].head \in {LoggedTo(life, n), LoggedTo(life, n) + 1}
      BY <2>1, HeadOfNode
    <3> QED BY <2>1, <3>1 DEF LifeOK
  <2>5. e \in 1..dart[n].head
    <3>1. PICK i \in DOMAIN stored[n] : e \in stored[n][i].open
      BY DEF EpochsOf
    <3>2. stored[n] \in Seq(Recorder) /\ stored[n][i].open = {i} /\ Len(stored[n]) = dart[n].head
      BY <2>2, <3>1 DEF HistoryHeld, History
    <3> QED BY <3>1, <3>2
  <2>6. CASE e \in 1..LoggedTo(life, n)
    <3>1. \/ \E j \in DOMAIN boots : e \in {boots[j], boots[j] - 1}
          \/ e = LoggedTo(life, n)
      BY <2>2, <2>6 DEF JournalHeld
    <3>2. CASE \E j \in DOMAIN boots : e \in {boots[j], boots[j] - 1}
      BY <3>2, Zenon
    <3>3. CASE e = LoggedTo(life, n)
      <4>1. e \in {dart[n].head, dart[n].head - 1}
        BY <2>4, <3>3
      <4> QED BY <4>1
    <3> QED BY <3>1, <3>2, <3>3
  <2>7. CASE e > LoggedTo(life, n)
    <3>1. e = dart[n].head
      BY <2>4, <2>5, <2>7
    <3> QED BY <3>1
  <2> QED BY <2>4, <2>5, <2>6, <2>7
<1> QED BY <1>1, RestartHolds, PTL

\* The replicator never finds the file that it wants to create, so that it always answers.
THEOREM FilesAreNew ==
    ASSUME MaxInFlight = 1, ProductsInTime, ShutdownEpoch = {},
           \A c \in Contract : Inputs[c] # {}
    PROVE  RestartSpec => []FileIsNew
<1>1. RestartInvariant => FileIsNew
  <2> SUFFICES ASSUME RestartInvariant, NEW n \in Node,
                      committing[n] # None, committing[n].at = "replicator"
               PROVE  FileReady(n)
    BY DEF FileIsNew
  <2>1. PICK life : Held(life) /\ InStep(life) /\ LifeOK(life)
    BY LifeThatHolds
  <2>2. PICK stage \in Stage, made \in life.epoch..last_epoch_number[n] :
            InStage(life, n, stage, made)
    BY <2>1, SomeStage
  <2>3. /\ stage = "stored" /\ committing[n].id = last_epoch_number[n]
    <3>1. MessageAt(life, n, stage, last_epoch_number[n])
      BY <2>2 DEF InStage
    <3> QED BY <3>1 DEF MessageAt
  <2>4. committing[n].id = LoggedTo(life, n) + 1 /\ LoggedTo(life, n) \in Nat
    <3>1. /\ last_epoch_number[n] = LoggedTo(life, n) + 1
          /\ LoggedTo(life, n) \in life.epoch..Len(life.order)
      BY <2>1, <2>2, <2>3, NodeIsAt
    <3> QED BY <2>1, <2>3, <3>1 DEF LifeOK
  <2>5. \A f \in file_names[n] : f \in Nat /\ f <= LoggedTo(life, n)
    BY <2>1 DEF Held, DiskHeld, FilesHeld
  <2> QED BY <2>4, <2>5 DEF FileReady, FileName
<1> QED BY <1>1, RestartHolds, PTL

\* The statistics that the transcript takes up after a crash are those of its DART: between
\* two epochs TagionGlobals counts the bills that are there, in every life.
THEOREM GlobalsCountInAllLives ==
    ASSUME MaxInFlight = 1, ProductsInTime, ShutdownEpoch = {},
           \A c \in Contract : Inputs[c] # {}
    PROVE  RestartSpec => []GlobalsCountBills
<1>1. RestartInvariant => GlobalsCountBills
  <2> SUFFICES ASSUME RestartInvariant, NEW n \in Node, Quiescent(n)
               PROVE  last_globals[n] = Cardinality(dart[n].bills)
    BY DEF GlobalsCountBills
  <2>1. PICK life : Held(life) /\ InStep(life) /\ LifeOK(life)
    BY LifeThatHolds
  <2>2. last_globals[n] = BillsAt(life, MadeEpoch(n))
    BY <2>1 DEF Held, DiskHeld, StatisticsHeld
  <2>3. PICK made \in life.epoch..last_epoch_number[n] : InStage(life, n, "idle", made)
    BY <2>1, QuiescentIsIdle
  <2>4. /\ MadeEpoch(n) = dart[n].head /\ dart[n] = DartAt(life, n, dart[n].head)
        /\ dart[n].head \in life.epoch..Len(life.order)
    BY <2>1, <2>3, NodeIsAt DEF Stage
  <2>5. dart[n].bills = Determined(life)[dart[n].head].dart.bills
    BY <2>1, <2>4, NodeOfLife
  <2> QED BY <2>2, <2>4, <2>5 DEF BillsAt
<1> QED BY <1>1, RestartHolds, PTL
=============================================================================
