------------------------- MODULE EpochPipelineProofs --------------------------
(***************************************************************************)
(* Proofs about EpochPipeline.  First the lemmas about the operators that  *)
(* the pipeline is built from: what is in a mailbox after a message is     *)
(* added or taken, and which epochs the loop over the votes finishes.      *)
(* Then every action preserves Invariant, one lemma per action; the safety *)
(* properties and the refinement of EpochChain follow from it.             *)
(***************************************************************************)
EXTENDS EpochInvariant, TLAPS, FiniteSetTheorems, SequenceTheorems

\* The epochs in a mailbox after a message is added.
LEMMA IdsOfAppend ==
    ASSUME NEW S, NEW s \in Seq(S), NEW x \in S
    PROVE  /\ Append(s, x) \in Seq(S)
           /\ Ids(Append(s, x)) = Ids(s) \cup {x.id}
           /\ Unique(s) /\ x.id \notin Ids(s) => Unique(Append(s, x))
<1>1. /\ Append(s, x) \in Seq(S)
      /\ DOMAIN Append(s, x) = DOMAIN s \cup {Len(s) + 1}
      /\ DOMAIN s = 1..Len(s) /\ Len(s) \in Nat
      /\ Append(s, x)[Len(s) + 1] = x
      /\ \A i \in DOMAIN s : Append(s, x)[i] = s[i]
  OBVIOUS
<1>2. Ids(Append(s, x)) = Ids(s) \cup {x.id}
  BY <1>1 DEF Ids
<1>3. Unique(s) /\ x.id \notin Ids(s) => Unique(Append(s, x))
  BY <1>1 DEF Ids, Unique
<1> QED BY <1>1, <1>2, <1>3

\* The epochs in a mailbox after a message is taken.
LEMMA IdsOfTail ==
    ASSUME NEW S, NEW s \in Seq(S), s # <<>>
    PROVE  /\ Tail(s) \in Seq(S) /\ Head(s) \in S
           /\ Head(s).id \in Ids(s)
           /\ Ids(Tail(s)) \subseteq Ids(s)
           /\ Unique(s) => Unique(Tail(s)) /\ Ids(Tail(s)) = Ids(s) \ {Head(s).id}
<1>1. /\ Tail(s) \in Seq(S) /\ Head(s) \in S
      /\ DOMAIN s = 1..Len(s) /\ Len(s) \in Nat \ {0}
      /\ DOMAIN Tail(s) = 1..(Len(s) - 1)
      /\ Head(s) = s[1]
      /\ \A i \in 1..(Len(s) - 1) : Tail(s)[i] = s[i + 1]
  OBVIOUS
<1>2. Head(s).id \in Ids(s) /\ Ids(Tail(s)) \subseteq Ids(s)
  BY <1>1 DEF Ids
<1>3. Ids(s) \ {Head(s).id} \subseteq Ids(Tail(s))
  <2> SUFFICES ASSUME NEW i \in DOMAIN s, s[i].id # s[1].id
               PROVE  s[i].id \in Ids(Tail(s))
    BY <1>1 DEF Ids
  <2>1. i - 1 \in DOMAIN Tail(s) /\ Tail(s)[i - 1] = s[i]
    BY <1>1
  <2> QED BY <2>1 DEF Ids
<1>4. ASSUME Unique(s) PROVE Unique(Tail(s)) /\ Head(s).id \notin Ids(Tail(s))
  BY <1>1, <1>4 DEF Ids, Unique
<1> QED BY <1>1, <1>2, <1>3, <1>4

\* The epochs whose inputs are to be checked, after a request is added for the DART.
LEMMA ChecksOfAppend ==
    ASSUME NEW S, NEW s \in Seq(S), NEW x \in S
    PROVE  /\ Append(s, x) \in Seq(S)
           /\ x.method # "checkRead" => CheckIds(Append(s, x)) = CheckIds(s)
           /\ x.method = "checkRead" => CheckIds(Append(s, x)) = CheckIds(s) \cup {x.id}
           /\ UniqueChecks(s) /\ (x.method = "checkRead" => x.id \notin CheckIds(s))
                  => UniqueChecks(Append(s, x))
<1>1. /\ Append(s, x) \in Seq(S)
      /\ DOMAIN Append(s, x) = DOMAIN s \cup {Len(s) + 1}
      /\ DOMAIN s = 1..Len(s) /\ Len(s) \in Nat
      /\ Append(s, x)[Len(s) + 1] = x
      /\ \A i \in DOMAIN s : Append(s, x)[i] = s[i]
  OBVIOUS
<1>2. ChecksIn(Append(s, x)) =
          ChecksIn(s) \cup (IF x.method = "checkRead" THEN {Len(s) + 1} ELSE {})
  BY <1>1 DEF ChecksIn
<1>3. /\ x.method # "checkRead" => CheckIds(Append(s, x)) = CheckIds(s)
      /\ x.method = "checkRead" => CheckIds(Append(s, x)) = CheckIds(s) \cup {x.id}
  BY <1>1, <1>2 DEF CheckIds, ChecksIn
<1>4. UniqueChecks(s) /\ (x.method = "checkRead" => x.id \notin CheckIds(s))
          => UniqueChecks(Append(s, x))
  BY <1>1, <1>2 DEF CheckIds, UniqueChecks, ChecksIn
<1> QED BY <1>1, <1>3, <1>4

\* The epochs whose inputs are to be checked, after the DART takes a request.
LEMMA ChecksOfTail ==
    ASSUME NEW S, NEW s \in Seq(S), s # <<>>
    PROVE  /\ Tail(s) \in Seq(S) /\ Head(s) \in S
           /\ CheckIds(Tail(s)) \subseteq CheckIds(s)
           /\ Head(s).method = "checkRead" => Head(s).id \in CheckIds(s)
           /\ UniqueChecks(s) => UniqueChecks(Tail(s))
           /\ UniqueChecks(s) /\ Head(s).method = "checkRead" =>
                  Head(s).id \notin CheckIds(Tail(s))
<1>1. /\ Tail(s) \in Seq(S) /\ Head(s) \in S
      /\ DOMAIN s = 1..Len(s) /\ Len(s) \in Nat \ {0}
      /\ DOMAIN Tail(s) = 1..(Len(s) - 1)
      /\ Head(s) = s[1]
      /\ \A i \in 1..(Len(s) - 1) : Tail(s)[i] = s[i + 1]
  OBVIOUS
<1>2. \A i \in ChecksIn(Tail(s)) : i + 1 \in ChecksIn(s) /\ Tail(s)[i] = s[i + 1]
  BY <1>1 DEF ChecksIn
<1>3. CheckIds(Tail(s)) \subseteq CheckIds(s)
  BY <1>1, <1>2 DEF CheckIds
<1>4. Head(s).method = "checkRead" => 1 \in ChecksIn(s) /\ Head(s).id \in CheckIds(s)
  BY <1>1 DEF CheckIds, ChecksIn
<1>5. ChecksIn(Tail(s)) \subseteq Nat \ {0}
  BY <1>1 DEF ChecksIn
<1>6. ASSUME UniqueChecks(s) PROVE UniqueChecks(Tail(s))
  <2> SUFFICES ASSUME NEW i \in ChecksIn(Tail(s)), NEW j \in ChecksIn(Tail(s)),
                      Tail(s)[i].id = Tail(s)[j].id
               PROVE  i = j
    BY DEF UniqueChecks
  <2>1. i + 1 = j + 1
    BY <1>2, <1>6 DEF UniqueChecks
  <2> QED BY <2>1, <1>5
<1>7. ASSUME UniqueChecks(s), Head(s).method = "checkRead"
      PROVE  Head(s).id \notin CheckIds(Tail(s))
  <2> SUFFICES ASSUME NEW i \in ChecksIn(Tail(s)), Tail(s)[i].id = Head(s).id
               PROVE  FALSE
    BY DEF CheckIds
  <2>1. 1 \in ChecksIn(s) /\ Head(s) = s[1]
    BY <1>1, <1>4, <1>7
  <2>2. i + 1 = 1
    BY <1>2, <1>7, <2>1 DEF UniqueChecks
  <2> QED BY <2>2, <1>5
<1> QED BY <1>1, <1>3, <1>4, <1>6, <1>7

\* The recorders to be stored, after a request is added for the DART.
LEMMA ModifiesOfAppend ==
    ASSUME NEW S, NEW s \in Seq(S), NEW x \in S
    PROVE  /\ x.method # "modify" => ModifiesIn(Append(s, x)) = ModifiesIn(s)
           /\ x.method = "modify" => ModifiesIn(Append(s, x)) = ModifiesIn(s) \cup {Len(s) + 1}
<1>1. /\ DOMAIN Append(s, x) = DOMAIN s \cup {Len(s) + 1}
      /\ DOMAIN s = 1..Len(s) /\ Len(s) \in Nat
      /\ Append(s, x)[Len(s) + 1] = x
      /\ \A i \in DOMAIN s : Append(s, x)[i] = s[i]
  OBVIOUS
<1> QED BY <1>1 DEF ModifiesIn

\* The recorders to be stored, after the DART takes a request.
LEMMA ModifiesOfTail ==
    ASSUME NEW S, NEW s \in Seq(S), s # <<>>
    PROVE  /\ ModifiesIn(Tail(s)) # {} => ModifiesIn(s) # {}
           /\ (\A i, j \in ModifiesIn(s) : i = j) =>
                  /\ \A i, j \in ModifiesIn(Tail(s)) : i = j
                  /\ Head(s).method = "modify" => ModifiesIn(Tail(s)) = {}
           /\ Head(s).method = "modify" => ModifiesIn(s) # {}
<1>1. /\ DOMAIN s = 1..Len(s) /\ Len(s) \in Nat \ {0}
      /\ DOMAIN Tail(s) = 1..(Len(s) - 1)
      /\ Head(s) = s[1]
      /\ \A i \in 1..(Len(s) - 1) : Tail(s)[i] = s[i + 1]
  OBVIOUS
<1>2. \A i \in ModifiesIn(Tail(s)) : i \in Nat /\ i > 0 /\ i + 1 \in ModifiesIn(s)
  BY <1>1 DEF ModifiesIn
<1>3. Head(s).method = "modify" => 1 \in ModifiesIn(s)
  BY <1>1 DEF ModifiesIn
<1>4. ASSUME \A i, j \in ModifiesIn(s) : i = j
      PROVE  /\ \A i, j \in ModifiesIn(Tail(s)) : i = j
             /\ Head(s).method = "modify" => ModifiesIn(Tail(s)) = {}
  <2>1. \A i, j \in ModifiesIn(Tail(s)) : i + 1 = j + 1
    BY <1>2, <1>4
  <2>2. \A i, j \in ModifiesIn(Tail(s)) : i = j
    BY <1>2, <2>1
  <2>3. ASSUME Head(s).method = "modify", NEW i \in ModifiesIn(Tail(s)) PROVE FALSE
    <3>1. i + 1 = 1
      BY <1>2, <1>3, <1>4, <2>3
    <3> QED BY <1>2, <3>1
  <2> QED BY <2>2, <2>3
<1> QED BY <1>2, <1>3, <1>4

\* The epochs in the log of the replicator after a block is added.
LEMMA LogOfAppend ==
    ASSUME NEW S, NEW s \in Seq(S), NEW x \in S
    PROVE  /\ Append(s, x) \in Seq(S)
           /\ LoggedEpochs(Append(s, x)) = LoggedEpochs(s) \cup {x.epoch}
           /\ UniqueEpochs(s) /\ x.epoch \notin LoggedEpochs(s) => UniqueEpochs(Append(s, x))
<1>1. /\ Append(s, x) \in Seq(S)
      /\ DOMAIN Append(s, x) = DOMAIN s \cup {Len(s) + 1}
      /\ DOMAIN s = 1..Len(s) /\ Len(s) \in Nat
      /\ Append(s, x)[Len(s) + 1] = x
      /\ \A i \in DOMAIN s : Append(s, x)[i] = s[i]
  OBVIOUS
<1>2. LoggedEpochs(Append(s, x)) = LoggedEpochs(s) \cup {x.epoch}
  BY <1>1 DEF LoggedEpochs
<1>3. UniqueEpochs(s) /\ x.epoch \notin LoggedEpochs(s) => UniqueEpochs(Append(s, x))
  BY <1>1 DEF LoggedEpochs, UniqueEpochs
<1> QED BY <1>1, <1>2, <1>3

\* The elements of two sequences put together.
LEMMA ConcatAt ==
    ASSUME NEW S, NEW s \in Seq(S), NEW t \in Seq(S)
    PROVE  /\ s \o t \in Seq(S)
           /\ Len(s \o t) = Len(s) + Len(t)
           /\ \A i \in 1..Len(s) : (s \o t)[i] = s[i]
           /\ \A i \in 1..Len(t) : (s \o t)[Len(s) + i] = t[i]
OBVIOUS

\* The finished epochs of createRecorder are an interval that starts after last_consensus_epoch.
LEMMA FinishedInterval ==
    ASSUME NEW lce \in Nat, NEW last \in Nat, NEW vs, DOMAIN vs \subseteq 1..last
    PROVE  LET F == Finished(lce, vs)
               k == Cardinality(F)
           IN  /\ k \in Nat
               /\ F = (lce + 1)..(lce + k)
               /\ F \subseteq DOMAIN vs
               /\ lce <= last => lce + k <= last
<1> DEFINE F == Finished(lce, vs)
           k == Cardinality(F)
<1>1. F \subseteq DOMAIN vs /\ F \subseteq 1..last /\ \A e \in F : e \in Nat /\ lce < e
  BY DEF Finished, Reached
<1>2. IsFiniteSet(F) /\ k \in Nat
  <2>1. IsFiniteSet(1..last) /\ F \in SUBSET (1..last)
    BY <1>1, FS_Interval
  <2>2. IsFiniteSet(F)
    BY <2>1, FS_Subset, Zenon
  <2> QED BY <2>2, FS_CardinalityType, Zenon
<1>3. ASSUME NEW e \in F, NEW d \in (lce + 1)..e PROVE d \in F
  <2>1. d \in DOMAIN vs
    BY <1>1, <1>3 DEF Finished, Signed
  <2>2. \A x \in Disagreeing(vs) : d < x
    BY <1>1, <1>3 DEF Finished, Reached, Disagreeing
  <2> QED BY <1>1, <1>3, <2>1, <2>2 DEF Finished, Reached
<1>4. \A e \in F : e \in (lce + 1)..(lce + k)
  <2> TAKE e \in F
  <2>1. (lce + 1)..e \in SUBSET F /\ e \in Nat /\ lce < e
    BY <1>1, <1>3
  <2>2. Cardinality((lce + 1)..e) = e - lce
    BY <2>1, FS_Interval
  <2>3. Cardinality((lce + 1)..e) <= k
    BY <2>1, <1>2, FS_Subset
  <2> QED BY <2>1, <2>2, <2>3, <1>2
<1>5. F \in SUBSET ((lce + 1)..(lce + k))
  BY <1>4
<1>6. IsFiniteSet((lce + 1)..(lce + k)) /\ Cardinality((lce + 1)..(lce + k)) = k
  <2>1. lce + 1 \in Int /\ lce + k \in Int
    BY <1>2
  <2> DEFINE a == lce + 1
             b == lce + k
  <2>2. IsFiniteSet(a..b) /\ Cardinality(a..b) = IF a > b THEN 0 ELSE b - a + 1
    BY <2>1, FS_Interval
  <2>3. (IF a > b THEN 0 ELSE b - a + 1) = k
    BY <1>2
  <2> QED BY <2>2, <2>3
<1>7. F = (lce + 1)..(lce + k)
  BY <1>5, <1>6, FS_Subset
<1>8. lce <= last => lce + k <= last
  <2>1. CASE k = 0 BY <2>1
  <2>2. CASE k # 0
    <3>1. lce + k \in F BY <1>2, <1>7, <2>2
    <3> QED BY <1>1, <3>1
  <2> QED BY <2>1, <2>2
<1> HIDE DEF F, k
<1> QED BY <1>1, <1>2, <1>7, <1>8 DEF F, k

\* Storing a recorder gives the content of a DART.
LEMMA ModifyType ==
    ASSUME NEW c \in Content, NEW r \in Recorder
    PROVE  modify(c, r) \in Content
BY DEF modify, Content, Recorder, Archive

\* There are finitely many archives.
LEMMA ArchiveFinite == IsFiniteSet(Archive)
BY ContractAssumption, FS_Union DEF Archive

\* Only contracts of the epoch are executed.
LEMMA ExecutedType ==
    ASSUME NEW cs \in Seq(Contract), NEW id, NEW absent, NEW ready
    PROVE  Executed(cs, id, absent, ready) \in SUBSET Contract
BY DEF Executed

\* The statistics of a recorder count archives.
LEMMA InputsType ==
    ASSUME NEW C \in SUBSET Contract
    PROVE  /\ UNION {Inputs[c] : c \in C} \in SUBSET Archive
           /\ Cardinality(UNION {Inputs[c] : c \in C}) \in Int
           /\ Cardinality(C) \in Int
<1>1. UNION {Inputs[c] : c \in C} \in SUBSET Archive
  BY ContractAssumption DEF Archive
<1>2. IsFiniteSet(UNION {Inputs[c] : c \in C}) /\ IsFiniteSet(C)
  BY <1>1, ArchiveFinite, ContractAssumption, FS_Subset
<1> QED BY <1>1, <1>2, FS_CardinalityType

(* What the caller of createRecorder guarantees of the votes and contracts it left. *)
RecorderInput(n, last, vs, ecs) ==
    /\ DOMAIN vs \subseteq 1..last
    /\ vs \in [DOMAIN vs -> Votes]
    /\ \A e \in DOMAIN vs : vs[e].votes \subseteq {v \in ballots : v.epoch = e}
    /\ DOMAIN ecs \subseteq 1..last
    /\ ecs \in [DOMAIN ecs -> EpochContracts]
    /\ last_consensus_epoch[n] <= last

\* A finished epoch has, from every node, a vote on the bullseye this node computed.
LEMMA FinishedSigned ==
    ASSUME NEW n \in Node, NEW last \in Nat, NEW vs, NEW ecs, RecorderInput(n, last, vs, ecs),
           NEW lce \in Nat, NEW e \in Finished(lce, vs)
    PROVE  /\ e \in DOMAIN vs /\ e \in 1..last
           /\ vs[e].bullseye \in Content /\ vs[e].bullseye # None
           /\ vs[e].recorder_block \in Seq(RecorderBlock)
           /\ \A m \in Node : \E v \in ballots : /\ v.owner = m
                                                 /\ v.epoch = e
                                                 /\ v.bullseye = vs[e].bullseye
<1>1. e \in Reached(vs) /\ lce < e /\ \A k \in (lce + 1)..e : Signed(vs, k)
  BY DEF Finished
<1>2. e \in DOMAIN vs /\ e \in 1..last /\ e \notin Disagreeing(vs)
  BY <1>1 DEF Reached, RecorderInput
<1>3. Signed(vs, e)
  BY <1>1, <1>2
<1>4. vs[e] \in Votes /\ vs[e].votes \subseteq {v \in ballots : v.epoch = e}
  BY <1>2 DEF RecorderInput
<1>5. vs[e].bullseye \in Content /\ vs[e].bullseye # None /\ vs[e].recorder_block \in Seq(RecorderBlock)
  BY <1>3, <1>4 DEF Signed, Votes
<1>6. ASSUME NEW m \in Node
      PROVE  \E v \in vs[e].votes : v.owner = m /\ v.bullseye = vs[e].bullseye
  BY <1>2, <1>3 DEF Signed, Disagreeing
<1> QED BY <1>2, <1>4, <1>5, <1>6

--------------------------------------------------------------------------------
(* The chain of node n is continued, possibly by nothing. *)
ChainContinued(n) ==
    \E new \in Seq(Epoch) :
        previous_epoch' = [previous_epoch EXCEPT ![n] = previous_epoch[n] \o new]

\* What the loop over the votes leaves of the chain of node n.
LEMMA FinishStep ==
    ASSUME TypeOK, NEW n \in Node, ChainSigned(n),
           NEW last \in Nat, NEW vs, NEW ecs, RecorderInput(n, last, vs, ecs),
           FinishEpochs(n, Finished(last_consensus_epoch[n], vs), vs), ballots' = ballots
    PROVE  /\ last_consensus_epoch' \in [Node -> Nat]
           /\ last_consensus_epoch'[n] <= last
           /\ previous_epoch' \in [Node -> Seq(Epoch)]
           /\ ChainSigned(n)'
           /\ ChainContinued(n)
           /\ \A m \in Node \ {n} : /\ last_consensus_epoch'[m] = last_consensus_epoch[m]
                                    /\ previous_epoch'[m] = previous_epoch[m]
<1> DEFINE lce == last_consensus_epoch[n]
           F == Finished(lce, vs)
           k == Cardinality(F)
           new == Chained(lce, vs, k)
<1>1. lce \in Nat /\ lce <= last /\ previous_epoch[n] \in Seq(Epoch)
  BY DEF TypeOK, RecorderInput
<1>2. /\ k \in Nat /\ F = (lce + 1)..(lce + k) /\ lce + k <= last
  BY <1>1, FinishedInterval DEF RecorderInput
<1>3. last_consensus_epoch' = [last_consensus_epoch EXCEPT ![n] = lce + k]
  BY DEF FinishEpochs
<1>4. previous_epoch' = [previous_epoch EXCEPT ![n] = previous_epoch[n] \o new]
  BY DEF FinishEpochs
<1> HIDE DEF F, k
<1>5. ASSUME NEW i \in 1..k
      PROVE  /\ lce + i \in Nat
             /\ vs[lce + i].bullseye \in Content
             /\ vs[lce + i].recorder_block \in Seq(RecorderBlock)
             /\ \A m \in Node : \E v \in ballots : /\ v.owner = m
                                                   /\ v.epoch = lce + i
                                                   /\ v.bullseye = vs[lce + i].bullseye
  <2>1. lce + i \in F
    BY <1>1, <1>2
  <2> QED BY <1>1, <2>1, FinishedSigned DEF F
<1>6. new \in Seq(Epoch) /\ Len(new) = k /\ \A i \in 1..k : new[i].bullseye = vs[lce + i].bullseye
  <2>1. new \in [1..k -> Epoch]
    BY <1>5 DEF Chained, Epoch
  <2>2. Len(new) = k
    BY <1>2, <2>1
  <2> QED BY <1>2, <2>1, <2>2 DEF Chained
<1> DEFINE chain == previous_epoch[n] \o new
<1>7. /\ chain \in Seq(Epoch)
      /\ Len(chain) = lce + k
      /\ \A i \in 1..lce : chain[i] = previous_epoch[n][i]
      /\ \A i \in 1..k : chain[lce + i] = new[i]
  <2>1. Len(previous_epoch[n]) = lce
    BY DEF ChainSigned
  <2> DEFINE old == previous_epoch[n]
  <2>2. old \in Seq(Epoch) /\ new \in Seq(Epoch) /\ chain = old \o new
    BY <1>1, <1>6
  <2> HIDE DEF new, old, chain
  <2>3. /\ old \o new \in Seq(Epoch)
        /\ Len(old \o new) = Len(old) + Len(new)
        /\ \A i \in 1..Len(old) : (old \o new)[i] = old[i]
        /\ \A i \in 1..Len(new) : (old \o new)[Len(old) + i] = new[i]
    BY <2>2, ConcatAt
  <2> QED BY <1>6, <2>1, <2>2, <2>3 DEF old
<1>7a. ChainContinued(n)
  BY <1>4, <1>6 DEF ChainContinued
<1>8. last_consensus_epoch'[n] = lce + k /\ previous_epoch'[n] = chain
  BY <1>3, <1>4 DEF TypeOK
<1> HIDE DEF chain, new
<1>9. ChainSigned(n)'
  <2> SUFFICES ASSUME NEW i \in 1..(lce + k), NEW m \in Node
               PROVE  \E v \in ballots : /\ v.owner = m
                                         /\ v.epoch = i
                                         /\ v.bullseye = chain[i].bullseye
    BY <1>7, <1>8 DEF ChainSigned
  <2>1. CASE i \in 1..lce
    <3>1. chain[i] = previous_epoch[n][i]
      BY <1>7, <2>1
    <3> QED BY <2>1, <3>1 DEF ChainSigned
  <2>2. CASE i \in (lce + 1)..(lce + k)
    <3> DEFINE j == i - lce
    <3>1. j \in 1..k /\ lce + j = i
      BY <1>1, <1>2, <2>2
    <3>2. chain[i].bullseye = vs[i].bullseye
      BY <1>6, <1>7, <3>1
    <3> HIDE DEF j
    <3> QED BY <1>5, <3>1, <3>2
  <2> QED BY <1>1, <1>2, <2>1, <2>2
<1>10. /\ last_consensus_epoch' \in [Node -> Nat]
       /\ previous_epoch' \in [Node -> Seq(Epoch)]
       /\ \A m \in Node \ {n} : /\ last_consensus_epoch'[m] = last_consensus_epoch[m]
                                /\ previous_epoch'[m] = previous_epoch[m]
  BY <1>1, <1>2, <1>3, <1>4, <1>7 DEF TypeOK, chain
<1> QED BY <1>2, <1>7a, <1>8, <1>9, <1>10

\* A recorder of epoch id goes to epoch_commit.
CommitSent(n, id) ==
    \E r \in Recorder : commits'[n] = Append(commits[n], [id |-> id, recorder |-> r])

\* What createRecorder leaves, in each of the three ways it ends.
LEMMA RecorderStep ==
    ASSUME TypeOK, NEW n \in Node, ChainSigned(n),
           NEW last \in Nat, NEW id \in 1..last, NEW absent, NEW vs, NEW ecs,
           RecorderInput(n, last, vs, ecs),
           createRecorder(n, id, absent, vs, ecs), ballots' = ballots
    PROVE  /\ last_consensus_epoch' \in [Node -> Nat]
           /\ last_consensus_epoch'[n] <= last
           /\ previous_epoch' \in [Node -> Seq(Epoch)]
           /\ ChainSigned(n)' /\ ChainContinued(n)
           /\ products' \in [Node -> SUBSET Contract]
           /\ last_globals' \in [Node -> Int]
           /\ running' \in [Node -> {"up", "stopping", "down"}]
           /\ commits' \in [Node -> Seq(CommitRequest)]
           /\ DOMAIN votes' = Node /\ DOMAIN epoch_contracts' = Node
           /\ DOMAIN votes'[n] \subseteq 1..last
           /\ votes'[n] \in [DOMAIN votes'[n] -> Votes]
           /\ \A e \in DOMAIN votes'[n] : votes'[n][e].votes \subseteq {v \in ballots : v.epoch = e}
           /\ DOMAIN epoch_contracts'[n] \subseteq 1..last
           /\ epoch_contracts'[n] \in [DOMAIN epoch_contracts'[n] -> EpochContracts]
           /\ \A m \in Node \ {n} :
                  /\ last_consensus_epoch'[m] = last_consensus_epoch[m]
                  /\ previous_epoch'[m] = previous_epoch[m]
                  /\ votes'[m] = votes[m] /\ epoch_contracts'[m] = epoch_contracts[m]
                  /\ commits'[m] = commits[m] /\ running'[m] = running[m]
           /\ running'[n] = "up" =>
                  /\ running[n] = "up"
                  /\ \A e \in DOMAIN vs : vs[e].bullseye = None /\ e # id =>
                         e \in DOMAIN votes'[n] /\ votes'[n][e].bullseye = None
           /\ \/ commits'[n] = commits[n]
              \/ /\ running'[n] = "up" => id \in DOMAIN votes'[n] /\ votes'[n][id].bullseye = None
                 /\ CommitSent(n, id)
<1> DEFINE F == Finished(last_consensus_epoch[n], vs)
<1>1. FinishEpochs(n, F, vs)
  BY DEF createRecorder, ThrowFromRecorder, CommitShutdown, CommitEpoch
<1>2. /\ last_consensus_epoch' \in [Node -> Nat]
      /\ last_consensus_epoch'[n] <= last
      /\ previous_epoch' \in [Node -> Seq(Epoch)]
      /\ ChainSigned(n)' /\ ChainContinued(n)
      /\ \A m \in Node \ {n} : /\ last_consensus_epoch'[m] = last_consensus_epoch[m]
                               /\ previous_epoch'[m] = previous_epoch[m]
  BY <1>1, FinishStep
<1>3. /\ last_consensus_epoch[n] \in Nat
      /\ products \in [Node -> SUBSET Contract] /\ last_globals \in [Node -> Int]
      /\ running \in [Node -> {"up", "stopping", "down"}]
      /\ commits \in [Node -> Seq(CommitRequest)]
      /\ DOMAIN votes = Node /\ DOMAIN epoch_contracts = Node
      /\ shutdown[n] \in ShutdownEpoch \cup {0}
  BY DEF TypeOK
<1>3a. shutdown[n] \in Nat
  <2>1. ShutdownEpoch \subseteq Nat /\ 0 \in Nat
    BY ContractAssumption
  <2> QED BY <1>3, <2>1, Zenon
<1>4. F \in SUBSET Nat /\ \A e \in F : vs[e].bullseye # None
  <2> SUFFICES ASSUME NEW e \in F PROVE e \in Nat /\ vs[e].bullseye # None
    OBVIOUS
  <2>1. e \in 1..last /\ vs[e].bullseye # None
    BY <1>3, FinishedSigned
  <2> QED BY <2>1
<1>5. /\ DOMAIN ecs \subseteq 1..last
      /\ ecs \in [DOMAIN ecs -> EpochContracts]
      /\ DOMAIN Without(ecs, {id}) \subseteq 1..last
      /\ Without(ecs, {id}) \in [DOMAIN Without(ecs, {id}) -> EpochContracts]
  BY DEF RecorderInput, Without
<1> HIDE DEF F
<1> DEFINE rest == Without(vs, F)
<1>5a. /\ DOMAIN rest \subseteq 1..last
       /\ rest \in [DOMAIN rest -> Votes]
       /\ \A e \in DOMAIN rest : rest[e].votes \subseteq {v \in ballots : v.epoch = e}
       /\ \A e \in DOMAIN vs \ F : e # id => e \in DOMAIN rest /\ rest[e] = vs[e]
  BY DEF Without, RecorderInput
<1> HIDE DEF rest
<1>6. CASE ThrowFromRecorder(n, F, vs, ecs)
  <2>1. votes' = [votes EXCEPT ![n] = rest]
        /\ epoch_contracts' = [epoch_contracts EXCEPT ![n] = ecs]
        /\ UNCHANGED <<products, last_globals, commits, running>>
    BY <1>6 DEF ThrowFromRecorder, rest
  <2>2. votes'[n] = rest /\ epoch_contracts'[n] = ecs
    BY <1>3, <2>1
  <2> QED BY <1>2, <1>3, <1>4, <1>5, <1>5a, <2>1, <2>2
<1>7. CASE CommitShutdown(n, id, F, vs, ecs)
  <2> DEFINE r == [head |-> shutdown[n], open |-> {}, final |-> F, adds |-> {}, removes |-> {},
                   witnesses |-> {}]
             req == [id |-> id, recorder |-> r]
  <2>1. /\ votes' = [votes EXCEPT ![n] = rest]
        /\ epoch_contracts' = [epoch_contracts EXCEPT ![n] = Without(ecs, {id})]
        /\ commits' = [commits EXCEPT ![n] = Append(commits[n], req)]
        /\ running' = [running EXCEPT ![n] = "stopping"]
        /\ UNCHANGED <<products, last_globals>>
    BY <1>7 DEF CommitShutdown, rest
  <2>2. r \in Recorder /\ req \in CommitRequest
    BY <1>3a, <1>4 DEF Recorder, CommitRequest
  <2> HIDE DEF req
  <2>3. Append(commits[n], req) \in Seq(CommitRequest)
    BY <1>3, <2>2
  <2>4. /\ votes'[n] = rest /\ epoch_contracts'[n] = Without(ecs, {id})
        /\ commits'[n] = Append(commits[n], req) /\ running'[n] = "stopping"
    BY <1>3, <2>1
  <2> QED BY <1>2, <1>3, <1>4, <1>5, <1>5a, <2>1, <2>2, <2>3, <2>4 DEF req, CommitSent
<1>8. CASE CommitEpoch(n, id, absent, F, vs, ecs) /\ id \in DOMAIN ecs
  <2> DEFINE exec == Executed(ecs[id].contracts, id, absent, products[n])
             removes == UNION {Inputs[c] : c \in exec}
             witnessed == {[epoch |-> id, witnesses |-> ecs[id].witnesses]}
             r == [head |-> IF InChain(n, id) THEN id ELSE 0,
                   open |-> IF InChain(n, id) THEN {id} ELSE {},
                   final |-> F, adds |-> exec, removes |-> removes, witnesses |-> witnessed]
             req == [id |-> id, recorder |-> r]
             left == VoteOpened(n, id, rest)
  <2>1. /\ votes' = [votes EXCEPT ![n] = left]
        /\ epoch_contracts' = [epoch_contracts EXCEPT ![n] = Without(ecs, {id})]
        /\ commits' = [commits EXCEPT ![n] = Append(commits[n], req)]
        /\ products' = [products EXCEPT ![n] = products[n] \ exec]
        /\ last_globals' = [last_globals EXCEPT ![n] =
               last_globals[n] + Cardinality(exec) - Cardinality(removes)]
        /\ UNCHANGED running
    BY <1>8 DEF CommitEpoch, rest
  <2>2. exec \in SUBSET Contract
    BY <1>5, <1>8, ExecutedType DEF EpochContracts
  <2>3. removes \in SUBSET Archive /\ Cardinality(exec) \in Int /\ Cardinality(removes) \in Int
    BY <2>2, InputsType
  <2>3a. witnessed \in SUBSET WitnessHead
    BY <1>3a, <1>4, <1>5, <1>8 DEF EpochContracts, WitnessHead
  <2> HIDE DEF exec, removes, witnessed
  <2>4. r \in Recorder /\ req \in CommitRequest
    BY <1>3a, <1>4, <2>2, <2>3, <2>3a DEF Recorder, CommitRequest
  <2>5. id \in DOMAIN left /\ left[id].bullseye = None
    BY DEF VoteOpened, With, NewVotes
  <2> HIDE DEF req, left
  <2>6. Append(commits[n], req) \in Seq(CommitRequest)
    BY <1>3, <2>4
  <2>7. /\ votes'[n] = left /\ epoch_contracts'[n] = Without(ecs, {id})
        /\ commits'[n] = Append(commits[n], req)
    BY <1>3, <2>1
  <2>8. products' \in [Node -> SUBSET Contract] /\ last_globals' \in [Node -> Int]
    BY <1>3, <2>1, <2>3
  <2>9. /\ DOMAIN left \subseteq 1..last
        /\ left \in [DOMAIN left -> Votes]
        /\ \A e \in DOMAIN left : left[e].votes \subseteq {v \in ballots : v.epoch = e}
        /\ \A e \in DOMAIN vs \ F : e # id => e \in DOMAIN left /\ left[e] = vs[e]
    BY <1>5a DEF left, VoteOpened, With, NewVotes, Votes
  <2> QED BY <1>2, <1>3, <1>4, <1>5, <2>1, <2>4, <2>5, <2>6, <2>7, <2>8, <2>9 DEF req, CommitSent
<1> QED BY <1>6, <1>7, <1>8 DEF createRecorder, F

\* A node is not disturbed by a step that leaves its state alone.
LEMMA OtherNode ==
    ASSUME NEW m \in Node, NodeInvariant(m), ballots \subseteq ballots',
           VotedEpochs(m)' = VotedEpochs(m),
           dart_box'[m] = dart_box[m], checked'[m] = checked[m], commits'[m] = commits[m],
           committing'[m] = committing[m], last_block'[m] = last_block[m],
           bullseyes'[m] = bullseyes[m], last_epoch_number'[m] = last_epoch_number[m],
           last_consensus_epoch'[m] = last_consensus_epoch[m],
           previous_epoch'[m] = previous_epoch[m], votes'[m] = votes[m],
           running'[m] = "up" => running[m] = "up"
    PROVE  NodeInvariant(m)'
<1>1. InOneStage(m)'
  BY DEF NodeInvariant, InOneStage, CommittingIds
<1>2. OnceInStage(m)'
  BY DEF NodeInvariant, OnceInStage
<1>3. OpenVotes(m)'
  BY DEF NodeInvariant, OpenVotes, CommittingIds
<1>4. ChainSigned(m)'
  BY DEF NodeInvariant, ChainSigned
<1>5. StoresOne(m)'
  BY DEF NodeInvariant, StoresOne
<1> QED BY <1>1, <1>2, <1>3, <1>4, <1>5 DEF NodeInvariant

\* The contracts of an epoch of the hashgraph are a sequence.
LEMMA OrderIsSequence ==
    ASSUME NEW S \in SUBSET Contract, NEW cs \in Orders(S)
    PROVE  cs \in Seq(Contract)
<1>1. Cardinality(S) \in Nat
  BY ContractAssumption, FS_Subset, FS_CardinalityType
<1>2. cs \in [1..Cardinality(S) -> Contract]
  BY DEF Orders
<1> QED BY <1>1, <1>2

\* decideEpoch preserves the invariant: it only adds an epoch with votes that were sent.
LEMMA DecideEpochStep ==
    ASSUME Invariant, decideEpoch
    PROVE  Invariant'
<1> USE DEF networkVars, votingVars, executionVars, storageVars, boxVars
<1>1. PICK cs \in Seq(Contract), ballot \in SUBSET ballots, w \in Witnesses :
          consensus' = Append(consensus,
              [contracts |-> cs, votes |-> ballot, witnesses |-> w])
  <2>1. PICK S \in SUBSET (Contract \ CarriedContracts) :
          \E cs \in Orders(S) : \E ballot \in SUBSET (ballots \ CarriedVotes), w \in Witnesses :
              consensus' = Append(consensus,
                  [contracts |-> cs, votes |-> ballot, witnesses |-> w])
    BY DEF decideEpoch
  <2> QED BY <2>1, OrderIsSequence
<1> DEFINE new == [contracts |-> cs, votes |-> ballot, witnesses |-> w]
<1>2. TypeOK
  BY DEF Invariant
<1>3. new \in ConsensusEpoch
  BY <1>2 DEF ConsensusEpoch, TypeOK
<1>4. /\ consensus' \in Seq(ConsensusEpoch)
      /\ Len(consensus') = Len(consensus) + 1 /\ Len(consensus) \in Nat
      /\ \A i \in DOMAIN consensus' : consensus'[i].votes \subseteq ballots
  <2> HIDE DEF new
  <2>1. consensus \in Seq(ConsensusEpoch) /\ \A i \in DOMAIN consensus : consensus[i].votes \subseteq ballots
    BY <1>2 DEF TypeOK
  <2>2. new.votes \subseteq ballots
    BY DEF new
  <2> QED BY <1>1, <1>3, <2>1, <2>2 DEF new
<1>5. TypeOK'
  BY <1>2, <1>4 DEF TypeOK, NodeTypeOK, decideEpoch
<1>6. OneBallot'
  BY DEF Invariant, OneBallot, decideEpoch
<1>7. ASSUME NEW m \in Node PROVE NodeInvariant(m)'
  BY OtherNode DEF Invariant, decideEpoch, VotedEpochs
<1> QED BY <1>5, <1>6, <1>7 DEF Invariant

\* produceContract preserves the invariant.
LEMMA ProduceContractStep ==
    ASSUME Invariant, NEW n \in Node, NEW c \in Contract, produceContract(n, c)
    PROVE  Invariant'
<1> USE DEF networkVars, votingVars, executionVars, storageVars, boxVars
<1>1. TypeOK'
  BY DEF Invariant, TypeOK, NodeTypeOK, produceContract
<1>2. OneBallot'
  BY DEF Invariant, OneBallot, produceContract
<1>3. ASSUME NEW m \in Node PROVE NodeInvariant(m)'
  BY OtherNode DEF Invariant, produceContract, VotedEpochs
<1> QED BY <1>1, <1>2, <1>3 DEF Invariant

\* Scheduling the shutdown and stopping the services preserve the invariant.
LEMMA ShutdownStep ==
    ASSUME Invariant, NEW n \in Node, scheduleShutdown(n) \/ stopServices(n)
    PROVE  Invariant'
<1> USE DEF networkVars, votingVars, executionVars, storageVars, boxVars
<1>1. TypeOK'
  <2>1. TypeOK
    BY DEF Invariant
  <2>2. CASE stopServices(n)
    BY <2>1, <2>2 DEF TypeOK, NodeTypeOK, stopServices
  <2>3. CASE scheduleShutdown(n)
    <3>1. PICK s \in ShutdownEpoch : epoch_shutdown(n, s)
      BY <2>3 DEF scheduleShutdown
    <3>2. shutdown' \in [Node -> ShutdownEpoch \cup {0}]
      BY <2>1, <3>1 DEF TypeOK, epoch_shutdown
    <3> QED BY <2>1, <3>1, <3>2 DEF TypeOK, NodeTypeOK, epoch_shutdown
  <2> QED BY <2>2, <2>3
<1>2. OneBallot'
  BY DEF Invariant, OneBallot, scheduleShutdown, epoch_shutdown, stopServices
<1>3. ASSUME NEW m \in Node PROVE NodeInvariant(m)'
  <2>1. running'[m] = "up" => running[m] = "up"
    BY DEF Invariant, TypeOK, scheduleShutdown, epoch_shutdown, stopServices
  <2> QED BY <2>1, OtherNode
          DEF Invariant, scheduleShutdown, epoch_shutdown, stopServices, VotedEpochs
<1> QED BY <1>1, <1>2, <1>3 DEF Invariant

\* checkRead moves an epoch from the mailbox of the DART to its answers.
LEMMA CheckReadStep ==
    ASSUME Invariant, NEW n \in Node, checkRead(n)
    PROVE  Invariant'
<1> USE DEF networkVars, votingVars, executionVars, storageVars, boxVars
<1> DEFINE req == Head(dart_box[n])
           res == [id |-> req.id, not_in_dart |-> req.inputs \ dart[n].bills]
<1>1. TypeOK /\ NodeInvariant(n)
  BY DEF Invariant
<1>2. /\ dart_box[n] \in Seq(DARTRequest) /\ dart_box[n] # <<>> /\ req.method = "checkRead"
      /\ checked[n] \in Seq(CheckResponse)
      /\ dart_box' = [dart_box EXCEPT ![n] = Tail(dart_box[n])]
      /\ checked' = [checked EXCEPT ![n] = Append(checked[n], res)]
  BY <1>1 DEF TypeOK, checkRead
<1>3. /\ Tail(dart_box[n]) \in Seq(DARTRequest) /\ req \in DARTRequest
      /\ CheckIds(Tail(dart_box[n])) \subseteq CheckIds(dart_box[n])
      /\ req.id \in CheckIds(dart_box[n]) /\ req.id \notin CheckIds(Tail(dart_box[n]))
      /\ UniqueChecks(Tail(dart_box[n]))
  BY <1>1, <1>2, ChecksOfTail DEF NodeInvariant, OnceInStage
<1>4. res \in CheckResponse
  BY <1>2, <1>3 DEF DARTRequest, CheckResponse
<1>5. req.id \notin Ids(checked[n])
  BY <1>1, <1>3 DEF NodeInvariant, InOneStage
<1> HIDE DEF res, req
<1>6. /\ Append(checked[n], res) \in Seq(CheckResponse)
      /\ Ids(Append(checked[n], res)) = Ids(checked[n]) \cup {req.id}
      /\ Unique(Append(checked[n], res))
  <2>1. res.id = req.id
    BY DEF res
  <2> QED BY <1>1, <1>2, <1>4, <1>5, <2>1, IdsOfAppend DEF NodeInvariant, OnceInStage
<1>7. dart_box'[n] = Tail(dart_box[n]) /\ checked'[n] = Append(checked[n], res)
  BY <1>1, <1>2 DEF TypeOK
<1>8. UNCHANGED <<networkVars, running, shutdown, last_epoch_number, votingVars,
                  executionVars, commits, bullseyes, storageVars>>
  BY DEF checkRead
<1>9. TypeOK'
  <2>1. dart_box' \in [Node -> Seq(DARTRequest)] /\ checked' \in [Node -> Seq(CheckResponse)]
    BY <1>1, <1>2, <1>3, <1>6 DEF TypeOK
  <2> QED BY <1>1, <1>8, <2>1 DEF TypeOK, NodeTypeOK
<1>10. OneBallot'
  BY <1>8 DEF Invariant, OneBallot
<1>11. NodeInvariant(n)'
  <2>1. InOneStage(n)'
    <3>1. /\ CheckIds(dart_box[n])' \subseteq CheckIds(dart_box[n]) \ {req.id}
          /\ Ids(checked[n])' = Ids(checked[n]) \cup {req.id}
          /\ req.id \in CheckIds(dart_box[n])
      BY <1>3, <1>6, <1>7
    <3>2. /\ Ids(commits[n])' = Ids(commits[n]) /\ Ids(bullseyes[n])' = Ids(bullseyes[n])
          /\ CommittingIds(n)' = CommittingIds(n) /\ VotedEpochs(n)' = VotedEpochs(n)
          /\ LoggedEpochs(last_block[n])' = LoggedEpochs(last_block[n])
          /\ last_epoch_number'[n] = last_epoch_number[n]
      BY <1>8 DEF CommittingIds, VotedEpochs
    <3> QED BY <1>1, <3>1, <3>2 DEF NodeInvariant, InOneStage
  <2>2. OnceInStage(n)'
    BY <1>1, <1>3, <1>6, <1>7, <1>8 DEF NodeInvariant, OnceInStage
  <2>3. OpenVotes(n)' /\ ChainSigned(n)'
    BY <1>1, <1>8 DEF NodeInvariant, OpenVotes, ChainSigned, CommittingIds
  <2>4. StoresOne(n)'
    <3>1. /\ \A i, j \in ModifiesIn(Tail(dart_box[n])) : i = j
          /\ ModifiesIn(Tail(dart_box[n])) # {} => ModifiesIn(dart_box[n]) # {}
      BY <1>1, <1>2, ModifiesOfTail DEF NodeInvariant, StoresOne
    <3> QED BY <1>1, <1>7, <1>8, <3>1 DEF NodeInvariant, StoresOne
  <2> QED BY <2>1, <2>2, <2>3, <2>4 DEF NodeInvariant
<1>12. ASSUME NEW m \in Node, m # n PROVE NodeInvariant(m)'
  <2>1. dart_box'[m] = dart_box[m] /\ checked'[m] = checked[m]
    BY <1>1, <1>2, <1>12 DEF TypeOK
  <2> QED BY <1>8, <2>1, OtherNode DEF Invariant, VotedEpochs
<1> QED BY <1>9, <1>10, <1>11, <1>12 DEF Invariant

\* epoch_commit moves an epoch from its mailbox to what it works on.
LEMMA EpochCommitStep ==
    ASSUME Invariant, NEW n \in Node, epoch_commit(n)
    PROVE  Invariant'
<1> USE DEF networkVars, votingVars, executionVars, storageVars, boxVars
<1> DEFINE req == Head(commits[n])
           work == [id |-> req.id, recorder |-> req.recorder, at |-> "dart"]
           ask == [method |-> "modify", recorder |-> req.recorder]
<1>1. TypeOK /\ NodeInvariant(n)
  BY DEF Invariant
<1>2. /\ commits[n] \in Seq(CommitRequest) /\ commits[n] # <<>> /\ committing[n] = None
      /\ dart_box[n] \in Seq(DARTRequest)
      /\ commits' = [commits EXCEPT ![n] = Tail(commits[n])]
      /\ committing' = [committing EXCEPT ![n] = work]
      /\ dart_box' = [dart_box EXCEPT ![n] = Append(dart_box[n], ask)]
  BY <1>1 DEF TypeOK, epoch_commit
<1>3. UNCHANGED <<networkVars, running, shutdown, last_epoch_number, votingVars,
                  executionVars, checked, bullseyes, dart, last_block>>
  BY DEF epoch_commit
<1>4. /\ Tail(commits[n]) \in Seq(CommitRequest) /\ req \in CommitRequest
      /\ req.id \in Ids(commits[n]) /\ Unique(Tail(commits[n]))
      /\ Ids(Tail(commits[n])) = Ids(commits[n]) \ {req.id}
  BY <1>1, <1>2, IdsOfTail DEF NodeInvariant, OnceInStage
<1>5. work \in Committing /\ ask \in DARTRequest /\ work # None
  BY <1>4, NoneAssumption DEF CommitRequest, Committing, DARTRequest
<1>6. work.id = req.id /\ work.at = "dart" /\ ask.method = "modify"
  OBVIOUS
<1> HIDE DEF req, work, ask
<1>7. /\ Append(dart_box[n], ask) \in Seq(DARTRequest)
      /\ CheckIds(Append(dart_box[n], ask)) = CheckIds(dart_box[n])
      /\ UniqueChecks(Append(dart_box[n], ask))
  BY <1>1, <1>2, <1>5, <1>6, ChecksOfAppend DEF NodeInvariant, OnceInStage
<1>8. \A i, j \in ModifiesIn(Append(dart_box[n], ask)) : i = j
  <2>1. ModifiesIn(dart_box[n]) = {}
    BY <1>1, <1>2 DEF NodeInvariant, StoresOne
  <2> QED BY <1>2, <1>5, <1>6, <2>1, ModifiesOfAppend
<1>9. /\ commits'[n] = Tail(commits[n]) /\ committing'[n] = work
      /\ dart_box'[n] = Append(dart_box[n], ask)
  BY <1>1, <1>2 DEF TypeOK
<1>10. TypeOK'
  <2>1. /\ dart_box' \in [Node -> Seq(DARTRequest)] /\ commits' \in [Node -> Seq(CommitRequest)]
        /\ DOMAIN committing' = Node
        /\ \A m \in Node : committing'[m] # None => committing'[m] \in Committing
    BY <1>1, <1>2, <1>4, <1>5, <1>7 DEF TypeOK, NodeTypeOK
  <2> QED BY <1>1, <1>3, <2>1 DEF TypeOK, NodeTypeOK
<1>11. OneBallot'
  BY <1>3 DEF Invariant, OneBallot
<1>12. NodeInvariant(n)'
  <2>1. /\ Ids(commits[n])' = Ids(commits[n]) \ {req.id} /\ req.id \in Ids(commits[n])
        /\ CommittingIds(n)' = {req.id} /\ CommittingIds(n) = {}
    BY <1>2, <1>4, <1>5, <1>6, <1>9 DEF CommittingIds
  <2>2. /\ CheckIds(dart_box[n])' = CheckIds(dart_box[n])
        /\ Ids(checked[n])' = Ids(checked[n]) /\ Ids(bullseyes[n])' = Ids(bullseyes[n])
        /\ VotedEpochs(n)' = VotedEpochs(n)
        /\ LoggedEpochs(last_block[n])' = LoggedEpochs(last_block[n])
        /\ last_epoch_number'[n] = last_epoch_number[n]
    BY <1>3, <1>7, <1>9 DEF VotedEpochs
  <2>3. InOneStage(n)'
    BY <1>1, <2>1, <2>2 DEF NodeInvariant, InOneStage
  <2>4. OnceInStage(n)'
    BY <1>1, <1>3, <1>4, <1>7, <1>9 DEF NodeInvariant, OnceInStage
  <2>5. OpenVotes(n)'
    BY <1>1, <1>3, <2>1, <2>2 DEF NodeInvariant, OpenVotes
  <2>6. StoresOne(n)'
    BY <1>5, <1>6, <1>8, <1>9 DEF StoresOne
  <2>7. ChainSigned(n)'
    BY <1>1, <1>3 DEF NodeInvariant, ChainSigned
  <2> QED BY <2>3, <2>4, <2>5, <2>6, <2>7 DEF NodeInvariant
<1>13. ASSUME NEW m \in Node, m # n PROVE NodeInvariant(m)'
  <2>1. dart_box'[m] = dart_box[m] /\ commits'[m] = commits[m] /\ committing'[m] = committing[m]
    BY <1>1, <1>2, <1>13 DEF TypeOK
  <2> QED BY <1>3, <2>1, OtherNode DEF Invariant, VotedEpochs
<1> QED BY <1>10, <1>11, <1>12, <1>13 DEF Invariant

\* modifyDART leaves the epoch with epoch_commit.
LEMMA ModifyDARTStep ==
    ASSUME Invariant, NEW n \in Node, modifyDART(n)
    PROVE  Invariant'
<1> USE DEF networkVars, votingVars, executionVars, storageVars, boxVars
<1> DEFINE req == Head(dart_box[n])
           work == [committing[n] EXCEPT !.at = "replicator"]
<1>1. TypeOK /\ NodeInvariant(n)
  BY DEF Invariant
<1>2. /\ dart_box[n] \in Seq(DARTRequest) /\ dart_box[n] # <<>> /\ req.method = "modify"
      /\ dart_box' = [dart_box EXCEPT ![n] = Tail(dart_box[n])]
      /\ dart' = [dart EXCEPT ![n] = modify(dart[n], req.recorder)]
      /\ committing' = [committing EXCEPT ![n] = work]
  BY <1>1 DEF TypeOK, modifyDART
<1>3. UNCHANGED <<networkVars, running, shutdown, last_epoch_number, votingVars,
                  executionVars, checked, commits, bullseyes, last_block>>
  BY DEF modifyDART
<1>4. /\ Tail(dart_box[n]) \in Seq(DARTRequest) /\ req \in DARTRequest
      /\ CheckIds(Tail(dart_box[n])) \subseteq CheckIds(dart_box[n])
      /\ UniqueChecks(Tail(dart_box[n]))
  BY <1>1, <1>2, ChecksOfTail DEF NodeInvariant, OnceInStage
<1>5. ModifiesIn(Tail(dart_box[n])) = {} /\ ModifiesIn(dart_box[n]) # {}
  BY <1>1, <1>2, ModifiesOfTail DEF NodeInvariant, StoresOne
<1>6. committing[n] # None /\ committing[n] \in Committing
  BY <1>1, <1>5 DEF NodeInvariant, StoresOne, TypeOK, NodeTypeOK
<1>7. work \in Committing /\ work # None /\ work.id = committing[n].id
  BY <1>6, NoneAssumption DEF Committing
<1>8. modify(dart[n], req.recorder) \in Content
  <2>1. req.recorder \in Recorder
    BY <1>2, <1>4 DEF DARTRequest
  <2> QED BY <1>1, <2>1, ModifyType DEF TypeOK
<1> HIDE DEF req, work
<1>9. dart_box'[n] = Tail(dart_box[n]) /\ committing'[n] = work
  BY <1>1, <1>2 DEF TypeOK
<1>10. TypeOK'
  <2>1. /\ dart_box' \in [Node -> Seq(DARTRequest)] /\ dart' \in [Node -> Content]
        /\ DOMAIN committing' = Node
        /\ \A m \in Node : committing'[m] # None => committing'[m] \in Committing
    BY <1>1, <1>2, <1>4, <1>7, <1>8 DEF TypeOK, NodeTypeOK
  <2> QED BY <1>1, <1>3, <2>1 DEF TypeOK, NodeTypeOK
<1>11. OneBallot'
  BY <1>3 DEF Invariant, OneBallot
<1>12. NodeInvariant(n)'
  <2>1. /\ CheckIds(dart_box[n])' \subseteq CheckIds(dart_box[n])
        /\ Ids(checked[n])' = Ids(checked[n]) /\ Ids(bullseyes[n])' = Ids(bullseyes[n])
        /\ Ids(commits[n])' = Ids(commits[n]) /\ CommittingIds(n)' = CommittingIds(n)
        /\ VotedEpochs(n)' = VotedEpochs(n)
        /\ LoggedEpochs(last_block[n])' = LoggedEpochs(last_block[n])
        /\ last_epoch_number'[n] = last_epoch_number[n]
    BY <1>3, <1>4, <1>6, <1>7, <1>9 DEF VotedEpochs, CommittingIds
  <2>2. InOneStage(n)'
    BY <1>1, <2>1 DEF NodeInvariant, InOneStage
  <2>3. OnceInStage(n)'
    BY <1>1, <1>3, <1>4, <1>9 DEF NodeInvariant, OnceInStage
  <2>4. OpenVotes(n)'
    BY <1>1, <1>3, <2>1 DEF NodeInvariant, OpenVotes
  <2>5. StoresOne(n)'
    BY <1>5, <1>9 DEF StoresOne
  <2>6. ChainSigned(n)'
    BY <1>1, <1>3 DEF NodeInvariant, ChainSigned
  <2> QED BY <2>2, <2>3, <2>4, <2>5, <2>6 DEF NodeInvariant
<1>13. ASSUME NEW m \in Node, m # n PROVE NodeInvariant(m)'
  <2>1. dart_box'[m] = dart_box[m] /\ committing'[m] = committing[m]
    BY <1>1, <1>2, <1>13 DEF TypeOK
  <2> QED BY <1>3, <2>1, OtherNode DEF Invariant, VotedEpochs
<1> QED BY <1>10, <1>11, <1>12, <1>13 DEF Invariant

\* receiveRecorder moves an epoch to the log, and its bullseye to the transcript.
LEMMA ReceiveRecorderStep ==
    ASSUME Invariant, NEW n \in Node, receiveRecorder(n)
    PROVE  Invariant'
<1> USE DEF networkVars, votingVars, executionVars, storageVars, boxVars
<1> DEFINE req == committing[n]
           entry == [epoch |-> req.id, recorder |-> req.recorder, bullseye |-> dart[n]]
           block == Append(last_block[n], entry)
           res == [id |-> req.id, bullseye |-> dart[n], block |-> block]
<1>1. TypeOK /\ NodeInvariant(n)
  BY DEF Invariant
<1>2. /\ req # None /\ req.at = "replicator" /\ req \in Committing
      /\ dart[n] \in Content /\ last_block[n] \in Seq(RecorderBlock)
      /\ bullseyes[n] \in Seq(CommitResponse)
      /\ last_block' = [last_block EXCEPT ![n] = block]
      /\ committing' = [committing EXCEPT ![n] = None]
      /\ bullseyes' = [bullseyes EXCEPT ![n] = Append(bullseyes[n], res)]
  BY <1>1 DEF TypeOK, NodeTypeOK, receiveRecorder
<1>3. UNCHANGED <<networkVars, running, shutdown, last_epoch_number, votingVars,
                  executionVars, dart_box, checked, commits, dart>>
  BY DEF receiveRecorder
<1>4. /\ req.id \in CommittingIds(n) /\ CommittingIds(n) = {req.id}
      /\ req.id \notin LoggedEpochs(last_block[n]) /\ req.id \notin Ids(bullseyes[n])
      /\ req.id \notin VotedEpochs(n)
  BY <1>1, <1>2 DEF NodeInvariant, InOneStage, CommittingIds
<1>5. entry \in RecorderBlock /\ entry.epoch = req.id
  BY <1>2 DEF Committing, RecorderBlock
<1>6. /\ block \in Seq(RecorderBlock)
      /\ LoggedEpochs(block) = LoggedEpochs(last_block[n]) \cup {req.id}
      /\ UniqueEpochs(block)
  <2> HIDE DEF req, entry
  <2> QED BY <1>1, <1>2, <1>4, <1>5, LogOfAppend DEF NodeInvariant, OnceInStage
<1>7. res \in CommitResponse /\ res.id = req.id
  <2> HIDE DEF block
  <2> QED BY <1>2, <1>6 DEF Committing, CommitResponse
<1> HIDE DEF req, entry, block, res
<1>8. /\ Append(bullseyes[n], res) \in Seq(CommitResponse)
      /\ Ids(Append(bullseyes[n], res)) = Ids(bullseyes[n]) \cup {req.id}
      /\ Unique(Append(bullseyes[n], res))
  BY <1>1, <1>2, <1>4, <1>7, IdsOfAppend DEF NodeInvariant, OnceInStage
<1>9. /\ last_block'[n] = block /\ committing'[n] = None
      /\ bullseyes'[n] = Append(bullseyes[n], res)
  BY <1>1, <1>2 DEF TypeOK
<1>10. TypeOK'
  <2>1. /\ last_block' \in [Node -> Seq(RecorderBlock)]
        /\ bullseyes' \in [Node -> Seq(CommitResponse)]
        /\ DOMAIN committing' = Node
        /\ \A m \in Node : committing'[m] # None => committing'[m] \in Committing
    BY <1>1, <1>2, <1>6, <1>8 DEF TypeOK, NodeTypeOK
  <2> QED BY <1>1, <1>3, <2>1 DEF TypeOK, NodeTypeOK
<1>11. OneBallot'
  BY <1>3 DEF Invariant, OneBallot
<1>12. NodeInvariant(n)'
  <2>1. /\ CommittingIds(n)' = {}
        /\ LoggedEpochs(last_block[n])' = LoggedEpochs(last_block[n]) \cup {req.id}
        /\ Ids(bullseyes[n])' = Ids(bullseyes[n]) \cup {req.id}
    BY <1>6, <1>8, <1>9 DEF CommittingIds
  <2>2. /\ CheckIds(dart_box[n])' = CheckIds(dart_box[n])
        /\ Ids(checked[n])' = Ids(checked[n]) /\ Ids(commits[n])' = Ids(commits[n])
        /\ VotedEpochs(n)' = VotedEpochs(n)
        /\ last_epoch_number'[n] = last_epoch_number[n]
    BY <1>3 DEF VotedEpochs
  <2>3. InOneStage(n)'
    BY <1>1, <1>4, <2>1, <2>2 DEF NodeInvariant, InOneStage
  <2>4. OnceInStage(n)'
    BY <1>1, <1>3, <1>6, <1>8, <1>9 DEF NodeInvariant, OnceInStage
  <2>5. OpenVotes(n)'
    BY <1>1, <1>3, <1>4, <2>1, <2>2 DEF NodeInvariant, OpenVotes
  <2>6. StoresOne(n)'
    <3>1. committing[n].at = "replicator"
      BY <1>2 DEF req
    <3> QED BY <1>1, <1>3, <1>9, <3>1 DEF NodeInvariant, StoresOne
  <2>7. ChainSigned(n)'
    BY <1>1, <1>3 DEF NodeInvariant, ChainSigned
  <2> QED BY <2>3, <2>4, <2>5, <2>6, <2>7 DEF NodeInvariant
<1>13. ASSUME NEW m \in Node, m # n PROVE NodeInvariant(m)'
  <2>1. last_block'[m] = last_block[m] /\ bullseyes'[m] = bullseyes[m] /\ committing'[m] = committing[m]
    BY <1>1, <1>2, <1>13 DEF TypeOK
  <2> QED BY <1>3, <2>1, OtherNode DEF Invariant, VotedEpochs
<1> QED BY <1>10, <1>11, <1>12, <1>13 DEF Invariant

\* receiveBullseye casts the first vote of a node on an epoch.
LEMMA ReceiveBullseyeStep ==
    ASSUME Invariant, NEW n \in Node, receiveBullseye(n)
    PROVE  Invariant'
<1> USE DEF networkVars, votingVars, executionVars, storageVars, boxVars
<1> DEFINE res == Head(bullseyes[n])
           ballot == [owner |-> n, epoch |-> res.id, bullseye |-> res.bullseye]
           signed == [votes[n][res.id] EXCEPT !.bullseye = res.bullseye,
                                              !.recorder_block = res.block]
           left == [votes[n] EXCEPT ![res.id] = signed]
<1>1. TypeOK /\ NodeInvariant(n)
  BY DEF Invariant
<1>2. /\ running[n] = "up" /\ bullseyes[n] \in Seq(CommitResponse) /\ bullseyes[n] # <<>>
      /\ res.id \in DOMAIN votes[n] /\ votes[n] \in [DOMAIN votes[n] -> Votes]
      /\ bullseyes' = [bullseyes EXCEPT ![n] = Tail(bullseyes[n])]
      /\ ballots' = ballots \cup {ballot}
  BY <1>1 DEF TypeOK, NodeTypeOK, receiveBullseye
<1>3. /\ UNCHANGED <<consensus, produced, running, shutdown, last_epoch_number,
                      last_consensus_epoch, previous_epoch, executionVars, dart_box,
                      checked, commits, storageVars>>
      /\ votes' = [votes EXCEPT ![n][res.id].bullseye = res.bullseye,
                                ![n][res.id].recorder_block = res.block]
  BY DEF receiveBullseye
<1>4. votes' = [votes EXCEPT ![n] = left]
  BY <1>1, <1>2, <1>3 DEF TypeOK
<1>5. /\ Tail(bullseyes[n]) \in Seq(CommitResponse) /\ res \in CommitResponse
      /\ res.id \in Ids(bullseyes[n]) /\ Unique(Tail(bullseyes[n]))
      /\ Ids(Tail(bullseyes[n])) = Ids(bullseyes[n]) \ {res.id}
  BY <1>1, <1>2, IdsOfTail DEF NodeInvariant, OnceInStage
<1>6. res.id \in LoggedEpochs(last_block[n]) /\ res.id \notin VotedEpochs(n)
  BY <1>1, <1>5 DEF NodeInvariant, InOneStage
<1>7. ballot \in ConsensusVoting
  BY <1>5 DEF CommitResponse, ConsensusVoting
<1>8. /\ signed \in Votes /\ signed.votes = votes[n][res.id].votes
      /\ DOMAIN left = DOMAIN votes[n] /\ left \in [DOMAIN left -> Votes]
      /\ \A e \in DOMAIN left : left[e].votes = votes[n][e].votes
      /\ \A e \in DOMAIN left : e # res.id => left[e] = votes[n][e]
  BY <1>2, <1>5 DEF Votes, CommitResponse
<1>9. ballot.owner = n /\ ballot.epoch = res.id
  OBVIOUS
<1> HIDE DEF res, ballot, signed, left
<1>10. votes'[n] = left /\ bullseyes'[n] = Tail(bullseyes[n])
  BY <1>1, <1>2, <1>4 DEF TypeOK
<1>11. ASSUME NEW m \in Node, m # n
       PROVE  votes'[m] = votes[m] /\ bullseyes'[m] = bullseyes[m]
  BY <1>1, <1>2, <1>4, <1>11 DEF TypeOK
<1>12. TypeOK'
  <2>1. /\ bullseyes' \in [Node -> Seq(CommitResponse)] /\ DOMAIN votes' = Node
        /\ ballots' \subseteq ConsensusVoting
        /\ \A i \in DOMAIN consensus : consensus[i].votes \subseteq ballots'
    BY <1>1, <1>2, <1>4, <1>5, <1>7 DEF TypeOK
  <2>2. ASSUME NEW m \in Node PROVE NodeTypeOK(m)'
    <3>1. NodeTypeOK(m)
      BY <1>1 DEF TypeOK
    <3>2. ballots \subseteq ballots'
      BY <1>2
    <3>3. CASE m = n
      <4>1. \A e \in DOMAIN left : left[e].votes \subseteq {v \in ballots' : v.epoch = e}
        BY <1>8, <3>1, <3>2, <3>3 DEF NodeTypeOK
      <4> QED BY <1>3, <1>8, <1>10, <3>1, <3>3, <4>1 DEF NodeTypeOK
    <3>4. CASE m # n
      BY <1>3, <1>11, <3>1, <3>2, <3>4 DEF NodeTypeOK
    <3> QED BY <3>3, <3>4
  <2> QED BY <1>1, <1>3, <2>1, <2>2 DEF TypeOK
<1>13. OneBallot'
  <2> SUFFICES ASSUME NEW v \in ballots', NEW w \in ballots',
                      v.owner = w.owner, v.epoch = w.epoch
               PROVE  v = w
    BY DEF OneBallot
  <2>1. \A x \in ballots : ~(x.owner = n /\ x.epoch = res.id)
    BY <1>6 DEF VotedEpochs
  <2>2. CASE v \in ballots /\ w \in ballots
    BY <2>2 DEF Invariant, OneBallot
  <2> QED BY <1>2, <1>9, <2>1, <2>2
<1>14. NodeInvariant(n)'
  <2>1. VotedEpochs(n)' = VotedEpochs(n) \cup {res.id}
    BY <1>2, <1>9 DEF VotedEpochs
  <2>2. /\ CheckIds(dart_box[n])' = CheckIds(dart_box[n])
        /\ Ids(checked[n])' = Ids(checked[n]) /\ Ids(commits[n])' = Ids(commits[n])
        /\ CommittingIds(n)' = CommittingIds(n)
        /\ LoggedEpochs(last_block[n])' = LoggedEpochs(last_block[n])
        /\ Ids(bullseyes[n])' = Ids(bullseyes[n]) \ {res.id}
        /\ last_epoch_number'[n] = last_epoch_number[n]
    BY <1>3, <1>5, <1>10 DEF CommittingIds
  <2>3. InOneStage(n)'
    BY <1>1, <1>6, <2>1, <2>2 DEF NodeInvariant, InOneStage
  <2>4. OnceInStage(n)'
    BY <1>1, <1>3, <1>5, <1>10 DEF NodeInvariant, OnceInStage
  <2>5. OpenVotes(n)'
    <3>1. res.id \notin Ids(commits[n]) /\ res.id \notin CommittingIds(n)
      BY <1>1, <1>6 DEF NodeInvariant, InOneStage
    <3> QED BY <1>1, <1>3, <1>8, <1>10, <2>2, <3>1 DEF NodeInvariant, OpenVotes
  <2>6. StoresOne(n)'
    BY <1>1, <1>3 DEF NodeInvariant, StoresOne
  <2>7. ChainSigned(n)'
    BY <1>1, <1>2, <1>3 DEF NodeInvariant, ChainSigned
  <2> QED BY <2>3, <2>4, <2>5, <2>6, <2>7 DEF NodeInvariant
<1>15. ASSUME NEW m \in Node, m # n PROVE NodeInvariant(m)'
  <2>1. VotedEpochs(m)' = VotedEpochs(m)
    BY <1>2, <1>9, <1>15 DEF VotedEpochs
  <2> QED BY <1>2, <1>3, <1>11, <1>15, <2>1, OtherNode DEF Invariant
<1> QED BY <1>12, <1>13, <1>14, <1>15 DEF Invariant

\* createRecorder for an epoch that is in no stage of the node but the DART's answer.
LEMMA RecordingStep ==
    ASSUME Invariant, NEW n \in Node,
           NEW last \in Nat, last_epoch_number[n] <= last, last <= Len(consensus),
           last_epoch_number' = [last_epoch_number EXCEPT ![n] = last],
           NEW id \in 1..last, NEW absent, NEW vs, NEW ecs, RecorderInput(n, last, vs, ecs),
           createRecorder(n, id, absent, vs, ecs),
           UNCHANGED <<networkVars, shutdown, dart_box, bullseyes, storageVars>>,
           checked' \in [Node -> Seq(CheckResponse)],
           \A m \in Node \ {n} : checked'[m] = checked[m],
           Ids(checked'[n]) \subseteq Ids(checked[n]) \ {id}, Unique(checked'[n]),
           id \notin CheckIds(dart_box[n]) \cup Ids(commits[n]) \cup CommittingIds(n)
                        \cup LoggedEpochs(last_block[n]),
           \A e \in DOMAIN votes[n] : votes[n][e].bullseye = None =>
               e \in DOMAIN vs /\ vs[e].bullseye = None
    PROVE  Invariant' /\ ChainContinued(n)
<1> USE DEF networkVars, storageVars
<1>1. TypeOK /\ NodeInvariant(n)
  BY DEF Invariant
<1>2. /\ last_consensus_epoch' \in [Node -> Nat]
      /\ last_consensus_epoch'[n] <= last
      /\ previous_epoch' \in [Node -> Seq(Epoch)]
      /\ ChainSigned(n)' /\ ChainContinued(n)
      /\ products' \in [Node -> SUBSET Contract]
      /\ last_globals' \in [Node -> Int]
      /\ running' \in [Node -> {"up", "stopping", "down"}]
      /\ commits' \in [Node -> Seq(CommitRequest)]
      /\ DOMAIN votes' = Node /\ DOMAIN epoch_contracts' = Node
      /\ DOMAIN votes'[n] \subseteq 1..last
      /\ votes'[n] \in [DOMAIN votes'[n] -> Votes]
      /\ \A e \in DOMAIN votes'[n] : votes'[n][e].votes \subseteq {v \in ballots : v.epoch = e}
      /\ DOMAIN epoch_contracts'[n] \subseteq 1..last
      /\ epoch_contracts'[n] \in [DOMAIN epoch_contracts'[n] -> EpochContracts]
  BY <1>1, RecorderStep DEF NodeInvariant
<1>3. \A m \in Node \ {n} :
          /\ last_consensus_epoch'[m] = last_consensus_epoch[m]
          /\ previous_epoch'[m] = previous_epoch[m]
          /\ votes'[m] = votes[m] /\ epoch_contracts'[m] = epoch_contracts[m]
          /\ commits'[m] = commits[m] /\ running'[m] = running[m]
          /\ last_epoch_number'[m] = last_epoch_number[m]
  BY <1>1, RecorderStep DEF NodeInvariant, TypeOK
<1>4. running'[n] = "up" =>
          /\ running[n] = "up"
          /\ \A e \in DOMAIN vs : vs[e].bullseye = None /\ e # id =>
                 e \in DOMAIN votes'[n] /\ votes'[n][e].bullseye = None
  BY <1>1, RecorderStep DEF NodeInvariant
<1>4a. \/ commits'[n] = commits[n]
       \/ /\ running'[n] = "up" => id \in DOMAIN votes'[n] /\ votes'[n][id].bullseye = None
          /\ CommitSent(n, id)
  BY <1>1, RecorderStep DEF NodeInvariant
<1>5. last_epoch_number' \in [Node -> Nat] /\ last_epoch_number'[n] = last
  BY <1>1 DEF TypeOK
<1>6. /\ Unique(commits'[n])
      /\ \/ Ids(commits'[n]) = Ids(commits[n])
         \/ /\ Ids(commits'[n]) = Ids(commits[n]) \cup {id}
            /\ running'[n] = "up" => id \in DOMAIN votes'[n] /\ votes'[n][id].bullseye = None
  <2>1. commits[n] \in Seq(CommitRequest) /\ Unique(commits[n]) /\ id \notin Ids(commits[n])
    BY <1>1 DEF TypeOK, NodeInvariant, OnceInStage
  <2>2. CASE commits'[n] = commits[n]
    BY <2>1, <2>2
  <2>3. CASE commits'[n] # commits[n]
    <3>1. PICK r \in Recorder : commits'[n] = Append(commits[n], [id |-> id, recorder |-> r])
      BY <1>4a, <2>3 DEF CommitSent
    <3> DEFINE req == [id |-> id, recorder |-> r]
    <3>2. req \in CommitRequest /\ req.id = id
      BY DEF CommitRequest
    <3> HIDE DEF req
    <3>3. Ids(Append(commits[n], req)) = Ids(commits[n]) \cup {id} /\ Unique(Append(commits[n], req))
      BY <2>1, <3>2, IdsOfAppend
    <3> QED BY <1>4a, <2>3, <3>1, <3>3 DEF req
  <2> QED BY <2>2, <2>3
<1>7. TypeOK'
  <2>1. ASSUME NEW m \in Node PROVE NodeTypeOK(m)'
    <3>1. NodeTypeOK(m)
      BY <1>1 DEF TypeOK
    <3>2. CASE m = n
      BY <1>2, <1>5, <3>1, <3>2 DEF NodeTypeOK
    <3>3. CASE m # n
      BY <1>3, <3>1, <3>3 DEF NodeTypeOK
    <3> QED BY <3>2, <3>3
  <2> QED BY <1>1, <1>2, <1>5, <2>1 DEF TypeOK
<1>8. OneBallot'
  BY DEF Invariant, OneBallot
<1>9. NodeInvariant(n)'
  <2>1. /\ CheckIds(dart_box[n])' = CheckIds(dart_box[n])
        /\ Ids(bullseyes[n])' = Ids(bullseyes[n])
        /\ CommittingIds(n)' = CommittingIds(n) /\ VotedEpochs(n)' = VotedEpochs(n)
        /\ LoggedEpochs(last_block[n])' = LoggedEpochs(last_block[n])
    BY DEF CommittingIds, VotedEpochs
  <2>2. InOneStage(n)'
    <3>1. \A e \in 1..last_epoch_number[n] : e \in 1..last
      BY <1>1 DEF TypeOK
    <3> QED BY <1>1, <1>5, <1>6, <2>1, <3>1 DEF NodeInvariant, InOneStage
  <2>3. OnceInStage(n)'
    BY <1>1, <1>6 DEF NodeInvariant, OnceInStage
  <2>4. OpenVotes(n)'
    <3> SUFFICES ASSUME running'[n] = "up",
                        NEW e \in Ids(commits'[n]) \cup CommittingIds(n) \cup Ids(bullseyes[n])
                 PROVE  e \in DOMAIN votes'[n] /\ votes'[n][e].bullseye = None
      BY <2>1 DEF OpenVotes
    <3>1. id \notin Ids(bullseyes[n])
      BY <1>1 DEF NodeInvariant, InOneStage
    <3>2. CASE e = id
      BY <1>6, <3>1, <3>2
    <3>3. CASE e # id
      <4>1. e \in DOMAIN votes[n] /\ votes[n][e].bullseye = None
        BY <1>1, <1>4, <1>6, <3>3 DEF NodeInvariant, OpenVotes
      <4> QED BY <1>4, <3>3, <4>1
    <3> QED BY <3>2, <3>3
  <2>5. StoresOne(n)'
    BY <1>1 DEF NodeInvariant, StoresOne
  <2> QED BY <1>2, <2>2, <2>3, <2>4, <2>5 DEF NodeInvariant
<1>10. ASSUME NEW m \in Node, m # n PROVE NodeInvariant(m)'
  BY <1>3, <1>10, OtherNode DEF Invariant, VotedEpochs
<1> QED BY <1>2, <1>7, <1>8, <1>9, <1>10 DEF Invariant

\* receiveChecked moves an epoch from the DART's answers to epoch_commit, or drops it.
LEMMA ReceiveCheckedStep ==
    ASSUME Invariant, NEW n \in Node, receiveChecked(n)
    PROVE  Invariant' /\ ChainContinued(n)
<1> DEFINE res == Head(checked[n])
           last == last_epoch_number[n]
<1>1. TypeOK /\ NodeInvariant(n)
  BY DEF Invariant
<1>2. /\ checked[n] \in Seq(CheckResponse) /\ checked[n] # <<>>
      /\ checked' = [checked EXCEPT ![n] = Tail(checked[n])]
      /\ createRecorder(n, res.id, res.not_in_dart, votes[n], epoch_contracts[n])
      /\ UNCHANGED <<networkVars, shutdown, last_epoch_number, dart_box, bullseyes, storageVars>>
  BY <1>1 DEF TypeOK, receiveChecked
<1>3. /\ Tail(checked[n]) \in Seq(CheckResponse) /\ res.id \in Ids(checked[n])
      /\ Unique(Tail(checked[n])) /\ Ids(Tail(checked[n])) = Ids(checked[n]) \ {res.id}
  BY <1>1, <1>2, IdsOfTail DEF NodeInvariant, OnceInStage
<1>4. /\ res.id \in 1..last
      /\ res.id \notin CheckIds(dart_box[n]) \cup Ids(commits[n]) \cup CommittingIds(n)
                        \cup LoggedEpochs(last_block[n])
  BY <1>1, <1>3 DEF NodeInvariant, InOneStage
<1>5. RecorderInput(n, last, votes[n], epoch_contracts[n])
  BY <1>1 DEF TypeOK, NodeTypeOK, RecorderInput
<1>6. /\ last \in Nat /\ last <= Len(consensus)
      /\ last_epoch_number' = [last_epoch_number EXCEPT ![n] = last]
      /\ checked' \in [Node -> Seq(CheckResponse)] /\ checked'[n] = Tail(checked[n])
      /\ \A m \in Node \ {n} : checked'[m] = checked[m]
  BY <1>1, <1>2, <1>3 DEF TypeOK, NodeTypeOK
<1>7. last_epoch_number[n] <= last
  BY <1>6
<1>8. \A e \in DOMAIN votes[n] : votes[n][e].bullseye = None =>
          e \in DOMAIN votes[n] /\ votes[n][e].bullseye = None
  OBVIOUS
<1> HIDE DEF res, last
<1> QED BY <1>2, <1>3, <1>4, <1>5, <1>6, <1>7, <1>8, RecordingStep

\* epoch brings a new epoch into the first stage, or at once to epoch_commit.
LEMMA EpochStep ==
    ASSUME Invariant, NEW n \in Node, epoch(n)
    PROVE  Invariant' /\ (ChainContinued(n) \/ UNCHANGED previous_epoch)
<1> DEFINE id == last_epoch_number[n] + 1
           carried == consensus[id]
           vs == AddVotes(n, carried.votes)
           taken == [contracts |-> carried.contracts, witnesses |-> carried.witnesses[n]]
           ecs == With(epoch_contracts[n], id, taken)
           inputs == InputsOf(carried.contracts)
           ask == [method |-> "checkRead", id |-> id, inputs |-> inputs]
<1>1. TypeOK /\ NodeInvariant(n)
  BY DEF Invariant
<1>2. /\ id \in DOMAIN consensus /\ consensus \in Seq(ConsensusEpoch)
      /\ last_epoch_number[n] \in Nat
      /\ last_epoch_number' = [last_epoch_number EXCEPT ![n] = id]
      /\ UNCHANGED <<networkVars, shutdown, checked, bullseyes, storageVars>>
  BY <1>1 DEF TypeOK, epoch
<1>3. /\ id \in Nat /\ id \in 1..id /\ id <= Len(consensus) /\ last_epoch_number[n] <= id
      /\ carried \in ConsensusEpoch
  BY <1>2
<1>4. /\ DOMAIN vs = DOMAIN votes[n]
      /\ vs \in [DOMAIN votes[n] -> Votes]
      /\ \A e \in DOMAIN vs : /\ vs[e].votes \subseteq {v \in ballots : v.epoch = e}
                              /\ vs[e].bullseye = votes[n][e].bullseye
  <2>1. carried.votes \subseteq ballots /\ ballots \subseteq ConsensusVoting
    BY <1>1, <1>2 DEF TypeOK
  <2>2. NodeTypeOK(n)
    BY <1>1 DEF TypeOK
  <2>3. ASSUME NEW e \in DOMAIN votes[n]
        PROVE  /\ vs[e] = [votes[n][e] EXCEPT !.votes = @ \cup {v \in carried.votes : v.epoch = e}]
               /\ vs[e] \in Votes
               /\ vs[e].votes \subseteq {v \in ballots : v.epoch = e}
               /\ vs[e].bullseye = votes[n][e].bullseye
    <3>1. /\ votes[n][e] \in Votes
          /\ votes[n][e].votes \subseteq {v \in ballots : v.epoch = e}
      BY <2>2 DEF NodeTypeOK
    <3>2. vs[e] = [votes[n][e] EXCEPT !.votes = @ \cup {v \in carried.votes : v.epoch = e}]
      BY DEF AddVotes
    <3> HIDE DEF vs, carried
    <3> QED BY <2>1, <3>1, <3>2 DEF Votes
  <2>4. DOMAIN vs = DOMAIN votes[n] /\ vs = [e \in DOMAIN votes[n] |-> vs[e]]
    BY DEF AddVotes
  <2> HIDE DEF vs
  <2> QED BY <2>3, <2>4
<1>5. /\ DOMAIN ecs = DOMAIN epoch_contracts[n] \cup {id}
      /\ ecs \in [DOMAIN ecs -> EpochContracts]
  <2>1. epoch_contracts[n] \in [DOMAIN epoch_contracts[n] -> EpochContracts]
    BY <1>1 DEF TypeOK, NodeTypeOK
  <2>2. taken \in EpochContracts
    <3>1. carried.contracts \in Seq(Contract) /\ carried.witnesses \in Witnesses
      BY <1>3 DEF ConsensusEpoch
    <3> HIDE DEF carried
    <3> QED BY <3>1 DEF EpochContracts, Fingerprints
  <2> HIDE DEF carried, taken
  <2> QED BY <2>1, <2>2 DEF With
<1>6. inputs \in SUBSET Archive
  <2>1. carried.contracts \in Seq(Contract)
    BY <1>3 DEF ConsensusEpoch
  <2> HIDE DEF carried
  <2>2. \A i \in DOMAIN carried.contracts : carried.contracts[i] \in Contract
    BY <2>1
  <2> QED BY <2>2, ContractAssumption DEF InputsOf, Archive
<1>7. \/ inputs = {} /\ createRecorder(n, id, {}, vs, ecs) /\ UNCHANGED dart_box
      \/ /\ votes' = [votes EXCEPT ![n] = vs]
         /\ epoch_contracts' = [epoch_contracts EXCEPT ![n] = ecs]
         /\ dart_box' = [dart_box EXCEPT ![n] = Append(dart_box[n], ask)]
         /\ UNCHANGED <<last_consensus_epoch, previous_epoch, products, last_globals,
                        commits, running>>
  BY DEF epoch
<1>8. /\ id \notin CheckIds(dart_box[n]) /\ id \notin Ids(checked[n]) /\ id \notin Ids(commits[n])
      /\ id \notin CommittingIds(n) /\ id \notin LoggedEpochs(last_block[n])
  <2>1. id \notin 1..last_epoch_number[n]
    BY <1>2
  <2> HIDE DEF id
  <2> QED BY <1>1, <2>1 DEF NodeInvariant, InOneStage
<1>9. RecorderInput(n, id, vs, ecs)
  <2>1. /\ DOMAIN votes[n] \subseteq 1..id /\ DOMAIN ecs \subseteq 1..id
        /\ last_consensus_epoch[n] <= id
    <3>1. /\ DOMAIN votes[n] \subseteq 1..last_epoch_number[n]
          /\ DOMAIN epoch_contracts[n] \subseteq 1..last_epoch_number[n]
          /\ last_consensus_epoch[n] <= last_epoch_number[n]
          /\ last_consensus_epoch[n] \in Nat
      BY <1>1 DEF TypeOK, NodeTypeOK
    <3>2. 1..last_epoch_number[n] \subseteq 1..id
      BY <1>2
    <3>3. last_consensus_epoch[n] <= id
      BY <1>2, <3>1
    <3> HIDE DEF id, ecs
    <3> QED BY <1>3, <1>5, <3>1, <3>2, <3>3
  <2> HIDE DEF vs, ecs, id
  <2> QED BY <1>4, <1>5, <2>1 DEF RecorderInput
<1> HIDE DEF id, vs, ecs, inputs, carried
<1>10. CASE createRecorder(n, id, {}, vs, ecs) /\ UNCHANGED dart_box
  <2>1. /\ checked' \in [Node -> Seq(CheckResponse)]
        /\ \A m \in Node \ {n} : checked'[m] = checked[m]
        /\ Ids(checked'[n]) \subseteq Ids(checked[n]) \ {id} /\ Unique(checked'[n])
    BY <1>1, <1>2, <1>8 DEF TypeOK, NodeInvariant, OnceInStage
  <2>2. UNCHANGED <<networkVars, shutdown, dart_box, bullseyes, storageVars>>
    BY <1>2, <1>10
  <2>3. \A e \in DOMAIN votes[n] : votes[n][e].bullseye = None =>
            e \in DOMAIN vs /\ vs[e].bullseye = None
    BY <1>4
  <2>4. id \notin CheckIds(dart_box[n]) \cup Ids(commits[n]) \cup CommittingIds(n)
                      \cup LoggedEpochs(last_block[n])
    BY <1>8
  <2> QED BY <1>2, <1>3, <1>9, <1>10, <2>1, <2>2, <2>3, <2>4, RecordingStep
<1>11. CASE /\ votes' = [votes EXCEPT ![n] = vs]
            /\ epoch_contracts' = [epoch_contracts EXCEPT ![n] = ecs]
            /\ dart_box' = [dart_box EXCEPT ![n] = Append(dart_box[n], ask)]
            /\ UNCHANGED <<last_consensus_epoch, previous_epoch, products, last_globals,
                           commits, running>>
  <2> USE DEF networkVars, storageVars
  <2>1. ask \in DARTRequest /\ ask.method = "checkRead" /\ ask.id = id /\ ask.method # "modify"
    BY <1>3, <1>6 DEF DARTRequest
  <2> HIDE DEF ask
  <2>2. /\ Append(dart_box[n], ask) \in Seq(DARTRequest)
        /\ CheckIds(Append(dart_box[n], ask)) = CheckIds(dart_box[n]) \cup {id}
        /\ UniqueChecks(Append(dart_box[n], ask))
        /\ ModifiesIn(Append(dart_box[n], ask)) = ModifiesIn(dart_box[n])
    <3>1. dart_box[n] \in Seq(DARTRequest) /\ UniqueChecks(dart_box[n])
      BY <1>1 DEF TypeOK, NodeInvariant, OnceInStage
    <3> QED BY <1>8, <2>1, <3>1, ChecksOfAppend, ModifiesOfAppend
  <2>3. /\ votes'[n] = vs /\ epoch_contracts'[n] = ecs
        /\ dart_box'[n] = Append(dart_box[n], ask) /\ last_epoch_number'[n] = id
        /\ \A i \in DOMAIN dart_box[n] : dart_box'[n][i] = dart_box[n][i]
    BY <1>1, <1>2, <1>11 DEF TypeOK
  <2>4. ASSUME NEW m \in Node, m # n
        PROVE  /\ votes'[m] = votes[m] /\ epoch_contracts'[m] = epoch_contracts[m]
               /\ dart_box'[m] = dart_box[m] /\ last_epoch_number'[m] = last_epoch_number[m]
    BY <1>1, <1>2, <1>11, <2>4 DEF TypeOK
  <2>5. TypeOK'
    <3>1. /\ dart_box' \in [Node -> Seq(DARTRequest)] /\ DOMAIN votes' = Node
          /\ DOMAIN epoch_contracts' = Node /\ last_epoch_number' \in [Node -> Nat]
      BY <1>1, <1>2, <1>3, <1>11, <2>2 DEF TypeOK
    <3>2. ASSUME NEW m \in Node PROVE NodeTypeOK(m)'
      <4>1. NodeTypeOK(m)
        BY <1>1 DEF TypeOK
      <4>2. CASE m = n
        BY <1>2, <1>3, <1>4, <1>5, <1>9, <1>11, <2>3, <4>1, <4>2 DEF NodeTypeOK, RecorderInput
      <4>3. CASE m # n
        BY <1>2, <1>11, <2>4, <4>1, <4>3 DEF NodeTypeOK
      <4> QED BY <4>2, <4>3
    <3> QED BY <1>1, <1>2, <1>11, <3>1, <3>2 DEF TypeOK
  <2>6. OneBallot'
    BY <1>2 DEF Invariant, OneBallot
  <2>7. InOneStage(n)'
    <3>1. /\ Ids(checked[n])' = Ids(checked[n]) /\ Ids(commits[n])' = Ids(commits[n])
          /\ Ids(bullseyes[n])' = Ids(bullseyes[n])
          /\ CommittingIds(n)' = CommittingIds(n) /\ VotedEpochs(n)' = VotedEpochs(n)
          /\ LoggedEpochs(last_block[n])' = LoggedEpochs(last_block[n])
          /\ CheckIds(dart_box[n])' = CheckIds(dart_box[n]) \cup {id}
      BY <1>2, <1>11, <2>2, <2>3 DEF CommittingIds, VotedEpochs
    <3>2. \A e \in 1..last_epoch_number[n] : e \in 1..id
      BY <1>2, <1>3
    <3> QED BY <1>1, <1>3, <1>8, <2>3, <3>1, <3>2 DEF NodeInvariant, InOneStage
  <2>8. OnceInStage(n)'
    BY <1>1, <1>2, <1>11, <2>2, <2>3 DEF NodeInvariant, OnceInStage
  <2>9. OpenVotes(n)'
    BY <1>1, <1>2, <1>4, <1>11, <2>3 DEF NodeInvariant, OpenVotes, CommittingIds
  <2>10. StoresOne(n)'
    BY <1>1, <1>2, <2>2, <2>3 DEF NodeInvariant, StoresOne
  <2>11. ChainSigned(n)'
    BY <1>1, <1>2, <1>11 DEF NodeInvariant, ChainSigned
  <2>12. ASSUME NEW m \in Node, m # n PROVE NodeInvariant(m)'
    BY <1>2, <1>11, <2>4, <2>12, OtherNode DEF Invariant, VotedEpochs
  <2> QED BY <2>5, <2>6, <2>7, <2>8, <2>9, <2>10, <2>11, <2>12, <1>11
         DEF Invariant, NodeInvariant
<1> QED BY <1>7, <1>10, <1>11

\* The invariant holds when the node has booted.
LEMMA InitInvariant ==
    ASSUME Init
    PROVE  Invariant
<1> USE DEF Init
<1>1. \A S : <<>> \in Seq(S)
  OBVIOUS
<1>2. Cardinality(Bill) \in Int /\ GenesisDART \in Content
  <2>1. Cardinality(Bill) \in Nat
    BY ContractAssumption, FS_CardinalityType
  <2> QED BY <2>1 DEF GenesisDART, Content, Archive
<1>3. TypeOK
  <2>1. \A n \in Node : NodeTypeOK(n)
    BY <1>1 DEF NodeTypeOK
  <2> QED BY <1>1, <1>2, <2>1 DEF TypeOK
<1>4. OneBallot
  BY DEF OneBallot
<1>5. ASSUME NEW n \in Node PROVE NodeInvariant(n)
  <2>1. /\ CheckIds(<<>>) = {} /\ Ids(<<>>) = {} /\ LoggedEpochs(<<>>) = {}
        /\ ModifiesIn(<<>>) = {} /\ UniqueChecks(<<>>) /\ Unique(<<>>) /\ UniqueEpochs(<<>>)
    BY DEF CheckIds, ChecksIn, Ids, LoggedEpochs, ModifiesIn, UniqueChecks, Unique, UniqueEpochs
  <2>2. CommittingIds(n) = {} /\ VotedEpochs(n) = {}
    BY DEF CommittingIds, VotedEpochs
  <2>3. InOneStage(n) /\ OnceInStage(n) /\ StoresOne(n)
    BY <2>1, <2>2 DEF InOneStage, OnceInStage, StoresOne
  <2>4. OpenVotes(n)
    BY <2>1, <2>2 DEF OpenVotes
  <2>5. ChainSigned(n)
    BY DEF ChainSigned
  <2> QED BY <2>3, <2>4, <2>5 DEF NodeInvariant
<1> QED BY <1>3, <1>4, <1>5 DEF Invariant

\* Every step preserves the invariant, and changes a chain only by continuing it.
LEMMA NextInvariant ==
    ASSUME Invariant, [Next]_vars
    PROVE  /\ Invariant'
           /\ UNCHANGED previous_epoch \/ \E n \in Node : ChainContinued(n)
<1>1. CASE decideEpoch
  BY <1>1, DecideEpochStep DEF decideEpoch, votingVars
<1>2. CASE \E n \in Node : Transcript(n)
  <2> PICK n \in Node : Transcript(n)
    BY <1>2
  <2>1. CASE epoch(n)
    BY <2>1, EpochStep
  <2>2. CASE receiveChecked(n)
    BY <2>2, ReceiveCheckedStep
  <2>3. CASE receiveBullseye(n)
    BY <2>3, ReceiveBullseyeStep DEF receiveBullseye
  <2> QED BY <2>1, <2>2, <2>3 DEF Transcript
<1>3. CASE \E n \in Node : epoch_commit(n)
  BY <1>3, EpochCommitStep DEF epoch_commit, votingVars
<1>4. CASE \E n \in Node : DARTService(n)
  BY <1>4, CheckReadStep, ModifyDARTStep DEF DARTService, checkRead, modifyDART, votingVars
<1>5. CASE \E n \in Node : receiveRecorder(n)
  BY <1>5, ReceiveRecorderStep DEF receiveRecorder, votingVars
<1>6. CASE \E n \in Node : TVM(n)
  BY <1>6, ProduceContractStep DEF TVM, produceContract, votingVars
<1>7. CASE \E n \in Node : stopServices(n) \/ scheduleShutdown(n)
  BY <1>7, ShutdownStep DEF stopServices, scheduleShutdown, epoch_shutdown, votingVars
<1>8. CASE UNCHANGED vars
  <2> USE <1>8 DEF vars, networkVars, votingVars, executionVars, storageVars, boxVars
  <2>1. TypeOK'
    BY DEF Invariant, TypeOK, NodeTypeOK
  <2>2. OneBallot'
    BY DEF Invariant, OneBallot
  <2>3. ASSUME NEW m \in Node PROVE NodeInvariant(m)'
    BY OtherNode DEF Invariant, VotedEpochs
  <2> QED BY <2>1, <2>2, <2>3 DEF Invariant
<1> QED BY <1>1, <1>2, <1>3, <1>4, <1>5, <1>6, <1>7, <1>8 DEF Next

(***************************************************************************)
(* Every epoch passes through the services of a node once, and a node      *)
(* votes once for it: the invariant holds in every state, for any number   *)
(* of nodes, contracts and epochs and with no assumption on the timing of  *)
(* transcript.d, epoch_commit.d, DART.d and replicator.d.                  *)
(***************************************************************************)
THEOREM InvariantHolds == Spec => []Invariant
<1>1. Init => Invariant
  BY InitInvariant
<1>2. Invariant /\ [Next]_vars => Invariant'
  BY NextInvariant
<1> QED BY <1>1, <1>2, PTL DEF Spec

\* The variables keep their types, and a vote is filed under the epoch it is for (epoch).
THEOREM TypesHold == Spec => []TypeOK
<1>1. Invariant => TypeOK
  BY DEF Invariant
<1> QED BY <1>1, InvariantHolds, PTL

\* No answer of the DART or of epoch_commit makes the transcript commit an epoch again.
THEOREM EpochsCommittedOnce == Spec => []CommittedOnce
<1>1. Invariant => CommittedOnce
  BY DEF Invariant, NodeInvariant, OnceInStage, UniqueEpochs, CommittedOnce
<1> QED BY <1>1, InvariantHolds, PTL

\* The index into votes in receiveBullseye is never missing.
THEOREM ResponsesHaveVotes == Spec => []ResponseHasVote
<1>1. Invariant => ResponseHasVote
  BY DEF Invariant, NodeInvariant, OpenVotes, Ids, ResponseHasVote
<1> QED BY <1>1, InvariantHolds, PTL

(* The chain of a node in EpochChain is the bullseyes of its finished epochs. *)
ChainOfBullseyes ==
    \A n \in Node :
        /\ Len(chainBar[n]) = Len(previous_epoch[n]) /\ Len(previous_epoch[n]) \in Nat
        /\ \A i \in 1..Len(previous_epoch[n]) : chainBar[n][i] = previous_epoch[n][i].bullseye

\* The refinement mapping gives chains as long as the epochs finished.
LEMMA ChainBarOf == TypeOK => ChainOfBullseyes
<1> SUFFICES ASSUME TypeOK, NEW n \in Node
             PROVE  /\ Len(chainBar[n]) = Len(previous_epoch[n]) /\ Len(previous_epoch[n]) \in Nat
                    /\ \A i \in 1..Len(previous_epoch[n]) :
                           chainBar[n][i] = previous_epoch[n][i].bullseye
  BY DEF ChainOfBullseyes
<1>1. previous_epoch[n] \in Seq(Epoch)
  BY DEF TypeOK
<1>2. chainBar[n] = [i \in DOMAIN previous_epoch[n] |-> previous_epoch[n][i].bullseye]
  BY DEF chainBar
<1> QED BY <1>1, <1>2

\* Two votes of one node on one epoch are the same vote, so finished epochs agree.
LEMMA InvariantAgreement == Invariant => ChainAgreement
<1> SUFFICES ASSUME Invariant, NEW n \in Node, NEW m \in Node,
                    NEW i \in (1..Len(chainBar[n])) \cap (1..Len(chainBar[m]))
             PROVE  chainBar[n][i] = chainBar[m][i]
  BY DEF ChainAgreement, Chain!Compatible
<1>1. TypeOK /\ ChainSigned(n) /\ ChainSigned(m)
  BY DEF Invariant, NodeInvariant
<1>2. /\ i \in 1..last_consensus_epoch[n] /\ i \in 1..last_consensus_epoch[m]
      /\ chainBar[n][i] = previous_epoch[n][i].bullseye
      /\ chainBar[m][i] = previous_epoch[m][i].bullseye
  BY <1>1, ChainBarOf DEF ChainSigned, ChainOfBullseyes
<1>3. PICK v \in ballots : /\ v.owner = n /\ v.epoch = i
                           /\ v.bullseye = previous_epoch[n][i].bullseye
  BY <1>1, <1>2 DEF ChainSigned
<1>4. PICK w \in ballots : /\ w.owner = n /\ w.epoch = i
                           /\ w.bullseye = previous_epoch[m][i].bullseye
  BY <1>1, <1>2 DEF ChainSigned
<1>5. v = w
  BY <1>3, <1>4 DEF Invariant, OneBallot
<1> QED BY <1>2, <1>3, <1>4, <1>5

(***************************************************************************)
(* Two nodes never finish an epoch with different bullseyes (createRecorder *)
(* and receiveBullseye): both have the vote of each node on the epoch, and *)
(* each node casts one.                                                    *)
(***************************************************************************)
THEOREM ChainsAgree == Spec => []ChainAgreement
BY InvariantAgreement, InvariantHolds, PTL

\* Initial states map to initial states of EpochChain.
LEMMA ChainInit ==
    ASSUME Init
    PROVE  Chain!Init
<1> SUFFICES ASSUME NEW n \in Node PROVE chainBar[n] = <<>>
  BY DEF Chain!Init, chainBar
<1>1. TypeOK
  BY InitInvariant DEF Invariant
<1>2. previous_epoch[n] = <<>> /\ chainBar[n] \in Seq({1})
  BY DEF Init, chainBar
<1>3. Len(chainBar[n]) = 0
  BY <1>1, <1>2, ChainBarOf DEF ChainOfBullseyes
<1> QED BY <1>2, <1>3

\* Continuing a chain is a step of EpochChain or a stutter.
LEMMA ChainStep ==
    ASSUME Invariant, Invariant', NEW n \in Node, ChainContinued(n)
    PROVE  Chain!Finish(n) \/ UNCHANGED chainBar
<1>1. PICK new \in Seq(Epoch) :
          previous_epoch' = [previous_epoch EXCEPT ![n] = previous_epoch[n] \o new]
  BY DEF ChainContinued
<1>2. /\ TypeOK /\ previous_epoch \in [Node -> Seq(Epoch)] /\ TypeOK'
      /\ previous_epoch[n] \in Seq(Epoch)
  BY DEF Invariant, TypeOK
<1> DEFINE old == previous_epoch[n]
<1>3. /\ previous_epoch'[n] = old \o new
      /\ \A m \in Node \ {n} : previous_epoch'[m] = previous_epoch[m]
  BY <1>1, <1>2
<1> HIDE DEF old
<1>4. /\ Len(old \o new) = Len(old) + Len(new) /\ Len(old) \in Nat /\ Len(new) \in Nat
      /\ \A i \in 1..Len(old) : (old \o new)[i] = old[i]
  <2>1. old \in Seq(Epoch)
    BY <1>2 DEF old
  <2> QED BY <2>1, ConcatAt
<1>5. /\ Len(chainBar[n]) = Len(old)
      /\ \A i \in 1..Len(old) : chainBar[n][i] = old[i].bullseye
  BY <1>2, ChainBarOf DEF old, ChainOfBullseyes
<1>6. /\ Len(chainBar'[n]) = Len(previous_epoch'[n])
      /\ \A i \in 1..Len(previous_epoch'[n]) : chainBar'[n][i] = previous_epoch'[n][i].bullseye
  <2>1. ChainOfBullseyes'
    BY <1>2, ChainBarOf, PTL
  <2> QED BY <2>1 DEF ChainOfBullseyes
<1>7. \A m \in Node \ {n} : chainBar'[m] = chainBar[m]
  BY <1>3 DEF chainBar
<1>8. CASE new = <<>>
  <2>1. previous_epoch'[n] = previous_epoch[n]
    BY <1>2, <1>3, <1>8 DEF old
  <2>2. previous_epoch' = previous_epoch
    BY <1>1, <1>2, <1>3, <2>1
  <2> QED BY <2>2 DEF chainBar
<1>9. CASE new # <<>>
  <2>1. Len(new) > 0
    BY <1>9
  <2>2. Len(chainBar[n]) < Len(chainBar'[n])
    BY <1>3, <1>4, <1>5, <1>6, <2>1
  <2>3. Chain!Compatible(chainBar[n], chainBar'[n])
    BY <1>3, <1>4, <1>5, <1>6 DEF Chain!Compatible
  <2>4. ChainAgreement'
    BY InvariantAgreement, PTL
  <2>5. \A m \in Node : Chain!Compatible(chainBar'[n], chainBar[m])
    <3>1. ASSUME NEW m \in Node \ {n} PROVE Chain!Compatible(chainBar'[n], chainBar[m])
      BY <1>7, <2>4, <3>1 DEF ChainAgreement, Chain!Compatible
    <3>2. Chain!Compatible(chainBar'[n], chainBar[n])
      BY <2>3 DEF Chain!Compatible
    <3> QED BY <3>1, <3>2
  <2>6. chainBar'[n] # chainBar[n]
    BY <1>4, <1>5, <2>2
  <2> QED BY <1>7, <2>2, <2>3, <2>5, <2>6 DEF Chain!Finish
<1> QED BY <1>8, <1>9

(***************************************************************************)
(* The pipeline implements EpochChain: the finished epochs of a node       *)
(* (createRecorder) are a chain that only grows and never contradicts the  *)
(* chain of another node.                                                  *)
(***************************************************************************)
THEOREM PipelineImplementsChain == Spec => ChainSpec
<1>1. Init => Chain!Init
  BY ChainInit
<1>2. Invariant /\ Invariant' /\ [Next]_vars => [Chain!Next]_chainBar
  <2> SUFFICES ASSUME Invariant, Invariant', [Next]_vars PROVE [Chain!Next]_chainBar
    OBVIOUS
  <2>1. CASE UNCHANGED previous_epoch
    BY <2>1 DEF chainBar
  <2>2. CASE \E n \in Node : ChainContinued(n)
    BY <2>2, ChainStep DEF Chain!Next
  <2> QED BY <2>1, <2>2, NextInvariant
<1> QED BY <1>1, <1>2, InvariantHolds, PTL DEF Spec, ChainSpec, Chain!Spec
================================================================================
