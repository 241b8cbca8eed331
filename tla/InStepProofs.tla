---------------------------- MODULE InStepProofs ----------------------------
(***************************************************************************)
(* Nodes in step hold what the consensus order determines.                 *)
(***************************************************************************)
EXTENDS StorageProofs, InStepInvariant

(***************************************************************************)
(* What the consensus order determines                                     *)
(***************************************************************************)
\* What holds of the first number of an interval, and of each after the one before it,
\* holds of all.
LEMMA UpTo ==
    ASSUME NEW a \in Nat, NEW b \in Nat, NEW T, a \in T,
           \A i \in (a + 1)..b : i - 1 \in T => i \in T
    PROVE  \A i \in a..b : i \in T
<1> DEFINE Bad == {i \in a..b : i \notin T}
<1> SUFFICES ASSUME Bad # {} PROVE FALSE
  OBVIOUS
<1>1. PICK i \in Bad : \A y \in Bad : i <= y
  <2>1. Bad \in SUBSET Nat
    OBVIOUS
  <2> HIDE DEF Bad
  <2> QED BY <2>1, LeastNat
<1>2. i \in (a + 1)..b /\ i - 1 \in a..b /\ ~(i <= i - 1)
  BY <1>1
<1>3. i - 1 \in T
  BY <1>1, <1>2
<1> QED BY <1>1, <1>2, <1>3

\* A set of consecutive numbers from some number on.
LEMMA Consecutive ==
    ASSUME NEW a \in Nat, NEW b \in Nat, NEW F, F \subseteq (a + 1)..b,
           \A e \in F : \A d \in (a + 1)..e : d \in F
    PROVE  /\ Cardinality(F) \in Nat
           /\ F = (a + 1)..(a + Cardinality(F))
           /\ a <= b => a + Cardinality(F) <= b
<1> DEFINE k == Cardinality(F)
<1>1. IsFiniteSet(F) /\ k \in Nat
  <2>1. IsFiniteSet((a + 1)..b) /\ F \in SUBSET ((a + 1)..b)
    BY FS_Interval
  <2>2. IsFiniteSet(F)
    BY <2>1, FS_Subset, Zenon
  <2> QED BY <2>2, FS_CardinalityType, Zenon
<1>2. \A e \in F : e \in (a + 1)..(a + k)
  <2> TAKE e \in F
  <2>1. (a + 1)..e \in SUBSET F /\ e \in Nat /\ a < e
    OBVIOUS
  <2>2. Cardinality((a + 1)..e) = e - a
    BY <2>1, FS_Interval
  <2>3. Cardinality((a + 1)..e) <= k
    BY <2>1, <1>1, FS_Subset
  <2> QED BY <2>1, <2>2, <2>3, <1>1
<1>3. F \in SUBSET ((a + 1)..(a + k))
  BY <1>2
<1>4. IsFiniteSet((a + 1)..(a + k)) /\ Cardinality((a + 1)..(a + k)) = k
  <2> DEFINE x == a + 1
             y == a + k
  <2>1. x \in Int /\ y \in Int
    BY <1>1
  <2>2. IsFiniteSet(x..y) /\ Cardinality(x..y) = IF x > y THEN 0 ELSE y - x + 1
    BY <2>1, FS_Interval
  <2>3. (IF x > y THEN 0 ELSE y - x + 1) = k
    BY <1>1
  <2> QED BY <2>2, <2>3
<1>5. F = (a + 1)..(a + k)
  BY <1>3, <1>4, FS_Subset
<1>6. a <= b => a + k <= b
  <2>1. CASE k = 0
    BY <2>1
  <2>2. CASE k # 0
    <3>1. a + k \in F
      BY <1>1, <1>5, <2>2
    <3> QED BY <1>1, <3>1
  <2> QED BY <2>1, <2>2
<1> HIDE DEF k
<1> QED BY <1>1, <1>5, <1>6 DEF k

(* f goes through the states of a life up to epoch k. *)
Follows(f, life, k) ==
    /\ f = [i \in life.epoch..k |-> f[i]]
    /\ f[life.epoch] = [dart |-> life.dart, finished |-> life.epoch]
    /\ \A i \in (life.epoch + 1)..k : f[i] = After(life, i, f[i - 1])

\* The states of a life exist.
LEMMA FollowsExists ==
    ASSUME NEW life, life.epoch \in Nat, NEW b \in Nat
    PROVE  \A k \in life.epoch..b : \E f : Follows(f, life, k)
<1> DEFINE a == life.epoch
           T == {k \in Nat : \E f : Follows(f, life, k)}
<1>1. a \in T
  <2>1. Follows([i \in a..a |-> [dart |-> life.dart, finished |-> a]], life, a)
    BY DEF Follows
  <2> QED BY <2>1
<1>2. ASSUME NEW k \in (a + 1)..b, k - 1 \in T PROVE k \in T
  <2>1. PICK f : Follows(f, life, k - 1)
    BY <1>2
  <2> DEFINE g == [i \in a..k |-> IF i = k THEN After(life, k, f[k - 1]) ELSE f[i]]
  <2>2. k \in Nat /\ a \in a..k /\ a # k /\ a \in Nat
    BY <1>2
  <2>3. Follows(g, life, k)
    <3>1. g = [i \in a..k |-> g[i]] /\ g[a] = [dart |-> life.dart, finished |-> a]
      BY <2>1, <2>2 DEF Follows
    <3>2. ASSUME NEW i \in (a + 1)..k PROVE g[i] = After(life, i, g[i - 1])
      <4>1. i - 1 \in a..k /\ i - 1 # k /\ i \in a..k /\ g[i - 1] = f[i - 1]
        BY <2>2
      <4>2. CASE i = k
        BY <4>1, <4>2
      <4>3. CASE i # k
        <5>1. i \in (a + 1)..(k - 1) /\ g[i] = f[i]
          BY <2>2, <4>3
        <5> QED BY <2>1, <4>1, <5>1 DEF Follows
      <4> QED BY <4>2, <4>3
    <3> HIDE DEF g
    <3> QED BY <3>1, <3>2 DEF Follows
  <2> QED BY <2>2, <2>3
<1> HIDE DEF T
<1>3. \A k \in a..b : k \in T
  BY <1>1, <1>2, UpTo
<1> QED BY <1>3 DEF T

\* Determined goes through the states of a life.
LEMMA DeterminedFollows ==
    ASSUME NEW life, life.order \in Seq(ConsensusEpoch), life.epoch \in 0..Len(life.order)
    PROVE  Follows(Determined(life), life, Len(life.order))
<1> DEFINE a == life.epoch
           b == Len(life.order)
           Step(g, i) == IF i = a THEN [dart |-> life.dart, finished |-> i]
                         ELSE After(life, i, g[i - 1])
           state == CHOOSE g : g = [i \in a..b |-> Step(g, i)]
<1>1. a \in Nat /\ b \in Nat /\ a <= b
  OBVIOUS
<1>2. Determined(life) = state
  BY DEF Determined
<1>3. PICK f : Follows(f, life, b)
  BY <1>1, FollowsExists
<1>4. f = [i \in a..b |-> Step(f, i)]
  <2>1. \A i \in a..b : i # a => i \in (a + 1)..b
    BY <1>1
  <2>2. \A i \in a..b : f[i] = Step(f, i)
    BY <1>3, <2>1 DEF Follows
  <2>3. f = [i \in a..b |-> f[i]]
    BY <1>3 DEF Follows
  <2> HIDE DEF Step
  <2> QED BY <2>2, <2>3
<1>5. state = [i \in a..b |-> Step(state, i)]
  BY <1>4
<1> HIDE DEF state
<1>6. \A i \in a..b : state[i] = Step(state, i)
  BY <1>5
<1>7. state = [i \in a..b |-> state[i]]
  <2> HIDE DEF Step
  <2> QED BY <1>5, <1>6
<1>8. \A i \in (a + 1)..b : i # a /\ i \in a..b
  BY <1>1
<1>9. a \in a..b
  BY <1>1
<1> QED BY <1>2, <1>6, <1>7, <1>8, <1>9 DEF Follows

\* The epochs that a recorder finishes follow one another.
LEMMA FinishedFollows ==
    ASSUME NEW life, NEW last \in Nat, NEW i \in Nat \ {0}
    PROVE  LET F == FinishedBy(life, last, i)
           IN  /\ Cardinality(F) \in Nat
               /\ F = (last + 1)..(last + Cardinality(F))
               /\ last < i => last + Cardinality(F) < i
<1> DEFINE F == FinishedBy(life, last, i)
           b == i - 1
<1>1. F \subseteq (last + 1)..b /\ \A e \in F : \A d \in (last + 1)..e : d \in F
  BY DEF FinishedBy
<1>2. b \in Nat
  OBVIOUS
<1>3. last < i <=> last <= b
  OBVIOUS
<1> HIDE DEF F
<1>4. /\ Cardinality(F) \in Nat
      /\ F = (last + 1)..(last + Cardinality(F))
      /\ last <= b => last + Cardinality(F) <= b
  BY <1>1, <1>2, Consecutive
<1> QED BY <1>3, <1>4 DEF F

\* A recorder that the order determines is a Recorder.
LEMMA RecorderOfType ==
    ASSUME NEW life, life.order \in Seq(ConsensusEpoch), NEW i \in DOMAIN life.order,
           NEW state, state.finished \in Nat
    PROVE  RecorderOf(life, i, state) \in Recorder
<1>1. i \in Nat /\ life.order[i] \in ConsensusEpoch
  OBVIOUS
<1> DEFINE cs == life.order[i].contracts
           exec == Executed(cs, i, InputsOf(cs) \ state.dart.bills, Contract)
<1>2. cs \in Seq(Contract)
  BY <1>1 DEF ConsensusEpoch
<1>3. exec \in SUBSET Contract
  BY <1>2, ExecutedType
<1> HIDE DEF exec
<1>4. UNION {Inputs[c] : c \in exec} \in SUBSET Archive
  BY <1>3, InputsType
<1>5. FinishedBy(life, state.finished, i) \in SUBSET Nat
  BY <1>1 DEF FinishedBy
<1> QED BY <1>1, <1>3, <1>4, <1>5 DEF RecorderOf, Recorder, exec

(* The recorder of epoch i, but for its WitnessHead. *)
SharedAt(life, i) == RecorderOf(life, i, Determined(life)[i - 1])

(* What holds of the state after epoch i, and of the recorder that makes it. *)
StateOK(life, i) ==
    /\ Determined(life)[i].dart \in Content
    /\ Determined(life)[i].dart.head = i
    /\ Determined(life)[i].finished \in life.epoch..i
    /\ \A k \in (life.epoch + 1)..Determined(life)[i].finished : Alike(life, k)

RecorderOK(life, i) ==
    LET r == SharedAt(life, i)
        before == Determined(life)[i - 1]
        after == Determined(life)[i]
    IN  /\ r \in Recorder
        /\ r.head = i /\ r.open = {i}
        /\ r.final = (before.finished + 1)..after.finished
        /\ after.finished = before.finished + Cardinality(r.final)
        /\ Cardinality(r.final) \in Nat
        /\ after.finished < i
        /\ after.dart = modify(before.dart, r)

\* One recorder more.
LEMMA StateFollows ==
    ASSUME NEW life, LifeOK(life), NEW i \in (life.epoch + 1)..Len(life.order),
           StateOK(life, i - 1)
    PROVE  RecorderOK(life, i) /\ StateOK(life, i)
<1> DEFINE before == Determined(life)[i - 1]
           after == Determined(life)[i]
           r == SharedAt(life, i)
<1>1. /\ life.order \in Seq(ConsensusEpoch) /\ life.epoch \in Nat
      /\ life.epoch \in 0..Len(life.order)
      /\ i \in Nat \ {0} /\ i \in DOMAIN life.order
  BY DEF LifeOK
<1>2. after = After(life, i, before)
  BY <1>1, DeterminedFollows DEF Follows
<1>3. /\ before.finished \in life.epoch..(i - 1) /\ before.finished \in Nat
      /\ before.dart \in Content
  BY <1>1 DEF StateOK
<1>4. r = RecorderOf(life, i, before)
  BY DEF SharedAt
<1>5. r \in Recorder
  BY <1>1, <1>3, <1>4, RecorderOfType
<1>6. r.head = i /\ r.open = {i} /\ r.final = FinishedBy(life, before.finished, i)
  BY <1>4 DEF RecorderOf
<1>7. after.dart = modify(before.dart, r) /\ after.finished = before.finished + Cardinality(r.final)
  BY <1>2, <1>4 DEF After
<1> HIDE DEF r, before, after
<1>8. /\ Cardinality(r.final) \in Nat
      /\ r.final = (before.finished + 1)..after.finished
      /\ after.finished < i
  BY <1>1, <1>3, <1>6, <1>7, FinishedFollows
<1>9. after.dart \in Content
  BY <1>3, <1>5, <1>7, ModifyType
<1>10. after.dart.head = i
  BY <1>1, <1>6, <1>7 DEF modify
<1>11. after.finished \in life.epoch..i
  BY <1>1, <1>3, <1>7, <1>8
<1>12. RecorderOK(life, i)
  BY <1>5, <1>6, <1>7, <1>8 DEF RecorderOK, r, before, after
<1>13. \A k \in (life.epoch + 1)..after.finished : Alike(life, k)
  <2> TAKE k \in (life.epoch + 1)..after.finished
  <2>1. CASE k \in (life.epoch + 1)..before.finished
    BY <2>1 DEF StateOK, before
  <2>2. CASE k \notin (life.epoch + 1)..before.finished
    <3>1. k \in (before.finished + 1)..after.finished
      BY <1>1, <1>3, <1>11, <2>2
    <3>2. k \in FinishedBy(life, before.finished, i) /\ k \in (before.finished + 1)..k
      BY <1>3, <1>6, <1>8, <3>1
    <3> QED BY <3>2 DEF FinishedBy
  <2> QED BY <2>1, <2>2
<1> QED BY <1>9, <1>10, <1>11, <1>12, <1>13 DEF StateOK, after

\* In a life every state and every recorder has its type and its number.
LEMMA LifeDetermined ==
    ASSUME NEW life, LifeOK(life)
    PROVE  /\ Determined(life)[life.epoch] = [dart |-> life.dart, finished |-> life.epoch]
           /\ \A i \in life.epoch..Len(life.order) : StateOK(life, i)
           /\ \A i \in (life.epoch + 1)..Len(life.order) : RecorderOK(life, i)
<1> DEFINE a == life.epoch
           b == Len(life.order)
           T == {i \in Nat : StateOK(life, i)}
<1>1. /\ life.order \in Seq(ConsensusEpoch) /\ a \in 0..b
      /\ a \in Nat /\ b \in Nat
      /\ life.dart \in Content /\ life.dart.head = a
  BY DEF LifeOK
<1>2. Determined(life)[a] = [dart |-> life.dart, finished |-> a]
  BY <1>1, DeterminedFollows DEF Follows
<1>3. a \in T
  <2>1. (a + 1)..a = {}
    BY <1>1
  <2> QED BY <1>1, <1>2, <2>1 DEF StateOK
<1>4. ASSUME NEW i \in (a + 1)..b, i - 1 \in T PROVE i \in T
  BY <1>1, <1>4, StateFollows
<1> HIDE DEF T
<1>5. \A i \in a..b : i \in T
  BY <1>1, <1>3, <1>4, UpTo
<1>6. \A i \in (a + 1)..b : i - 1 \in a..b
  BY <1>1
<1>7. \A i \in (a + 1)..b : RecorderOK(life, i)
  BY <1>5, <1>6, StateFollows DEF T
<1> QED BY <1>2, <1>5, <1>7 DEF T

\* What is used of a node in an epoch of a life.
LEMMA NodeOfLife ==
    ASSUME NEW life, LifeOK(life), NEW n \in Node, NEW i \in life.epoch..Len(life.order)
    PROVE  /\ HeadAt(life, n, i) \in SUBSET WitnessHead
           /\ DartAt(life, n, i) \in Content /\ DartAt(life, n, i) # None
           /\ DartAt(life, n, i).head = i
           /\ DartAt(life, n, i).bills = Determined(life)[i].dart.bills
           /\ DartAt(life, n, i).witnesses = HeadAt(life, n, i)
           /\ ButWitnesses(DartAt(life, n, i)) = ButWitnesses(Determined(life)[i].dart)
           /\ i = life.epoch => DartAt(life, n, i) = life.dart
<1>1. /\ life.order \in Seq(ConsensusEpoch) /\ life.epoch \in Nat
      /\ Len(life.order) \in Nat /\ life.dart \in Content
  BY DEF LifeOK
<1>2. StateOK(life, i)
  BY LifeDetermined
<1>3. PICK content : content = Determined(life)[i].dart
  OBVIOUS
<1>4. content \in Content /\ content.head = i
  BY <1>2, <1>3 DEF StateOK
<1>5. HeadAt(life, n, i) \in SUBSET WitnessHead
  <2>1. CASE i = life.epoch
    BY <1>1, <2>1 DEF HeadAt, Content
  <2>2. CASE i # life.epoch
    <3>1. i \in DOMAIN life.order /\ i \in Nat
      BY <1>1, <2>2
    <3>2. life.order[i] \in ConsensusEpoch
      BY <1>1, <3>1
    <3>3. life.order[i].witnesses \in Witnesses
      BY <3>2 DEF ConsensusEpoch
    <3> QED BY <2>2, <3>1, <3>3 DEF HeadAt, WitnessHead, Fingerprints
  <2> QED BY <2>1, <2>2
<1>6. PICK W : W = HeadAt(life, n, i)
  OBVIOUS
<1>7. DartAt(life, n, i) = [content EXCEPT !.witnesses = W]
  BY <1>3, <1>6 DEF DartAt
<1>8. /\ DartAt(life, n, i) \in Content /\ DartAt(life, n, i).head = i
      /\ DartAt(life, n, i).bills = content.bills /\ DartAt(life, n, i).witnesses = W
  BY <1>4, <1>5, <1>6, <1>7 DEF Content
<1>9. ButWitnesses(DartAt(life, n, i)) = ButWitnesses(content)
  BY <1>4, <1>7 DEF ButWitnesses, Content
<1>10. ASSUME i = life.epoch PROVE DartAt(life, n, i) = life.dart
  <2>1. Determined(life)[life.epoch] = [dart |-> life.dart, finished |-> life.epoch]
    BY LifeDetermined, Zenon
  <2>2. content = life.dart
    BY <1>3, <1>10, <2>1
  <2>3. W = life.dart.witnesses
    BY <1>6, <1>10 DEF HeadAt
  <2> QED BY <1>1, <1>7, <2>2, <2>3 DEF Content
<1> QED BY <1>3, <1>5, <1>6, <1>8, <1>9, <1>10, NoneAssumption

\* The recorder of a node is the shared one with the WitnessHead of that node, and makes
\* the next DART of that node.
LEMMA RecorderOfNode ==
    ASSUME NEW life, LifeOK(life), NEW n \in Node,
           NEW i \in (life.epoch + 1)..Len(life.order)
    PROVE  LET r == RecorderAt(life, n, i)
               shared == SharedAt(life, i)
           IN  /\ r \in Recorder
               /\ r = [head |-> i, open |-> {i}, final |-> shared.final, adds |-> shared.adds,
                       removes |-> shared.removes,
                       witnesses |-> {[epoch |-> i, witnesses |-> life.order[i].witnesses[n]]}]
               /\ ButWitnesses(r) = shared
               /\ DartAt(life, n, i) = modify(DartAt(life, n, i - 1), r)
<1>1. PICK r, s : r = RecorderAt(life, n, i) /\ s = SharedAt(life, i)
  OBVIOUS
<1>2. PICK W : W = {[epoch |-> i, witnesses |-> life.order[i].witnesses[n]]}
  OBVIOUS
<1>3. /\ life.epoch \in Nat /\ i \in Nat /\ Len(life.order) \in Nat /\ i # life.epoch
      /\ i \in life.epoch..Len(life.order) /\ i - 1 \in life.epoch..Len(life.order)
  BY DEF LifeOK
<1>4. /\ s \in Recorder /\ s.head = i /\ s.open = {i} /\ s.witnesses = {}
      /\ Determined(life)[i].dart = modify(Determined(life)[i - 1].dart, s)
  BY <1>1, LifeDetermined DEF RecorderOK, SharedAt, RecorderOf
<1>5. W = HeadAt(life, n, i) /\ W \in SUBSET WitnessHead /\ W # {}
  <2>1. W = HeadAt(life, n, i)
    BY <1>2, <1>3 DEF HeadAt
  <2> QED BY <1>2, <1>3, <2>1, NodeOfLife
<1>6. r = [s EXCEPT !.witnesses = W]
  BY <1>1, <1>5 DEF RecorderAt, SharedAt
<1>7. r \in Recorder /\ r = [head |-> i, open |-> {i}, final |-> s.final, adds |-> s.adds,
                             removes |-> s.removes, witnesses |-> W]
  BY <1>4, <1>5, <1>6 DEF Recorder
<1>8. ButWitnesses(r) = s
  BY <1>4, <1>6 DEF ButWitnesses, Recorder
<1>9. DartAt(life, n, i) = modify(DartAt(life, n, i - 1), r)
  <2>1. PICK c, d, V : /\ c = Determined(life)[i - 1].dart /\ d = Determined(life)[i].dart
                       /\ V = HeadAt(life, n, i - 1)
    OBVIOUS
  <2>2. d = modify(c, s)
    BY <1>4, <2>1
  <2>3. DartAt(life, n, i) = [d EXCEPT !.witnesses = W]
    BY <1>5, <2>1 DEF DartAt
  <2>4. DartAt(life, n, i - 1) = [c EXCEPT !.witnesses = V]
    BY <2>1 DEF DartAt
  <2>5. c \in Content
    BY <1>3, <2>1, LifeDetermined DEF StateOK
  <2>6. modify([c EXCEPT !.witnesses = V], r) = [modify(c, s) EXCEPT !.witnesses = W]
    <3>1. PICK b : b = [c EXCEPT !.witnesses = V]
      OBVIOUS
    <3>2. /\ b.head = c.head /\ b.open = c.open /\ b.final = c.final
          /\ b.locked = c.locked /\ b.bills = c.bills
      BY <2>5, <3>1 DEF Content
    <3>3. /\ r.head = s.head /\ r.open = s.open /\ r.final = s.final /\ r.adds = s.adds
          /\ r.removes = s.removes /\ r.witnesses = W
      BY <1>4, <1>7
    <3>4. modify(b, r) = [head |-> IF s.head = 0 THEN c.head ELSE s.head,
                          open |-> (c.open \ s.final) \cup s.open,
                          final |-> c.final \cup s.final,
                          locked |-> (c.locked \ s.final) \cup s.open,
                          bills |-> (c.bills \ s.removes) \cup s.adds,
                          witnesses |-> W]
      BY <1>5, <3>2, <3>3 DEF modify
    <3>5. modify(c, s) = [head |-> IF s.head = 0 THEN c.head ELSE s.head,
                          open |-> (c.open \ s.final) \cup s.open,
                          final |-> c.final \cup s.final,
                          locked |-> (c.locked \ s.final) \cup s.open,
                          bills |-> (c.bills \ s.removes) \cup s.adds,
                          witnesses |-> c.witnesses]
      BY <1>4 DEF modify
    <3>6. PICK h, o, f, k, x :
              /\ h = IF s.head = 0 THEN c.head ELSE s.head
              /\ o = (c.open \ s.final) \cup s.open
              /\ f = c.final \cup s.final
              /\ k = (c.locked \ s.final) \cup s.open
              /\ x = (c.bills \ s.removes) \cup s.adds
      OBVIOUS
    <3>7. /\ modify(b, r) = [head |-> h, open |-> o, final |-> f, locked |-> k, bills |-> x,
                             witnesses |-> W]
          /\ modify(c, s) = [head |-> h, open |-> o, final |-> f, locked |-> k, bills |-> x,
                             witnesses |-> c.witnesses]
      BY <3>4, <3>5, <3>6
    <3>8. [modify(c, s) EXCEPT !.witnesses = W] =
              [head |-> h, open |-> o, final |-> f, locked |-> k, bills |-> x, witnesses |-> W]
      BY <3>7
    <3> QED BY <3>1, <3>7, <3>8
  <2> QED BY <2>2, <2>3, <2>4, <2>6
<1> QED BY <1>1, <1>2, <1>7, <1>8, <1>9

\* Two nodes have the same bullseye of an epoch when they had the same witnesses of it.
LEMMA BullseyesAlike ==
    ASSUME NEW life, LifeOK(life), NEW n \in Node, NEW m \in Node,
           NEW i \in (life.epoch + 1)..Len(life.order)
    PROVE  DartAt(life, n, i) = DartAt(life, m, i)
               <=> life.order[i].witnesses[n] = life.order[i].witnesses[m]
<1>1. i \in life.epoch..Len(life.order) /\ i # life.epoch
  BY DEF LifeOK
<1>2. /\ HeadAt(life, n, i) = {[epoch |-> i, witnesses |-> life.order[i].witnesses[n]]}
      /\ HeadAt(life, m, i) = {[epoch |-> i, witnesses |-> life.order[i].witnesses[m]]}
  BY <1>1 DEF HeadAt
<1>3. ASSUME life.order[i].witnesses[n] = life.order[i].witnesses[m]
      PROVE  DartAt(life, n, i) = DartAt(life, m, i)
  BY <1>2, <1>3 DEF DartAt
<1>4. ASSUME DartAt(life, n, i) = DartAt(life, m, i)
      PROVE  life.order[i].witnesses[n] = life.order[i].witnesses[m]
  <2>1. HeadAt(life, n, i) = HeadAt(life, m, i)
    BY <1>1, <1>4, NodeOfLife
  <2>2. PICK x, y : x = life.order[i].witnesses[n] /\ y = life.order[i].witnesses[m]
    OBVIOUS
  <2>3. [epoch |-> i, witnesses |-> x] = [epoch |-> i, witnesses |-> y]
    BY <1>2, <2>1, <2>2
  <2>4. [epoch |-> i, witnesses |-> x].witnesses = [epoch |-> i, witnesses |-> y].witnesses
    BY <2>3
  <2> QED BY <2>2, <2>4
<1> QED BY <1>3, <1>4

(* later is the same life with more epochs. *)
Continues(life, later) ==
    /\ LifeOK(life) /\ LifeOK(later)
    /\ later.epoch = life.epoch /\ later.dart = life.dart
    /\ Len(life.order) <= Len(later.order)
    /\ \A i \in 1..Len(life.order) : later.order[i] = life.order[i]

\* The epochs to come do not change what the order determined.
LEMMA DeterminedKept ==
    ASSUME NEW life, NEW later, Continues(life, later)
    PROVE  /\ \A i \in 0..Len(life.order) : \A e : VotesOn(later, e, i) = VotesOn(life, e, i)
           /\ \A i \in life.epoch..Len(life.order) : Determined(later)[i] = Determined(life)[i]
           /\ \A i \in life.epoch..Len(life.order), n \in Node :
                  DartAt(later, n, i) = DartAt(life, n, i)
           /\ \A i \in (life.epoch + 1)..Len(life.order), n \in Node :
                  RecorderAt(later, n, i) = RecorderAt(life, n, i)
<1> DEFINE a == life.epoch
           b == Len(life.order)
           T == {i \in Nat : Determined(later)[i] = Determined(life)[i]}
<1>1. /\ a \in 0..b /\ a \in Nat /\ b \in Nat /\ later.epoch = a /\ b <= Len(later.order)
      /\ Len(later.order) \in Nat
  BY DEF Continues, LifeOK
<1>2. ASSUME NEW i \in 0..b, NEW e PROVE VotesOn(later, e, i) = VotesOn(life, e, i)
  <2>1. \A j \in 1..i : later.order[j].votes = life.order[j].votes
    BY <1>1 DEF Continues
  <2>2. {later.order[j].votes : j \in 1..i} = {life.order[j].votes : j \in 1..i}
    BY <2>1
  <2> QED BY <2>2 DEF VotesOn
<1>3. ASSUME NEW i \in 1..b, NEW state, state.finished \in Nat
      PROVE  RecorderOf(later, i, state) = RecorderOf(life, i, state)
  <2>1. later.order[i] = life.order[i] /\ i \in 0..b
    BY <1>1 DEF Continues
  <2>2. FinishedBy(later, state.finished, i) = FinishedBy(life, state.finished, i)
    <3>1. PICK last \in Nat : last = state.finished
      BY <1>3
    <3>2. \A k : VotesOn(later, k, i) = VotesOn(life, k, i)
      BY <1>2, <2>1
    <3>3. \A e \in (last + 1)..(i - 1) : \A k \in (last + 1)..e : k \in 1..b
      BY <1>1
    <3>4. \A k \in 1..b : Alike(later, k) <=> Alike(life, k)
      BY DEF Alike, Continues
    <3> DEFINE P(x, k) == Alike(x, k) /\ {v.owner : v \in VotesOn(x, k, i)} = Node
    <3>5. FinishedBy(later, last, i) = FinishedBy(life, last, i)
      <4>1. \A k \in 1..b : P(later, k) <=> P(life, k)
        BY <3>2, <3>4, Zenon
      <4>2. /\ FinishedBy(later, last, i) =
                   {e \in (last + 1)..(i - 1) : \A k \in (last + 1)..e : P(later, k)}
            /\ FinishedBy(life, last, i) =
                   {e \in (last + 1)..(i - 1) : \A k \in (last + 1)..e : P(life, k)}
        BY DEF FinishedBy
      <4> HIDE DEF P
      <4>3. \A e \in (last + 1)..(i - 1) : (\A k \in (last + 1)..e : P(later, k))
                                              <=> (\A k \in (last + 1)..e : P(life, k))
        BY <3>3, <4>1, Zenon
      <4> QED BY <4>2, <4>3
    <3> QED BY <3>1, <3>5
  <2> QED BY <2>1, <2>2, Zenon DEF RecorderOf
<1>4. a \in T
  <2>1. /\ Determined(life)[life.epoch] = [dart |-> life.dart, finished |-> life.epoch]
        /\ Determined(later)[later.epoch] = [dart |-> later.dart, finished |-> later.epoch]
    BY LifeDetermined, Zenon DEF Continues
  <2> QED BY <1>1, <2>1 DEF Continues
<1>5. ASSUME NEW i \in (a + 1)..b, i - 1 \in T PROVE i \in T
  <2>1. i \in 1..b /\ i \in (a + 1)..Len(later.order) /\ i \in Nat /\ i - 1 \in a..b
    BY <1>1
  <2>2. Determined(life)[i] = After(life, i, Determined(life)[i - 1])
    BY DeterminedFollows DEF Follows, Continues, LifeOK
  <2>3. Determined(later)[i] = After(later, i, Determined(later)[i - 1])
    BY <1>1, <2>1, DeterminedFollows DEF Follows, Continues, LifeOK
  <2>4. Determined(life)[i - 1].finished \in Nat
    <3>1. StateOK(life, i - 1)
      BY <2>1, LifeDetermined DEF Continues
    <3> QED BY <1>1, <2>1, <3>1 DEF StateOK
  <2>5. After(later, i, Determined(life)[i - 1]) = After(life, i, Determined(life)[i - 1])
    BY <1>3, <2>1, <2>4 DEF After
  <2> QED BY <1>5, <2>1, <2>2, <2>3, <2>5
<1> HIDE DEF T
<1>6. \A i \in a..b : i \in T
  BY <1>1, <1>4, <1>5, UpTo
<1>7. ASSUME NEW i \in (a + 1)..b
      PROVE  /\ i - 1 \in a..b /\ i \in 1..b /\ i \in a..b
             /\ Determined(life)[i - 1].finished \in Nat
  <2>1. i - 1 \in a..b /\ i \in 1..b /\ i \in a..b
    BY <1>1
  <2>2. StateOK(life, i - 1)
    BY <2>1, LifeDetermined DEF Continues
  <2> QED BY <1>1, <2>1, <2>2 DEF StateOK
<1>8. ASSUME NEW i \in a..b, NEW n \in Node PROVE HeadAt(later, n, i) = HeadAt(life, n, i)
  <2>1. CASE i = a
    BY <1>1, <2>1 DEF HeadAt, Continues
  <2>2. CASE i # a
    <3>1. i \in 1..b
      BY <1>1, <2>2
    <3> QED BY <1>1, <2>2, <3>1 DEF HeadAt, Continues
  <2> QED BY <2>1, <2>2
<1>9. \A i \in a..b, n \in Node : DartAt(later, n, i) = DartAt(life, n, i)
  BY <1>6, <1>8 DEF DartAt, T
<1>10. ASSUME NEW i \in (a + 1)..b, NEW n \in Node
       PROVE  RecorderAt(later, n, i) = RecorderAt(life, n, i)
  <2>1. PICK state : state = Determined(life)[i - 1]
    OBVIOUS
  <2>2. Determined(later)[i - 1] = state /\ state.finished \in Nat /\ i \in 1..b /\ i \in a..b
    BY <1>6, <1>7, <2>1 DEF T
  <2>3. RecorderOf(later, i, state) = RecorderOf(life, i, state)
    BY <1>3, <2>2
  <2> QED BY <1>8, <2>1, <2>2, <2>3 DEF RecorderAt
<1> QED BY <1>2, <1>6, <1>9, <1>10 DEF T

\* Nor do they change the blocks, the Epoch records and the entries of votes.
LEMMA RecordsKept ==
    ASSUME NEW life, NEW later, Continues(life, later), NEW n \in Node
    PROVE  /\ \A i \in life.epoch..Len(life.order) :
                  LogTo(later, n, i) = LogTo(life, n, i)
                  /\ ChainTo(later, n, i) = ChainTo(life, n, i)
           /\ \A e \in (life.epoch + 1)..Len(life.order), taken \in 0..Len(life.order),
                 known \in 0..Len(life.order) :
                  EntryAt(later, n, e, taken, known) = EntryAt(life, n, e, taken, known)
<1> DEFINE a == life.epoch
           b == Len(life.order)
<1>1. a \in Nat /\ b \in Nat /\ later.epoch = a
  BY DEF Continues, LifeOK
<1>2. \A i \in (a + 1)..b : i \in a..b
  BY <1>1
<1>3. \A i \in (a + 1)..b : BlockAt(later, n, i) = BlockAt(life, n, i)
  BY <1>2, DeterminedKept DEF BlockAt
<1>4. ASSUME NEW i \in a..b PROVE LogTo(later, n, i) = LogTo(life, n, i)
  <2>1. \A j \in 1..(i - a) : a + j \in (a + 1)..b
    BY <1>1
  <2>2. \A j \in 1..(i - a) : BlockAt(later, n, a + j) = BlockAt(life, n, a + j)
    BY <1>3, <2>1
  <2> QED BY <1>1, <2>2 DEF LogTo
<1>5. \A i \in (a + 1)..b : EpochAt(later, n, i) = EpochAt(life, n, i)
  BY <1>2, <1>4, DeterminedKept DEF EpochAt
<1>6. ASSUME NEW i \in a..b PROVE ChainTo(later, n, i) = ChainTo(life, n, i)
  <2>1. \A j \in 1..(i - a) : a + j \in (a + 1)..b
    BY <1>1
  <2>2. \A j \in 1..(i - a) : EpochAt(later, n, a + j) = EpochAt(life, n, a + j)
    BY <1>5, <2>1
  <2> QED BY <1>1, <2>2 DEF ChainTo
<1>7. ASSUME NEW e \in (a + 1)..b, NEW taken \in 0..b, NEW known
      PROVE  EntryAt(later, n, e, taken, known) = EntryAt(life, n, e, taken, known)
  <2>1. VotesOn(later, e, taken) = VotesOn(life, e, taken)
    BY DeterminedKept
  <2>2. DartAt(later, n, e) = DartAt(life, n, e) /\ LogTo(later, n, e) = LogTo(life, n, e)
    BY <1>2, <1>4, DeterminedKept
  <2> QED BY <2>1, <2>2 DEF EntryAt
<1> QED BY <1>4, <1>6, <1>7

(***************************************************************************)
(* Votes, and the epochs on which they disagree                            *)
(***************************************************************************)
\* The votes for an epoch come after it, and are for the bullseye that their owner has.
LEMMA VotesOfLife ==
    ASSUME NEW life, InStep(life), NEW i \in 0..Len(life.order), NEW j \in 1..i,
           NEW v \in life.order[j].votes
    PROVE  /\ v \in ballots /\ v.owner \in Node /\ v.epoch \in Nat /\ v.epoch < j
           /\ v.epoch \in (life.epoch + 1)..Len(life.order)
           /\ v.bullseye = DartAt(life, v.owner, v.epoch)
<1>1. Len(life.order) \in Nat /\ j \in DOMAIN life.order /\ life.epoch \in Nat
  BY DEF InStep, LifeOK
<1>2. v \in ballots /\ v.epoch < j
  BY <1>1 DEF InStep, VotesFollow
<1>3. /\ v \in ConsensusVoting
      /\ v.epoch \in (life.epoch + 1)..(life.epoch + Len(last_block[v.owner]))
      /\ v.bullseye = DartAt(life, v.owner, v.epoch)
  BY <1>2 DEF InStep, VotesDetermined
<1>4. v.owner \in Node /\ v.epoch \in Nat /\ life.epoch + 1 <= v.epoch
  BY <1>1, <1>3 DEF ConsensusVoting
<1>5. v.epoch \in (life.epoch + 1)..Len(life.order)
  BY <1>1, <1>2, <1>4
<1> QED BY <1>2, <1>3, <1>4, <1>5

(* A vote on epoch e disagrees with node n. *)
Disputed(life, n, e, i) == \E v \in VotesOn(life, e, i) : v.bullseye # DartAt(life, n, e)

\* An epoch carries a vote of a node with other witnesses: the bullseyes of an epoch
\* before it, that is not finished, differ.
LEMMA SplitDisputes ==
    ASSUME NEW life, InStep(life), NEW n \in Node, NEW i \in 0..Len(life.order),
           Split(life, n, i)
    PROVE  \E e \in (life.epoch + 1)..(i - 1) :
               /\ Disputed(life, n, e, i) /\ ~Alike(life, e)
               /\ \A k \in life.epoch..Len(life.order) : Determined(life)[k].finished < e
<1>1. PICK j \in 1..i : \E v \in life.order[j].votes :
          life.order[v.epoch].witnesses[v.owner] # life.order[v.epoch].witnesses[n]
  BY DEF Split
<1>2. PICK v \in life.order[j].votes :
          life.order[v.epoch].witnesses[v.owner] # life.order[v.epoch].witnesses[n]
  BY <1>1
<1>3. PICK e : e = v.epoch
  OBVIOUS
<1>4. /\ LifeOK(life) /\ life.epoch \in Nat /\ Len(life.order) \in Nat /\ i \in Nat
      /\ j \in Nat /\ j <= i
  BY DEF InStep, LifeOK
<1>5. /\ v.owner \in Node /\ e \in Nat /\ e < j /\ e \in (life.epoch + 1)..Len(life.order)
      /\ v.bullseye = DartAt(life, v.owner, e)
  BY <1>3, VotesOfLife
<1>6. v.bullseye # DartAt(life, n, e) /\ ~Alike(life, e)
  BY <1>2, <1>3, <1>4, <1>5, BullseyesAlike DEF Alike
<1>7. v \in VotesOn(life, e, i)
  BY <1>3 DEF VotesOn
<1>8. ASSUME NEW k \in life.epoch..Len(life.order) PROVE Determined(life)[k].finished < e
  <2>1. StateOK(life, k)
    BY <1>4, LifeDetermined
  <2>2. PICK f : f = Determined(life)[k].finished
    OBVIOUS
  <2>3. f \in life.epoch..k /\ \A x \in (life.epoch + 1)..f : Alike(life, x)
    BY <2>1, <2>2 DEF StateOK
  <2>4. ~(e \in (life.epoch + 1)..f)
    BY <1>6, <2>3
  <2> QED BY <1>4, <1>5, <2>2, <2>3, <2>4
<1>9. e \in (life.epoch + 1)..(i - 1)
  BY <1>4, <1>5
<1> QED BY <1>6, <1>7, <1>8, <1>9 DEF Disputed

\* The other way round.
LEMMA DisputeSplits ==
    ASSUME NEW life, InStep(life), NEW n \in Node, NEW i \in 0..Len(life.order), NEW e,
           Disputed(life, n, e, i)
    PROVE  Split(life, n, i) /\ ~Alike(life, e) /\ e \in (life.epoch + 1)..Len(life.order)
<1>1. PICK v \in VotesOn(life, e, i) : v.bullseye # DartAt(life, n, e)
  BY DEF Disputed
<1>2. PICK j \in 1..i : v \in life.order[j].votes
  BY DEF VotesOn
<1>3. v.epoch = e
  BY DEF VotesOn
<1>4. /\ v.owner \in Node /\ e \in (life.epoch + 1)..Len(life.order)
      /\ v.bullseye = DartAt(life, v.owner, e)
  BY <1>2, <1>3, VotesOfLife
<1>5. LifeOK(life)
  BY DEF InStep
<1>6. life.order[e].witnesses[v.owner] # life.order[e].witnesses[n]
  BY <1>1, <1>4, <1>5, BullseyesAlike
<1> QED BY <1>2, <1>3, <1>4, <1>6 DEF Split, Alike

\* A node that lacks a recorder does so for a vote on an epoch whose bullseye it has.
LEMMA StuckDisputes ==
    ASSUME NEW life, InStep(life), NEW n \in Node, NEW made, NEW called \in 0..Len(life.order),
           MakesUpTo(life, n, made, called), made # called
    PROVE  \E e \in (life.epoch + 1)..made :
               /\ Disputed(life, n, e, called) /\ ~Alike(life, e)
               /\ \A k \in life.epoch..Len(life.order) : Determined(life)[k].finished < e
<1>1. /\ life.epoch \in Nat /\ Len(life.order) \in Nat
      /\ made \in life.epoch..called /\ made < called
  BY DEF MakesUpTo, InStep, LifeOK
<1>2. PICK next : next = made + 1
  OBVIOUS
<1>3. next \in 0..Len(life.order) /\ next \in 0..called /\ next - 1 = made
  BY <1>1, <1>2
<1>4. Split(life, n, next)
  BY <1>1, <1>2 DEF MakesUpTo
<1>5. PICK e \in (life.epoch + 1)..(next - 1) :
          /\ Disputed(life, n, e, next) /\ ~Alike(life, e)
          /\ \A k \in life.epoch..Len(life.order) : Determined(life)[k].finished < e
  BY <1>3, <1>4, SplitDisputes
<1>6. Disputed(life, n, e, called)
  <2>1. \A j \in 1..next : j \in 1..called
    BY <1>3
  <2>2. VotesOn(life, e, next) \subseteq VotesOn(life, e, called)
    BY <2>1 DEF VotesOn
  <2> QED BY <1>5, <2>2 DEF Disputed
<1> QED BY <1>3, <1>5, <1>6

\* A vote that disagrees stays in the epochs that were carried.
LEMMA SplitStays ==
    ASSUME NEW life, NEW n, NEW i \in Nat, NEW j \in Nat, i <= j, Split(life, n, i)
    PROVE  Split(life, n, j)
<1>1. \A k \in 1..i : k \in 1..j
  OBVIOUS
<1> QED BY <1>1 DEF Split

\* The epochs to come do not bring a vote into those that were carried.
LEMMA SplitKept ==
    ASSUME NEW life, InStep(life), NEW later, Continues(life, later), NEW n \in Node,
           NEW i \in 0..Len(life.order)
    PROVE  Split(later, n, i) <=> Split(life, n, i)
<1>1. Len(life.order) \in Nat /\ life.epoch \in Nat
  BY DEF InStep, LifeOK
<1>2. ASSUME NEW j \in 1..i
      PROVE  /\ later.order[j] = life.order[j]
             /\ \A v \in life.order[j].votes : later.order[v.epoch] = life.order[v.epoch]
  <2>1. j \in 1..Len(life.order)
    BY <1>1
  <2>2. \A v \in life.order[j].votes : v.epoch \in 1..Len(life.order)
    <3> TAKE v \in life.order[j].votes
    <3>1. v.epoch \in (life.epoch + 1)..Len(life.order)
      BY VotesOfLife
    <3> QED BY <1>1, <3>1
  <2> QED BY <2>1, <2>2 DEF Continues
<1> QED BY <1>2, Zenon DEF Split

\* So a node stays in its stage.
LEMMA StageContinues ==
    ASSUME NEW life, InStep(life), NEW later, Continues(life, later), NEW n \in Node,
           NEW stage \in Stage, NEW made, InStage(life, n, stage, made)
    PROVE  InStage(later, n, stage, made)
<1> DEFINE a == life.epoch
           b == Len(life.order)
           taken == last_epoch_number[n]
           before == IF stage = "idle" THEN taken ELSE taken - 1
           called == IF stage \in {"asked", "answered"} THEN before ELSE taken
           known == IF stage \in Recorded THEN before ELSE made
           stored == IF stage \in {"recorded", "storing"} THEN before ELSE made
           logged == IF stage \in {"recorded", "storing", "stored"} THEN before ELSE made
           finished == Determined(life)[called].finished
<1>1. /\ a \in Nat /\ b \in Nat /\ later.epoch = a /\ b <= Len(later.order)
      /\ Len(later.order) \in Nat
      /\ \A i \in 1..b : later.order[i] = life.order[i]
  BY DEF Continues, LifeOK
<1>2. /\ taken \in a..b /\ before \in a..taken
      /\ stage \in Recorded => made = taken
      /\ MakesUpTo(life, n, made, called)
      /\ TranscriptAt(life, n, taken, called, made, known)
      /\ StorageAt(life, n, stored, logged)
      /\ MessageAt(life, n, stage, taken)
  BY DEF InStage
<1>3. /\ made \in a..b /\ stored \in a..b /\ logged \in a..b /\ before \in 0..b
      /\ taken \in 0..b /\ called \in a..b /\ known \in 0..b /\ made \in a..called
      /\ stage # "idle" => taken \in (a + 1)..b
      /\ \A e \in (made + 1)..taken : e \in 1..b
      /\ \A e \in (a + 1)..taken : e \in 1..b
      /\ \A i \in (a + 1)..made : i \in (a + 1)..b
  BY <1>1, <1>2 DEF MakesUpTo
<1>4. Determined(later)[called] = Determined(life)[called]
  BY <1>3, DeterminedKept
<1>5. finished \in a..called /\ finished \in a..b
  <2>1. StateOK(life, called)
    BY <1>3, LifeDetermined DEF Continues
  <2> QED BY <1>1, <1>3, <2>1 DEF StateOK
<1>6. /\ \A e \in (made + 1)..taken : WaitingAt(later, n, e) = WaitingAt(life, n, e)
      /\ \A e \in (a + 1)..taken : ContractsOf(later, e) = ContractsOf(life, e)
  BY <1>1, <1>3 DEF ContractsOf, WaitingAt
<1>7. stage # "idle" => /\ RecorderAt(later, n, taken) = RecorderAt(life, n, taken)
                        /\ DartAt(later, n, taken) = DartAt(life, n, taken)
                        /\ LogTo(later, n, taken) = LogTo(life, n, taken)
                        /\ later.order[taken] = life.order[taken]
  <2>1. ASSUME stage # "idle" PROVE taken \in (a + 1)..b /\ taken \in a..b /\ taken \in 1..b
    BY <1>1, <1>3, <2>1
  <2> QED BY <1>1, <2>1, DeterminedKept, RecordsKept
<1>7a. MakesUpTo(later, n, made, called)
  <2>1. /\ made \in 0..b /\ made \in a..called
        /\ made < called => made + 1 \in 0..b
    BY <1>1, <1>3
  <2>2. Split(later, n, made) <=> Split(life, n, made)
    BY <2>1, SplitKept
  <2>3. made < called => (Split(later, n, made + 1) <=> Split(life, n, made + 1))
    BY <2>1, SplitKept
  <2> QED BY <1>1, <1>2, <2>1, <2>2, <2>3 DEF MakesUpTo
<1> HIDE DEF called, known, stored, logged, before, finished
<1>8. TranscriptAt(later, n, taken, called, made, known)
  <2>1. ChainTo(later, n, finished) = ChainTo(life, n, finished)
    BY <1>5, RecordsKept
  <2>2. [e \in (finished + 1)..made |-> EntryAt(later, n, e, taken, known)] =
            [e \in (finished + 1)..made |-> EntryAt(life, n, e, taken, known)]
    <3>1. \A e \in (finished + 1)..made : e \in (a + 1)..b
      BY <1>1, <1>3, <1>5
    <3>2. \A e \in (finished + 1)..made :
              EntryAt(later, n, e, taken, known) = EntryAt(life, n, e, taken, known)
      BY <1>3, <3>1, RecordsKept
    <3> QED BY <3>2
  <2>3. [e \in (made + 1)..taken |-> WaitingAt(later, n, e)] =
            [e \in (made + 1)..taken |-> WaitingAt(life, n, e)]
    BY <1>6
  <2>4. \A i \in (a + 1)..made : RecorderAt(later, n, i) = RecorderAt(life, n, i)
    BY <1>3, DeterminedKept
  <2>5. UNION {RecorderAt(later, n, i).adds : i \in (a + 1)..made} =
            UNION {RecorderAt(life, n, i).adds : i \in (a + 1)..made}
    BY <2>4
  <2>6. \A e \in (a + 1)..taken : ContractsOf(later, e) \subseteq produced[n]
    BY <1>2, <1>6 DEF TranscriptAt
  <2> QED BY <1>1, <1>2, <1>4, <2>1, <2>2, <2>3, <2>5, <2>6 DEF TranscriptAt, finished
<1>9. StorageAt(later, n, stored, logged)
  BY <1>2, <1>3, DeterminedKept, RecordsKept DEF StorageAt
<1>10. MessageAt(later, n, stage, taken)
  <2>1. CASE stage = "idle"
    BY <1>2, <2>1 DEF MessageAt
  <2>2. CASE stage # "idle"
    BY <1>2, <1>7, <2>2 DEF MessageAt, Request
  <2> QED BY <2>1, <2>2
<1>11. before \in later.epoch..taken /\ taken \in later.epoch..Len(later.order)
  BY <1>1, <1>2
<1> QED BY <1>2, <1>7a, <1>8, <1>9, <1>10, <1>11
        DEF InStage, called, known, stored, logged, before

(***************************************************************************)
(* The recorder that the transcript makes                                  *)
(***************************************************************************)
(* What createRecorder finds in a node in step that made the recorders up to made, when it
   is called for epoch id. *)
ReadyFor(life, n, id, made, absent, vs, ecs) ==
    LET before == Determined(life)[id - 1]
    IN  /\ id \in (life.epoch + 1)..Len(life.order)
        /\ MakesUpTo(life, n, made, id - 1)
        /\ shutdown[n] = 0
        /\ last_consensus_epoch[n] = before.finished
        /\ previous_epoch[n] = ChainTo(life, n, before.finished)
        /\ vs = [e \in (before.finished + 1)..made |-> EntryAt(life, n, e, id, made)]
        /\ ecs = [e \in (made + 1)..id |-> WaitingAt(life, n, e)]
        /\ absent = InputsOf(life.order[id].contracts) \ DartAt(life, n, made).bills
        /\ made = id - 1 => ContractsOf(life, id) \subseteq products[n]

\* The loop over the votes finishes what the order says, and a vote disagrees when an
\* epoch up to this one brings one of a node with other witnesses.
LEMMA FinishesDetermined ==
    ASSUME NEW life, InStep(life), NEW n \in Node, NEW id, NEW made, NEW absent, NEW vs,
           NEW ecs, ReadyFor(life, n, id, made, absent, vs, ecs)
    PROVE  /\ Disagreeing(vs) = {} <=> ~Split(life, n, id)
           /\ made # id - 1 => Split(life, n, id)
           /\ Finished(last_consensus_epoch[n], vs) = SharedAt(life, id).final
           /\ SharedAt(life, id).final \subseteq DOMAIN vs
<1> DEFINE before == Determined(life)[id - 1]
           first == before.finished + 1
<1>1. /\ id \in (life.epoch + 1)..Len(life.order) /\ LifeOK(life)
      /\ life.epoch \in Nat /\ Len(life.order) \in Nat /\ id \in Nat
      /\ id - 1 \in life.epoch..Len(life.order) /\ id \in 0..Len(life.order)
      /\ id - 1 \in 0..Len(life.order)
      /\ MakesUpTo(life, n, made, id - 1)
  BY DEF ReadyFor, InStep, LifeOK
<1>2. /\ before.finished \in life.epoch..(id - 1) /\ first \in Nat
      /\ made \in life.epoch..(id - 1) /\ made \in Nat /\ first = before.finished + 1
      /\ before.finished \in Nat
  <2>1. StateOK(life, id - 1)
    BY <1>1, LifeDetermined
  <2> QED BY <1>1, <2>1 DEF StateOK, MakesUpTo
<1>3. \A e : ~Alike(life, e) /\ Disputed(life, n, e, id) => before.finished < e
  <2> SUFFICES ASSUME NEW e, ~Alike(life, e), Disputed(life, n, e, id)
               PROVE  before.finished < e
    OBVIOUS
  <2>1. StateOK(life, id - 1) /\ e \in (life.epoch + 1)..Len(life.order)
    BY <1>1, LifeDetermined, DisputeSplits
  <2>2. ~(e \in (life.epoch + 1)..before.finished)
    BY <2>1 DEF StateOK
  <2> QED BY <1>1, <1>2, <2>1, <2>2
<1> HIDE DEF before, first
<1>4. /\ DOMAIN vs = first..made
      /\ \A e \in DOMAIN vs : vs[e] = EntryAt(life, n, e, id, made)
  BY DEF ReadyFor, before, first
<1>5. ASSUME NEW e \in DOMAIN vs
      PROVE  /\ vs[e].votes = VotesOn(life, e, id)
             /\ vs[e].bullseye = DartAt(life, n, e)
             /\ vs[e].bullseye # None
  <2>1. e \in life.epoch..Len(life.order) /\ e <= made
    BY <1>1, <1>2, <1>4
  <2>2. DartAt(life, n, e) # None
    BY <1>1, <2>1, NodeOfLife
  <2>3. vs[e] = EntryAt(life, n, e, id, made)
    BY <1>4
  <2>4. EntryAt(life, n, e, id, made).votes = VotesOn(life, e, id)
    BY DEF EntryAt
  <2>5. EntryAt(life, n, e, id, made).bullseye = DartAt(life, n, e)
    BY <2>1 DEF EntryAt
  <2> QED BY <2>2, <2>3, <2>4, <2>5
<1>6. Disagreeing(vs) = {e \in DOMAIN vs : Disputed(life, n, e, id)}
  BY <1>5 DEF Disagreeing, Disputed
<1>7. ASSUME made # id - 1
      PROVE  \E e \in first..made : ~Alike(life, e) /\ Disputed(life, n, e, id)
  <2>1. PICK e \in (life.epoch + 1)..made :
            /\ Disputed(life, n, e, id - 1) /\ ~Alike(life, e)
    BY <1>1, <1>7, StuckDisputes
  <2>2. Disputed(life, n, e, id)
    <3>1. \A j \in 1..(id - 1) : j \in 1..id
      BY <1>1
    <3>2. VotesOn(life, e, id - 1) \subseteq VotesOn(life, e, id)
      BY <3>1 DEF VotesOn
    <3> QED BY <2>1, <3>2 DEF Disputed
  <2>3. before.finished < e
    BY <1>3, <2>1, <2>2
  <2> QED BY <1>1, <1>2, <2>1, <2>2, <2>3
<1>8. ASSUME Split(life, n, id)
      PROVE  \E e \in first..made : ~Alike(life, e) /\ Disputed(life, n, e, id)
  <2>1. CASE made # id - 1
    BY <1>7, <2>1
  <2>2. CASE made = id - 1
    <3>1. PICK e \in (life.epoch + 1)..(id - 1) :
              Disputed(life, n, e, id) /\ ~Alike(life, e)
      BY <1>1, <1>8, SplitDisputes
    <3>2. before.finished < e
      BY <1>3, <3>1
    <3> QED BY <1>1, <1>2, <2>2, <3>1, <3>2
  <2> QED BY <2>1, <2>2
<1>9. \A e : Disputed(life, n, e, id) => Split(life, n, id) /\ ~Alike(life, e)
  BY <1>1, DisputeSplits
<1>10. Disagreeing(vs) = {} <=> ~Split(life, n, id)
  BY <1>4, <1>6, <1>8, <1>9
<1>11. made # id - 1 => Split(life, n, id)
  BY <1>7, <1>9
<1> DEFINE Owners(k) == {v.owner : v \in VotesOn(life, k, id)}
<1>12. Finished(before.finished, vs) = FinishedBy(life, before.finished, id)
  <2>1. ASSUME NEW k \in DOMAIN vs
        PROVE  Signed(vs, k) <=> Owners(k) = Node
    BY <1>5 DEF Signed
  <2> HIDE DEF Owners
  <2>2. ASSUME NEW e \in Finished(before.finished, vs)
        PROVE  e \in FinishedBy(life, before.finished, id)
    <3>1. /\ e \in DOMAIN vs /\ \A d \in Disagreeing(vs) : e < d
          /\ \A k \in (before.finished + 1)..e : Signed(vs, k)
      BY DEF Finished, Reached
    <3>2. e \in (before.finished + 1)..(id - 1)
      BY <1>1, <1>2, <1>4, <3>1
    <3>3. ASSUME NEW k \in (before.finished + 1)..e
          PROVE  Alike(life, k) /\ Owners(k) = Node
      <4>1. k \in DOMAIN vs /\ ~(e < k) /\ k \in (life.epoch + 1)..Len(life.order)
        BY <1>1, <1>2, <1>4, <3>1
      <4>2. Owners(k) = Node
        BY <2>1, <3>1, <4>1
      <4>3. k \notin Disagreeing(vs)
        BY <3>1, <4>1
      <4>4. \A v \in VotesOn(life, k, id) : v.bullseye = DartAt(life, n, k)
        BY <1>6, <4>1, <4>3 DEF Disputed
      <4>5. ASSUME NEW m \in Node PROVE life.order[k].witnesses[m] = life.order[k].witnesses[n]
        <5>1. PICK v \in VotesOn(life, k, id) : v.owner = m
          BY <4>2 DEF Owners
        <5>2. PICK j \in 1..id : v \in life.order[j].votes
          BY DEF VotesOn
        <5>3. v.epoch = k
          BY DEF VotesOn
        <5>4. v.bullseye = DartAt(life, m, k)
          BY <1>1, <5>1, <5>2, <5>3, VotesOfLife
        <5> QED BY <1>1, <4>1, <4>4, <5>1, <5>4, BullseyesAlike
      <4> QED BY <4>2, <4>5 DEF Alike
    <3> QED BY <3>2, <3>3 DEF FinishedBy, Owners
  <2>3. ASSUME NEW e \in FinishedBy(life, before.finished, id)
        PROVE  e \in Finished(before.finished, vs)
    <3>1. /\ e \in (before.finished + 1)..(id - 1)
          /\ \A k \in (before.finished + 1)..e : Alike(life, k) /\ Owners(k) = Node
      BY DEF FinishedBy, Owners
    <3>2. \A d : d \in first..made /\ ~Alike(life, d) => e < d
      BY <1>1, <1>2, <3>1
    <3>3. e \in DOMAIN vs
      <4>1. CASE made = id - 1
        BY <1>2, <1>4, <3>1, <4>1
      <4>2. CASE made # id - 1
        <5>1. PICK d \in first..made : ~Alike(life, d)
          BY <1>7, <4>2
        <5> QED BY <1>2, <1>4, <3>1, <3>2, <5>1
      <4> QED BY <4>1, <4>2
    <3>4. e \in Reached(vs)
      BY <1>4, <1>6, <1>9, <3>2, <3>3 DEF Reached
    <3>5. \A k \in (before.finished + 1)..e : k \in DOMAIN vs
      BY <1>1, <1>2, <1>4, <3>1, <3>3
    <3>6. before.finished < e
      BY <1>2, <3>1
    <3> QED BY <2>1, <3>1, <3>4, <3>5, <3>6 DEF Finished
  <2> QED BY <2>2, <2>3
<1>13. last_consensus_epoch[n] = before.finished
  BY DEF ReadyFor, before
<1>14. SharedAt(life, id).final = FinishedBy(life, before.finished, id)
  BY DEF SharedAt, RecorderOf, before
<1>15. Finished(before.finished, vs) \subseteq DOMAIN vs
  BY DEF Finished, Reached
<1> QED BY <1>10, <1>11, <1>12, <1>13, <1>14, <1>15

\* When the products of an epoch are there, what is executed depends on nothing else.
LEMMA ExecutedReady ==
    ASSUME NEW cs, NEW id, NEW absent, NEW ready, NEW all,
           \A i \in DOMAIN cs : cs[i] \in ready /\ cs[i] \in all
    PROVE  Executed(cs, id, absent, ready) = Executed(cs, id, absent, all)
<1> DEFINE Step(t, i) ==
               /\ Inputs[cs[i]] \cap absent = {}
               /\ \A j \in 1..(i - 1) : t[j] => Inputs[cs[i]] \cap Inputs[cs[j]] = {}
               /\ cs[i] \in ready
               /\ EarliestEpoch[cs[i]] <= id
           Step2(t, i) ==
               /\ Inputs[cs[i]] \cap absent = {}
               /\ \A j \in 1..(i - 1) : t[j] => Inputs[cs[i]] \cap Inputs[cs[j]] = {}
               /\ cs[i] \in all
               /\ EarliestEpoch[cs[i]] <= id
           taken == CHOOSE t : t = [i \in DOMAIN cs |-> Step(t, i)]
           taken2 == CHOOSE t : t = [i \in DOMAIN cs |-> Step2(t, i)]
<1>1. Executed(cs, id, absent, ready) = {cs[i] : i \in {j \in DOMAIN cs : taken[j]}}
  BY DEF Executed
<1>2. Executed(cs, id, absent, all) = {cs[i] : i \in {j \in DOMAIN cs : taken2[j]}}
  BY DEF Executed
<1>3. ASSUME NEW t, NEW i \in DOMAIN cs PROVE Step(t, i) = Step2(t, i)
  <2>1. (cs[i] \in ready) = TRUE /\ (cs[i] \in all) = TRUE
    OBVIOUS
  <2> QED BY <2>1
<1> HIDE DEF Step, Step2
<1>4. ASSUME NEW t PROVE [i \in DOMAIN cs |-> Step(t, i)] = [i \in DOMAIN cs |-> Step2(t, i)]
  BY <1>3
<1>5. taken = taken2
  BY <1>4
<1> QED BY <1>1, <1>2, <1>5

\* A sequence that has the elements of two others, one after the other.
LEMMA ConcatIs ==
    ASSUME NEW S, NEW s \in Seq(S), NEW t \in Seq(S), NEW u \in Seq(S),
           Len(u) = Len(s) + Len(t),
           \A i \in 1..Len(s) : u[i] = s[i], \A i \in 1..Len(t) : u[Len(s) + i] = t[i]
    PROVE  s \o t = u
<1> DEFINE x == Len(s)
           y == Len(t)
<1>1. x \in Nat /\ y \in Nat
  OBVIOUS
<1>2. /\ s \o t \in Seq(S) /\ Len(s \o t) = x + y
      /\ \A i \in 1..x : (s \o t)[i] = s[i]
      /\ \A i \in 1..y : (s \o t)[x + i] = t[i]
  BY ConcatAt
<1> HIDE DEF x, y
<1>3. ASSUME NEW j \in 1..(x + y) PROVE (s \o t)[j] = u[j]
  <2>1. CASE j \in 1..x
    BY <1>2, <2>1 DEF x
  <2>2. CASE j \notin 1..x
    <3> DEFINE i == j - x
    <3>1. i \in 1..y /\ j = x + i
      BY <1>1, <2>2
    <3>2. u[x + i] = t[i]
      BY <3>1 DEF x, y
    <3> HIDE DEF i
    <3> QED BY <1>2, <3>1, <3>2
  <2> QED BY <2>1, <2>2
<1>4. Len(u) = x + y
  BY DEF x, y
<1> QED BY <1>2, <1>3, <1>4

\* The Epoch records of the epochs that are finished continue the chain.
LEMMA ChainContinues ==
    ASSUME NEW life, LifeOK(life), NEW n, NEW f \in Nat, NEW k \in Nat, life.epoch <= f,
           NEW vs,
           \A e \in (f + 1)..(f + k) : /\ vs[e].bullseye = DartAt(life, n, e)
                                       /\ vs[e].recorder_block = LogTo(life, n, e)
    PROVE  ChainTo(life, n, f) \o Chained(f, vs, k) = ChainTo(life, n, f + k)
<1> DEFINE a == life.epoch
           x == f - a
           S == {EpochAt(life, n, i) : i \in Nat}
<1>1. a \in Nat /\ x \in Nat
  BY DEF LifeOK
<1>2. PICK old : old = ChainTo(life, n, f)
  OBVIOUS
<1>3. PICK new : new = Chained(f, vs, k)
  OBVIOUS
<1>4. PICK all : all = ChainTo(life, n, f + k)
  OBVIOUS
<1>5. old \in Seq(S) /\ Len(old) = x /\ \A j \in 1..x : old[j] = EpochAt(life, n, a + j)
  <2>1. old \in [1..x -> S]
    BY <1>1, <1>2 DEF ChainTo
  <2>2. Len(old) = x /\ old \in Seq(S)
    BY <1>1, <2>1
  <2> QED BY <1>2, <2>2 DEF ChainTo
<1>6. all \in Seq(S) /\ Len(all) = x + k /\ \A j \in 1..(x + k) : all[j] = EpochAt(life, n, a + j)
  <2>1. x + k \in Nat /\ (f + k) - a = x + k
    BY <1>1
  <2>2. all = [j \in 1..(x + k) |-> EpochAt(life, n, a + j)]
    BY <1>4, <2>1 DEF ChainTo
  <2>3. \A j \in 1..(x + k) : a + j \in Nat
    BY <1>1
  <2>4. all \in [1..(x + k) -> S]
    BY <2>2, <2>3
  <2>5. Len(all) = x + k /\ all \in Seq(S)
    BY <2>1, <2>4
  <2> QED BY <2>2, <2>5
<1>7. new \in Seq(S) /\ Len(new) = k /\ \A j \in 1..k : new[j] = EpochAt(life, n, f + j)
  <2>1. \A j \in 1..k : f + j \in (f + 1)..(f + k) /\ f + j \in Nat
    OBVIOUS
  <2>2. \A j \in 1..k : new[j] = EpochAt(life, n, f + j)
    BY <1>3, <2>1 DEF Chained, EpochAt
  <2>3. new \in [1..k -> S]
    BY <1>3, <2>1, <2>2 DEF Chained
  <2> QED BY <2>2, <2>3
<1>8. /\ \A j \in 1..x : j \in 1..(x + k)
      /\ \A j \in 1..k : x + j \in 1..(x + k) /\ a + (x + j) = f + j
  BY <1>1
<1>9. /\ \A j \in 1..x : all[j] = old[j]
      /\ \A j \in 1..k : all[x + j] = new[j]
  BY <1>5, <1>6, <1>7, <1>8
<1> HIDE DEF x, S
<1>10. old \o new = all
  <2>1. Len(all) = Len(old) + Len(new)
    BY <1>5, <1>6, <1>7
  <2>2. \A i \in 1..Len(old) : all[i] = old[i]
    BY <1>5, <1>9
  <2>3. \A i \in 1..Len(new) : all[Len(old) + i] = new[i]
    BY <1>5, <1>7, <1>9
  <2> QED BY <1>5, <1>6, <1>7, <2>1, <2>2, <2>3, ConcatIs
<1> QED BY <1>2, <1>3, <1>4, <1>10

\* What is used of an epoch of a life.
LEMMA EpochOfLife ==
    ASSUME NEW life, LifeOK(life), NEW i \in (life.epoch + 1)..Len(life.order)
    PROVE  /\ life.epoch \in Nat /\ Len(life.order) \in Nat /\ i \in Nat /\ life.epoch < i
           /\ i <= Len(life.order) /\ i \in DOMAIN life.order
           /\ life.order[i].contracts \in Seq(Contract)
           /\ i - 1 \in life.epoch..Len(life.order)
           /\ StateOK(life, i - 1) /\ StateOK(life, i) /\ RecorderOK(life, i)
<1>1. /\ life.epoch \in Nat /\ Len(life.order) \in Nat
      /\ life.order \in Seq(ConsensusEpoch)
  BY DEF LifeOK
<1>2. i \in Nat /\ life.epoch < i /\ i <= Len(life.order)
  BY <1>1
<1>3. i \in DOMAIN life.order
  BY <1>1, <1>2
<1>4. life.order[i].contracts \in Seq(Contract)
  <2>1. life.order[i] \in ConsensusEpoch
    BY <1>1, <1>3
  <2> QED BY <2>1 DEF ConsensusEpoch
<1>5. i - 1 \in life.epoch..Len(life.order) /\ i \in life.epoch..Len(life.order)
  BY <1>1, <1>2
<1>6. StateOK(life, i - 1)
  BY <1>5, LifeDetermined
<1>7. StateOK(life, i) /\ RecorderOK(life, i)
  BY <1>5, LifeDetermined
<1> QED BY <1>1, <1>2, <1>3, <1>4, <1>5, <1>6, <1>7

\* The contracts that a recorder executes are those of its epoch.
LEMMA AddsOfEpoch ==
    ASSUME NEW life, LifeOK(life), NEW n \in Node,
           NEW i \in (life.epoch + 1)..Len(life.order)
    PROVE  RecorderAt(life, n, i).adds \subseteq ContractsOf(life, i)
<1> DEFINE state == Determined(life)[i - 1]
           cs == life.order[i].contracts
           absent == InputsOf(cs) \ state.dart.bills
<1>1. cs \in Seq(Contract)
  BY EpochOfLife
<1>2. RecorderAt(life, n, i).adds = Executed(cs, i, absent, Contract)
  <2>1. PICK r : r = RecorderAt(life, n, i)
    OBVIOUS
  <2>2. r.adds = SharedAt(life, i).adds
    BY <2>1, RecorderOfNode
  <2> QED BY <2>1, <2>2 DEF SharedAt, RecorderOf
<1> HIDE DEF absent
<1>3. \A c \in Executed(cs, i, absent, Contract) : \E j \in DOMAIN cs : c = cs[j]
  BY <1>1, ExecutedSpends
<1> QED BY <1>2, <1>3 DEF ContractsOf

(* What a node in step does when it makes the recorder of epoch id, *)
Makes(life, n, id, ecs) ==
    LET finished == Determined(life)[id].finished
        r == RecorderAt(life, n, id)
    IN  /\ MakesUpTo(life, n, id, id)
        /\ last_consensus_epoch' = [last_consensus_epoch EXCEPT ![n] = finished]
        /\ previous_epoch' = [previous_epoch EXCEPT ![n] = ChainTo(life, n, finished)]
        /\ votes' = [votes EXCEPT ![n] =
               [e \in (finished + 1)..id |-> EntryAt(life, n, e, id, id - 1)]]
        /\ epoch_contracts' = [epoch_contracts EXCEPT ![n] = Without(ecs, {id})]
        /\ products' = [products EXCEPT ![n] = @ \ r.adds]
        /\ last_globals' =
               [last_globals EXCEPT ![n] = @ + Cardinality(r.adds) - Cardinality(r.removes)]
        /\ commits' = [commits EXCEPT ![n] = Append(@, Request(life, n, id))]
        /\ running' = running

(* and when a vote disagrees. *)
Throws(life, n, id, made, ecs) ==
    LET finished == Determined(life)[id].finished
    IN  /\ MakesUpTo(life, n, made, id) /\ made # id
        /\ last_consensus_epoch' = [last_consensus_epoch EXCEPT ![n] = finished]
        /\ previous_epoch' = [previous_epoch EXCEPT ![n] = ChainTo(life, n, finished)]
        /\ votes' = [votes EXCEPT ![n] =
               [e \in (finished + 1)..made |-> EntryAt(life, n, e, id, made)]]
        /\ epoch_contracts' = [epoch_contracts EXCEPT ![n] = ecs]
        /\ UNCHANGED <<products, last_globals, commits, running>>

\* createRecorder makes the recorder that the order determines, or none.
LEMMA MakesDetermined ==
    ASSUME NEW life, InStep(life), NEW n \in Node, NEW id, NEW made, NEW absent, NEW vs,
           NEW ecs, ReadyFor(life, n, id, made, absent, vs, ecs),
           createRecorder(n, id, absent, vs, ecs)
    PROVE  \/ made = id - 1 /\ Makes(life, n, id, ecs)
           \/ Throws(life, n, id, made, ecs)
<1> DEFINE before == Determined(life)[id - 1]
           old == before.finished
           after == Determined(life)[id]
           new == after.finished
           shared == SharedAt(life, id)
           r == RecorderAt(life, n, id)
           F == Finished(last_consensus_epoch[n], vs)
           exec == Executed(ecs[id].contracts, id, absent, products[n])
<1>1. /\ id \in (life.epoch + 1)..Len(life.order) /\ LifeOK(life)
      /\ life.epoch \in Nat /\ Len(life.order) \in Nat /\ id \in Nat /\ id # 0
      /\ id - 1 \in life.epoch..Len(life.order) /\ id \in 0..Len(life.order)
      /\ id - 1 \in Nat
      /\ DOMAIN last_consensus_epoch = Node /\ DOMAIN previous_epoch = Node
      /\ DOMAIN votes = Node
  BY DEF ReadyFor, InStep, LifeOK, PerNode
<1>2. RecorderOK(life, id) /\ StateOK(life, id - 1)
  BY <1>1, LifeDetermined
<1>3. /\ Disagreeing(vs) = {} <=> ~Split(life, n, id)
      /\ made # id - 1 => Split(life, n, id)
      /\ F = shared.final /\ F \subseteq DOMAIN vs
  BY FinishesDetermined
<1>4. /\ shutdown[n] = 0 /\ id \in DOMAIN ecs
      /\ last_consensus_epoch[n] = old /\ previous_epoch[n] = ChainTo(life, n, old)
      /\ vs = [e \in (old + 1)..made |-> EntryAt(life, n, e, id, made)]
      /\ MakesUpTo(life, n, made, id - 1) /\ made \in Nat /\ made < id
  <2>1. MakesUpTo(life, n, made, id - 1)
    BY DEF ReadyFor
  <2>2. made \in Nat /\ made < id
    BY <1>1, <2>1 DEF MakesUpTo
  <2> QED BY <1>1, <2>1, <2>2 DEF ReadyFor
<1>5. \/ Split(life, n, id) /\ ThrowFromRecorder(n, F, vs, ecs)
      \/ ~Split(life, n, id) /\ CommitEpoch(n, id, absent, F, vs, ecs)
  BY <1>3, <1>4 DEF createRecorder
<1>6. /\ old \in Nat /\ new \in Nat /\ life.epoch <= old /\ Cardinality(F) \in Nat
      /\ new = old + Cardinality(F) /\ F = (old + 1)..new /\ new < id
  <2>1. old \in life.epoch..(id - 1)
    BY <1>2 DEF StateOK
  <2>2. old \in Nat /\ life.epoch <= old
    BY <1>1, <2>1
  <2>3. /\ shared.final = (old + 1)..new /\ new = old + Cardinality(shared.final)
        /\ Cardinality(shared.final) \in Nat /\ new < id
    BY <1>2 DEF RecorderOK
  <2> HIDE DEF old, new, shared, F
  <2> QED BY <1>3, <2>2, <2>3
<1>7. made = id - 1 => exec = shared.adds
  <2> SUFFICES ASSUME made = id - 1 PROVE exec = shared.adds
    OBVIOUS
  <2> DEFINE cs == life.order[id].contracts
  <2>1. /\ ecs[id].contracts = cs /\ absent = InputsOf(cs) \ before.dart.bills
        /\ \A j \in DOMAIN cs : cs[j] \in products[n]
    <3>1. DartAt(life, n, made).bills = before.dart.bills
      BY <1>1, NodeOfLife
    <3>2. ecs[id] = WaitingAt(life, n, id)
      BY <1>1, <1>4 DEF ReadyFor
    <3> QED BY <3>1, <3>2 DEF ReadyFor, ContractsOf, WaitingAt
  <2>2. cs \in Seq(Contract)
    BY <1>1, EpochOfLife
  <2>3. \A j \in DOMAIN cs : cs[j] \in Contract
    BY <2>2
  <2>4. shared.adds = Executed(cs, id, absent, Contract)
    BY <2>1 DEF SharedAt, RecorderOf
  <2> HIDE DEF cs
  <2>5. Executed(cs, id, absent, products[n]) = Executed(cs, id, absent, Contract)
    BY <2>1, <2>3, ExecutedReady
  <2> QED BY <2>1, <2>4, <2>5
<1>8. made = id - 1 =>
          /\ r.adds = exec /\ r.removes = UNION {Inputs[c] : c \in exec}
          /\ r = [head |-> id, open |-> {id}, final |-> F, adds |-> exec,
                  removes |-> UNION {Inputs[c] : c \in exec},
                  witnesses |-> {[epoch |-> id, witnesses |-> ecs[id].witnesses]}]
  <2> SUFFICES ASSUME made = id - 1
               PROVE  r = [head |-> id, open |-> {id}, final |-> F, adds |-> exec,
                           removes |-> UNION {Inputs[c] : c \in exec},
                           witnesses |-> {[epoch |-> id, witnesses |-> ecs[id].witnesses]}]
    OBVIOUS
  <2>1. r = [head |-> id, open |-> {id}, final |-> shared.final, adds |-> shared.adds,
             removes |-> shared.removes,
             witnesses |-> {[epoch |-> id, witnesses |-> life.order[id].witnesses[n]]}]
    BY <1>1, RecorderOfNode
  <2>2. shared.removes = UNION {Inputs[c] : c \in shared.adds}
    BY DEF SharedAt, RecorderOf
  <2>3. ecs[id].witnesses = life.order[id].witnesses[n]
    <3>1. ecs[id] = WaitingAt(life, n, id)
      BY <1>1, <1>4 DEF ReadyFor
    <3> QED BY <3>1 DEF WaitingAt
  <2> HIDE DEF r, shared, F, exec
  <2> QED BY <1>3, <1>7, <2>1, <2>2, <2>3
<1> HIDE DEF before, old, after, new, r, F, exec, shared
<1>9. InChain(n, id)
  BY <1>4 DEF InChain
<1>10. FinishEpochs(n, F, vs)
  BY <1>5 DEF CommitEpoch, ThrowFromRecorder
<1>11. last_consensus_epoch' = [last_consensus_epoch EXCEPT ![n] = new]
  BY <1>4, <1>6, <1>10 DEF FinishEpochs
<1>12. previous_epoch' = [previous_epoch EXCEPT ![n] = ChainTo(life, n, new)]
  <2>1. PICK k : k = Cardinality(F)
    OBVIOUS
  <2>2. k \in Nat /\ old \in Nat /\ life.epoch <= old /\ LifeOK(life)
    BY <1>1, <1>6, <2>1
  <2>3. \A e \in (old + 1)..(old + k) : /\ vs[e].bullseye = DartAt(life, n, e)
                                        /\ vs[e].recorder_block = LogTo(life, n, e)
    <3> TAKE e \in (old + 1)..(old + k)
    <3>1. e \in DOMAIN vs
      BY <1>3, <1>6, <2>1
    <3>2. e \in (old + 1)..made /\ e <= made
      BY <1>4, <1>6, <3>1
    <3>3. vs[e] = EntryAt(life, n, e, id, made)
      BY <1>4, <3>2
    <3> QED BY <3>2, <3>3 DEF EntryAt
  <2>4. ChainTo(life, n, old) \o Chained(old, vs, k) = ChainTo(life, n, old + k)
    BY <2>2, <2>3, ChainContinues
  <2> QED BY <1>4, <1>6, <1>10, <2>1, <2>4 DEF FinishEpochs
<1>13. Without(vs, F) = [e \in (new + 1)..made |-> EntryAt(life, n, e, id, made)]
  <2>1. \A e \in Int : e \in (old + 1)..made /\ e \notin (old + 1)..new
                           <=> e \in (new + 1)..made
    BY <1>4, <1>6
  <2>2. ((old + 1)..made) \ F = (new + 1)..made
    <3>1. (old + 1)..made \subseteq Int /\ (new + 1)..made \subseteq Int
      BY <1>4, <1>6
    <3>2. F = (old + 1)..new
      BY <1>6
    <3> QED BY <2>1, <3>1, <3>2, Zenon
  <2>3. DOMAIN vs = (old + 1)..made
        /\ \A e \in DOMAIN vs : vs[e] = EntryAt(life, n, e, id, made)
    BY <1>4
  <2> QED BY <2>2, <2>3 DEF Without
<1>14. CASE Split(life, n, id)
  <2>1. ThrowFromRecorder(n, F, vs, ecs)
    BY <1>5, <1>14
  <2>2. MakesUpTo(life, n, made, id) /\ made # id
    <3>1. made \in life.epoch..id /\ made # id /\ (made < id - 1 \/ made + 1 = id)
      BY <1>1, <1>4 DEF MakesUpTo
    <3> QED BY <1>4, <1>14, <3>1 DEF MakesUpTo
  <2>3. /\ votes' = [votes EXCEPT ![n] =
               [e \in (new + 1)..made |-> EntryAt(life, n, e, id, made)]]
        /\ epoch_contracts' = [epoch_contracts EXCEPT ![n] = ecs]
        /\ UNCHANGED <<products, last_globals, commits, running>>
    BY <1>13, <2>1 DEF ThrowFromRecorder
  <2> QED BY <1>11, <1>12, <2>2, <2>3 DEF Throws, new, after
<1>15. CASE ~Split(life, n, id)
  <2>1. CommitEpoch(n, id, absent, F, vs, ecs) /\ made = id - 1
    BY <1>3, <1>5, <1>15
  <2>2. MakesUpTo(life, n, id, id)
    BY <1>1, <1>15 DEF MakesUpTo
  <2>3. VoteOpened(n, id, Without(vs, F)) =
            [e \in (new + 1)..id |-> EntryAt(life, n, e, id, id - 1)]
    <3>1. VotesOn(life, id, id) = {}
      <4>1. \A j \in 1..id : \A v \in life.order[j].votes : v.epoch # id
        <5> TAKE j \in 1..id
        <5> TAKE v \in life.order[j].votes
        <5>1. v.epoch < j /\ j <= id /\ v.epoch \in Nat /\ j \in Nat
          BY <1>1, VotesOfLife
        <5> QED BY <1>1, <5>1
      <4> QED BY <4>1 DEF VotesOn
    <3>2. EntryAt(life, n, id, id, id - 1) = NewVotes
      <4>1. ~(id <= id - 1)
        BY <1>1
      <4> QED BY <3>1, <4>1, Zenon DEF EntryAt, NewVotes
    <3>3. ((new + 1)..(id - 1)) \cup {id} = (new + 1)..id
      BY <1>1, <1>6
    <3>4. \A e \in (new + 1)..id : e # id => e \in (new + 1)..(id - 1)
      BY <1>1, <1>6
    <3> QED BY <1>13, <2>1, <3>2, <3>3, <3>4 DEF VoteOpened, With
  <2>4. Request(life, n, id) = [id |-> id, recorder |-> r]
    BY DEF Request, r
  <2>5. /\ votes' = [votes EXCEPT ![n] =
               [e \in (new + 1)..id |-> EntryAt(life, n, e, id, id - 1)]]
        /\ epoch_contracts' = [epoch_contracts EXCEPT ![n] = Without(ecs, {id})]
        /\ running' = running
    BY <2>1, <2>3 DEF CommitEpoch
  <2>6. /\ products' = [products EXCEPT ![n] = @ \ r.adds]
        /\ last_globals' =
               [last_globals EXCEPT ![n] = @ + Cardinality(r.adds) - Cardinality(r.removes)]
        /\ commits' = [commits EXCEPT ![n] = Append(@, Request(life, n, id))]
    BY <1>8, <1>9, <2>1, <2>4 DEF CommitEpoch, exec
  <2> QED BY <1>11, <1>12, <2>1, <2>2, <2>5, <2>6 DEF Makes, new, after, r
<1> QED BY <1>14, <1>15

(***************************************************************************)
(* What the steps of a node do to its stage                                *)
(***************************************************************************)
(* What InStage sees of node n. *)
StageView(n) ==
    <<running[n], shutdown[n], last_epoch_number[n], last_consensus_epoch[n],
      previous_epoch[n], votes[n], epoch_contracts[n], produced[n], products[n],
      dart[n], last_block[n], dart_box[n], checked[n], commits[n], committing[n],
      bullseyes[n]>>

StageOthersKept(n) == \A m \in Node \ {n} : UNCHANGED StageView(m)

\* A node of which nothing changes stays in its stage.
LEMMA StageKept ==
    ASSUME NEW life, NEW n, NEW stage, NEW made, InStage(life, n, stage, made),
           UNCHANGED StageView(n)
    PROVE  InStage(life, n, stage, made)'
<1>1. /\ running'[n] = running[n] /\ shutdown'[n] = shutdown[n]
      /\ last_epoch_number'[n] = last_epoch_number[n]
      /\ last_consensus_epoch'[n] = last_consensus_epoch[n]
      /\ previous_epoch'[n] = previous_epoch[n] /\ votes'[n] = votes[n]
      /\ epoch_contracts'[n] = epoch_contracts[n]
      /\ produced'[n] = produced[n] /\ products'[n] = products[n]
      /\ dart'[n] = dart[n] /\ last_block'[n] = last_block[n]
      /\ dart_box'[n] = dart_box[n] /\ checked'[n] = checked[n] /\ commits'[n] = commits[n]
      /\ committing'[n] = committing[n] /\ bullseyes'[n] = bullseyes[n]
  BY DEF StageView
<1>2. ASSUME NEW taken, NEW called, NEW known, TranscriptAt(life, n, taken, called, made, known)
      PROVE  TranscriptAt(life, n, taken, called, made, known)'
  BY <1>1, <1>2 DEF TranscriptAt
<1>3. ASSUME NEW stored, NEW logged, StorageAt(life, n, stored, logged)
      PROVE  StorageAt(life, n, stored, logged)'
  BY <1>1, <1>3 DEF StorageAt
<1>4. ASSUME NEW e, MessageAt(life, n, stage, e) PROVE MessageAt(life, n, stage, e)'
  BY <1>1, <1>4 DEF MessageAt
<1> QED BY <1>1, <1>2, <1>3, <1>4 DEF InStage

\* The services behind the transcript leave it alone.
TranscriptView(n) ==
    <<running[n], shutdown[n], last_epoch_number[n], last_consensus_epoch[n],
      previous_epoch[n], votes[n], epoch_contracts[n], produced[n], products[n]>>

LEMMA TranscriptKept ==
    ASSUME NEW life, NEW n, NEW taken, NEW called, NEW made, NEW known,
           TranscriptAt(life, n, taken, called, made, known), UNCHANGED TranscriptView(n)
    PROVE  TranscriptAt(life, n, taken, called, made, known)'
BY DEF TranscriptAt, TranscriptView

\* A mailbox with one message.
LEMMA OneMessage ==
    ASSUME NEW x
    PROVE  Head(<<x>>) = x /\ Tail(<<x>>) = <<>> /\ Append(<<>>, x) = <<x>> /\ <<x>> # <<>>
OBVIOUS

\* checkRead answers what was asked.
LEMMA CheckReadStage ==
    ASSUME NEW life, InStep(life), NEW n \in Node, NEW stage \in Stage,
           NEW made, InStage(life, n, stage, made), checkRead(n)
    PROVE  InStage(life, n, "answered", made)' /\ StageOthersKept(n)
<1>1. PICK taken : taken = last_epoch_number[n]
  OBVIOUS
<1>2. PICK inputs : inputs = InputsOf(life.order[taken].contracts)
  OBVIOUS
<1>3. stage = "asked"
  <2>1. MessageAt(life, n, stage, taken)
    BY <1>1 DEF InStage
  <2>2. dart_box[n] # <<>> /\ Head(dart_box[n]).method = "checkRead"
    BY DEF checkRead
  <2>3. stage \in {"asked", "storing"}
    BY <2>1, <2>2 DEF MessageAt
  <2>4. CASE stage = "storing"
    BY <2>1, <2>2, <2>4 DEF MessageAt
  <2> QED BY <2>3, <2>4
<1>4. /\ taken \in life.epoch..Len(life.order) /\ taken - 1 \in life.epoch..taken
      /\ TranscriptAt(life, n, taken, taken - 1, made, made)
      /\ StorageAt(life, n, made, made)
      /\ MessageAt(life, n, "asked", taken) /\ MakesUpTo(life, n, made, taken - 1)
  BY <1>1, <1>3 DEF InStage, Recorded
<1>5. UNCHANGED TranscriptView(n) /\ StageOthersKept(n)
  BY DEF checkRead, networkVars, votingVars, executionVars, storageVars, TranscriptView,
         StageOthersKept, StageView
<1>6. /\ dart_box'[n] = Tail(dart_box[n])
      /\ checked'[n] = Append(checked[n], [id |-> Head(dart_box[n]).id,
             not_in_dart |-> Head(dart_box[n]).inputs \ dart[n].bills])
      /\ UNCHANGED <<commits, committing, bullseyes, dart, last_block, last_epoch_number>>
  BY DEF checkRead, storageVars, InStep, PerNode
<1>7. /\ dart_box[n] = <<[method |-> "checkRead", id |-> taken, inputs |-> inputs]>>
      /\ checked[n] = <<>> /\ commits[n] = <<>> /\ committing[n] = None /\ bullseyes[n] = <<>>
  BY <1>2, <1>4 DEF MessageAt
<1>8. dart_box'[n] = <<>> /\ checked'[n] = <<[id |-> taken, not_in_dart |-> inputs \ dart[n].bills]>>
  <2>1. Head(dart_box[n]) = [method |-> "checkRead", id |-> taken, inputs |-> inputs]
    BY <1>7, OneMessage, Zenon
  <2>2. Tail(dart_box[n]) = <<>>
    BY <1>7, OneMessage, Zenon
  <2>3. Head(dart_box[n]).id = taken /\ Head(dart_box[n]).inputs = inputs
    BY <2>1
  <2> QED BY <1>6, <1>7, <2>2, <2>3, OneMessage, Zenon
<1>9. MessageAt(life, n, "answered", taken)'
  BY <1>2, <1>6, <1>7, <1>8 DEF MessageAt
<1>10. TranscriptAt(life, n, taken, taken - 1, made, made)'
  BY <1>4, <1>5, TranscriptKept
<1>11. StorageAt(life, n, made, made)'
  BY <1>4, <1>6 DEF StorageAt
<1>12. last_epoch_number'[n] = taken
  BY <1>1, <1>6
<1>13. InStage(life, n, "answered", made)'
  BY <1>4, <1>9, <1>10, <1>11, <1>12 DEF InStage, Recorded
<1> QED BY <1>5, <1>13

\* epoch_commit takes the recorder to the DART.
LEMMA CommitStage ==
    ASSUME NEW life, InStep(life), NEW n \in Node, NEW stage \in Stage,
           NEW made, InStage(life, n, stage, made), epoch_commit(n)
    PROVE  InStage(life, n, "storing", made)' /\ StageOthersKept(n)
<1>1. PICK taken : taken = last_epoch_number[n]
  OBVIOUS
<1>2. stage = "recorded"
  <2>1. MessageAt(life, n, stage, taken)
    BY <1>1 DEF InStage
  <2>2. commits[n] # <<>>
    BY DEF epoch_commit
  <2> QED BY <2>1, <2>2 DEF MessageAt
<1>3. /\ taken \in life.epoch..Len(life.order) /\ taken - 1 \in life.epoch..taken
      /\ TranscriptAt(life, n, taken, taken, made, taken - 1)
      /\ StorageAt(life, n, taken - 1, taken - 1)
      /\ MessageAt(life, n, "recorded", taken) /\ MakesUpTo(life, n, made, taken) /\ made = taken
  BY <1>1, <1>2 DEF InStage, Recorded
<1>4. UNCHANGED TranscriptView(n) /\ StageOthersKept(n)
  BY DEF epoch_commit, networkVars, votingVars, executionVars, TranscriptView,
         StageOthersKept, StageView
<1>5. /\ commits'[n] = Tail(commits[n])
      /\ committing'[n] = [id |-> Head(commits[n]).id, recorder |-> Head(commits[n]).recorder,
                           at |-> "dart"]
      /\ dart_box'[n] = Append(dart_box[n],
             [method |-> "modify", recorder |-> Head(commits[n]).recorder])
      /\ UNCHANGED <<checked, bullseyes, dart, last_block, last_epoch_number>>
  BY DEF epoch_commit, InStep, PerNode
<1>6. /\ commits[n] = <<Request(life, n, taken)>>
      /\ dart_box[n] = <<>> /\ checked[n] = <<>> /\ bullseyes[n] = <<>>
  BY <1>3 DEF MessageAt
<1>7. /\ commits'[n] = <<>>
      /\ committing'[n] = [id |-> taken, recorder |-> RecorderAt(life, n, taken), at |-> "dart"]
      /\ dart_box'[n] = <<[method |-> "modify", recorder |-> RecorderAt(life, n, taken)]>>
  <2>1. Head(commits[n]) = Request(life, n, taken) /\ Tail(commits[n]) = <<>>
    BY <1>6, OneMessage, Zenon
  <2>2. Head(commits[n]).id = taken /\ Head(commits[n]).recorder = RecorderAt(life, n, taken)
    BY <2>1 DEF Request
  <2> QED BY <1>5, <1>6, <2>1, <2>2, OneMessage, Zenon
<1>8. MessageAt(life, n, "storing", taken)'
  BY <1>5, <1>6, <1>7 DEF MessageAt
<1>9. TranscriptAt(life, n, taken, taken, made, taken - 1)'
  BY <1>3, <1>4, TranscriptKept
<1>10. StorageAt(life, n, taken - 1, taken - 1)' /\ last_epoch_number'[n] = taken
  BY <1>1, <1>3, <1>5 DEF StorageAt
<1>11. InStage(life, n, "storing", made)'
  BY <1>3, <1>8, <1>9, <1>10 DEF InStage, Recorded
<1> QED BY <1>4, <1>11

\* modifyDART makes the DART that the order determines.
LEMMA ModifyStage ==
    ASSUME NEW life, InStep(life), NEW n \in Node, NEW stage \in Stage,
           NEW made, InStage(life, n, stage, made), modifyDART(n)
    PROVE  InStage(life, n, "stored", made)' /\ StageOthersKept(n)
<1>1. PICK taken : taken = last_epoch_number[n]
  OBVIOUS
<1>2. stage = "storing"
  <2>1. MessageAt(life, n, stage, taken)
    BY <1>1 DEF InStage
  <2>2. dart_box[n] # <<>> /\ Head(dart_box[n]).method = "modify"
    BY DEF modifyDART
  <2>3. stage \in {"asked", "storing"}
    BY <2>1, <2>2 DEF MessageAt
  <2>4. CASE stage = "asked"
    BY <2>1, <2>2, <2>4 DEF MessageAt
  <2> QED BY <2>3, <2>4
<1>3. /\ taken \in life.epoch..Len(life.order) /\ taken - 1 \in life.epoch..taken
      /\ TranscriptAt(life, n, taken, taken, made, taken - 1)
      /\ StorageAt(life, n, taken - 1, taken - 1)
      /\ MessageAt(life, n, "storing", taken) /\ MakesUpTo(life, n, made, taken) /\ made = taken
  BY <1>1, <1>2 DEF InStage, Recorded
<1>4. UNCHANGED TranscriptView(n) /\ StageOthersKept(n)
  BY DEF modifyDART, networkVars, votingVars, executionVars, TranscriptView,
         StageOthersKept, StageView
<1>5. /\ dart_box'[n] = Tail(dart_box[n])
      /\ dart'[n] = modify(dart[n], Head(dart_box[n]).recorder)
      /\ committing'[n] = [committing[n] EXCEPT !.at = "replicator"]
      /\ UNCHANGED <<checked, commits, bullseyes, last_block, last_epoch_number>>
  BY DEF modifyDART, InStep, PerNode
<1>6. /\ dart_box[n] = <<[method |-> "modify", recorder |-> RecorderAt(life, n, taken)]>>
      /\ committing[n] = [id |-> taken, recorder |-> RecorderAt(life, n, taken), at |-> "dart"]
      /\ checked[n] = <<>> /\ commits[n] = <<>> /\ bullseyes[n] = <<>>
  BY <1>3 DEF MessageAt
<1>7. dart_box'[n] = <<>> /\ Head(dart_box[n]).recorder = RecorderAt(life, n, taken)
  <2>1. /\ Head(dart_box[n]) = [method |-> "modify", recorder |-> RecorderAt(life, n, taken)]
        /\ Tail(dart_box[n]) = <<>>
    BY <1>6, OneMessage, Zenon
  <2> QED BY <1>5, <2>1
<1>8. committing'[n] = [id |-> taken, recorder |-> RecorderAt(life, n, taken), at |-> "replicator"]
  BY <1>5, <1>6
<1>9. MessageAt(life, n, "stored", taken)'
  BY <1>5, <1>6, <1>7, <1>8 DEF MessageAt
<1>10. TranscriptAt(life, n, taken, taken, made, taken - 1)'
  BY <1>3, <1>4, TranscriptKept
<1>11. StorageAt(life, n, taken, taken - 1)' /\ last_epoch_number'[n] = taken
  <2>1. LifeOK(life) /\ taken \in (life.epoch + 1)..Len(life.order)
    BY <1>3 DEF InStep, LifeOK
  <2>2. PICK r : r = RecorderAt(life, n, taken)
    OBVIOUS
  <2>3. DartAt(life, n, taken) = modify(DartAt(life, n, taken - 1), r)
    BY <2>1, <2>2, RecorderOfNode
  <2>4. dart'[n] = DartAt(life, n, taken)
    BY <1>3, <1>5, <1>7, <2>2, <2>3 DEF StorageAt
  <2> QED BY <1>1, <1>3, <1>5, <2>4 DEF StorageAt
<1>12. InStage(life, n, "stored", made)'
  BY <1>3, <1>9, <1>10, <1>11 DEF InStage, Recorded
<1> QED BY <1>4, <1>12

\* The log to an epoch, and the block of the next one.
LEMMA LogContinues ==
    ASSUME NEW life, LifeOK(life), NEW n, NEW i \in (life.epoch + 1)..Len(life.order)
    PROVE  LogTo(life, n, i) = Append(LogTo(life, n, i - 1), BlockAt(life, n, i))
<1> DEFINE a == life.epoch
           k == (i - 1) - a
           S == {BlockAt(life, n, j) : j \in Nat}
<1>1. a \in Nat /\ k \in Nat /\ i \in Nat /\ i - a = k + 1 /\ a + (k + 1) = i
  BY EpochOfLife
<1>2. LogTo(life, n, i - 1) = [j \in 1..k |-> BlockAt(life, n, a + j)]
  BY <1>1 DEF LogTo
<1>3. LogTo(life, n, i) = [j \in 1..(k + 1) |-> BlockAt(life, n, a + j)]
  BY <1>1 DEF LogTo
<1>4. PICK old : old = LogTo(life, n, i - 1)
  OBVIOUS
<1>5. old \in Seq(S) /\ Len(old) = k /\ \A j \in 1..k : old[j] = BlockAt(life, n, a + j)
  <2>1. \A j \in 1..k : a + j \in Nat
    BY <1>1
  <2>2. old \in [1..k -> S]
    <3>1. \A j \in 1..k : BlockAt(life, n, a + j) \in S
      BY <2>1
    <3> HIDE DEF S, k
    <3> QED BY <1>2, <1>4, <3>1
  <2>3. old \in Seq(S) /\ Len(old) = k
    <3>1. k \in Nat
      BY <1>1
    <3> HIDE DEF S, k
    <3> QED BY <2>2, <3>1
  <2> QED BY <1>2, <1>4, <2>3
<1>6. PICK b : b = BlockAt(life, n, i)
  OBVIOUS
<1>7. b \in S
  BY <1>1, <1>6
<1>8. \A j \in 1..(k + 1) : IF j <= k THEN j \in 1..k ELSE a + j = i /\ j = k + 1
  BY <1>1
<1> HIDE DEF k, S
<1>9. Append(old, b) = [j \in 1..(k + 1) |-> BlockAt(life, n, a + j)]
  <2>1. /\ Append(old, b) \in Seq(S) /\ Len(Append(old, b)) = k + 1
        /\ \A j \in 1..k : Append(old, b)[j] = old[j]
        /\ Append(old, b)[k + 1] = b
    BY <1>1, <1>5, <1>7
  <2>2. \A j \in 1..(k + 1) : Append(old, b)[j] = BlockAt(life, n, a + j)
    BY <1>5, <1>6, <1>8, <2>1
  <2>3. PICK new : new = Append(old, b)
    OBVIOUS
  <2>4. new \in Seq(S) /\ Len(new) = k + 1
    BY <2>1, <2>3
  <2>5. new = [j \in 1..(k + 1) |-> new[j]]
    <3>1. DOMAIN new = 1..(k + 1) /\ new \in [1..(k + 1) -> S]
      BY <2>4
    <3> QED BY <3>1
  <2> QED BY <2>2, <2>3, <2>5
<1> QED BY <1>3, <1>4, <1>6, <1>9

\* receiveRecorder writes the block that the order determines.
LEMMA ReplicateStage ==
    ASSUME NEW life, InStep(life), NEW n \in Node, NEW stage \in Stage,
           NEW made, InStage(life, n, stage, made), receiveRecorder(n)
    PROVE  /\ InStage(life, n, "logged", made)' /\ StageOthersKept(n)
           /\ VotesDetermined(life)'
<1>1. PICK taken : taken = last_epoch_number[n]
  OBVIOUS
<1>2. stage = "stored"
  <2>1. MessageAt(life, n, stage, taken)
    BY <1>1 DEF InStage
  <2>2. committing[n] # None /\ committing[n].at = "replicator"
    BY DEF receiveRecorder
  <2>3. stage \in {"storing", "stored"}
    BY <2>1, <2>2 DEF MessageAt
  <2>4. CASE stage = "storing"
    BY <2>1, <2>2, <2>4 DEF MessageAt
  <2> QED BY <2>3, <2>4
<1>3. /\ taken \in life.epoch..Len(life.order) /\ taken - 1 \in life.epoch..taken
      /\ TranscriptAt(life, n, taken, taken, made, taken - 1)
      /\ StorageAt(life, n, taken, taken - 1)
      /\ MessageAt(life, n, "stored", taken) /\ MakesUpTo(life, n, made, taken) /\ made = taken
  BY <1>1, <1>2 DEF InStage, Recorded
<1>4. UNCHANGED TranscriptView(n) /\ StageOthersKept(n)
  BY DEF receiveRecorder, networkVars, votingVars, executionVars, TranscriptView,
         StageOthersKept, StageView
<1>5. PICK block : block = [epoch |-> committing[n].id, recorder |-> committing[n].recorder,
                            bullseye |-> dart[n]]
  OBVIOUS
<1>6. /\ last_block'[n] = Append(last_block[n], block)
      /\ committing'[n] = None
      /\ bullseyes'[n] = Append(bullseyes[n], [id |-> committing[n].id, bullseye |-> dart[n],
                                               block |-> Append(last_block[n], block)])
      /\ UNCHANGED <<dart_box, checked, commits, dart, last_epoch_number>>
  BY <1>5 DEF receiveRecorder, InStep, PerNode
<1>7. /\ committing[n] = [id |-> taken, recorder |-> RecorderAt(life, n, taken), at |-> "replicator"]
      /\ dart_box[n] = <<>> /\ checked[n] = <<>> /\ commits[n] = <<>> /\ bullseyes[n] = <<>>
  BY <1>3 DEF MessageAt
<1>8. dart[n] = DartAt(life, n, taken) /\ last_block[n] = LogTo(life, n, taken - 1)
  BY <1>3 DEF StorageAt
<1>9. LogTo(life, n, taken) = Append(LogTo(life, n, taken - 1), BlockAt(life, n, taken))
  <2>1. LifeOK(life) /\ taken \in (life.epoch + 1)..Len(life.order)
    BY <1>3 DEF InStep, LifeOK
  <2> QED BY <2>1, LogContinues
<1>10. block = BlockAt(life, n, taken)
  BY <1>5, <1>7, <1>8 DEF BlockAt
<1>11. /\ last_block'[n] = LogTo(life, n, taken)
       /\ bullseyes'[n] = <<[id |-> taken, bullseye |-> DartAt(life, n, taken),
                             block |-> LogTo(life, n, taken)]>>
  <2>1. committing[n].id = taken /\ Append(last_block[n], block) = LogTo(life, n, taken)
    BY <1>7, <1>8, <1>9, <1>10
  <2> QED BY <1>6, <1>7, <1>8, <2>1, OneMessage, Zenon
<1>12. MessageAt(life, n, "logged", taken)'
  BY <1>6, <1>7, <1>11 DEF MessageAt
<1>13. TranscriptAt(life, n, taken, taken, made, taken - 1)'
  BY <1>3, <1>4, TranscriptKept
<1>14. StorageAt(life, n, taken, taken)' /\ last_epoch_number'[n] = taken
  BY <1>1, <1>6, <1>8, <1>11 DEF StorageAt
<1>15. InStage(life, n, "logged", made)'
  BY <1>3, <1>12, <1>13, <1>14 DEF InStage, Recorded
<1>16. VotesDetermined(life)'
  <2>1. life.epoch \in Nat /\ taken \in Nat /\ life.epoch < taken
    BY <1>3 DEF InStep, LifeOK
  <2>2. Len(last_block[n]) = taken - 1 - life.epoch /\ Len(last_block'[n]) = taken - life.epoch
    BY <1>8, <1>11, <2>1 DEF LogTo
  <2>3. ballots' = ballots /\ \A m \in Node \ {n} : last_block'[m] = last_block[m]
    BY DEF receiveRecorder, networkVars, InStep, PerNode
  <2>4. ASSUME NEW v \in ballots
        PROVE  /\ v \in ConsensusVoting
               /\ v.epoch \in (life.epoch + 1)..(life.epoch + Len(last_block'[v.owner]))
               /\ v.bullseye = DartAt(life, v.owner, v.epoch)
    <3>1. /\ v \in ConsensusVoting
          /\ v.epoch \in (life.epoch + 1)..(life.epoch + Len(last_block[v.owner]))
          /\ v.bullseye = DartAt(life, v.owner, v.epoch)
      BY DEF InStep, VotesDetermined
    <3>2. CASE v.owner = n
      BY <2>1, <2>2, <3>1, <3>2
    <3>3. CASE v.owner # n
      BY <2>3, <3>1, <3>3 DEF ConsensusVoting
    <3> QED BY <3>2, <3>3
  <2> QED BY <2>3, <2>4 DEF VotesDetermined
<1> QED BY <1>4, <1>15, <1>16

\* The answer of epoch_commit is filed, and the node votes for it.

\* The answer of epoch_commit is filed, and the node votes for it.
LEMMA BullseyeStage ==
    ASSUME NEW life, InStep(life), NEW n \in Node, NEW stage \in Stage,
           NEW made, InStage(life, n, stage, made), receiveBullseye(n)
    PROVE  /\ InStage(life, n, "idle", made)' /\ StageOthersKept(n)
           /\ VotesDetermined(life)'
<1>1. PICK taken : taken = last_epoch_number[n]
  OBVIOUS
<1>2. stage = "logged"
  <2>1. MessageAt(life, n, stage, taken)
    BY <1>1 DEF InStage
  <2>2. bullseyes[n] # <<>>
    BY DEF receiveBullseye
  <2> QED BY <2>1, <2>2 DEF MessageAt
<1>3. /\ taken \in life.epoch..Len(life.order) /\ taken - 1 \in life.epoch..taken
      /\ TranscriptAt(life, n, taken, taken, taken, taken - 1)
      /\ StorageAt(life, n, taken, taken)
      /\ MessageAt(life, n, "logged", taken) /\ MakesUpTo(life, n, made, taken) /\ made = taken
  BY <1>1, <1>2 DEF InStage, Recorded
<1> DEFINE fin == Determined(life)[taken].finished
           bullseye == DartAt(life, n, taken)
           block == LogTo(life, n, taken)
<1>4. /\ LifeOK(life) /\ taken \in (life.epoch + 1)..Len(life.order)
      /\ life.epoch \in Nat /\ taken \in Nat /\ life.epoch < taken /\ taken <= Len(life.order)
      /\ fin \in Nat /\ fin < taken
  <2>1. LifeOK(life) /\ taken \in (life.epoch + 1)..Len(life.order)
    BY <1>3 DEF InStep, LifeOK
  <2>2. /\ RecorderOK(life, taken) /\ StateOK(life, taken)
        /\ life.epoch \in Nat /\ taken \in Nat /\ life.epoch < taken /\ taken <= Len(life.order)
    BY <2>1, EpochOfLife
  <2>3. fin < taken
    BY <2>2 DEF RecorderOK
  <2>4. fin \in Nat
    BY <2>2 DEF StateOK
  <2> QED BY <2>1, <2>2, <2>3, <2>4
<1> HIDE DEF fin, bullseye, block
<1>5. /\ checked[n] = <<>> /\ commits[n] = <<>> /\ committing[n] = None /\ dart_box[n] = <<>>
      /\ bullseyes[n] = <<[id |-> taken, bullseye |-> bullseye, block |-> block]>>
  BY <1>3 DEF MessageAt, bullseye, block
<1>6. /\ Head(bullseyes[n]).id = taken /\ Head(bullseyes[n]).bullseye = bullseye
      /\ Head(bullseyes[n]).block = block /\ Tail(bullseyes[n]) = <<>>
  <2>1. Head(bullseyes[n]) = [id |-> taken, bullseye |-> bullseye, block |-> block]
    BY <1>5, OneMessage, Zenon
  <2>2. Tail(bullseyes[n]) = <<>>
    BY <1>5, OneMessage, Zenon
  <2> QED BY <2>1, <2>2
<1>7. PICK before : before = votes[n]
  OBVIOUS
<1>8. /\ bullseyes' = [bullseyes EXCEPT ![n] = Tail(@)]
      /\ votes' = [votes EXCEPT ![n][taken].bullseye = bullseye,
                                ![n][taken].recorder_block = block]
      /\ ballots' = ballots \cup {[owner |-> n, epoch |-> taken, bullseye |-> bullseye]}
  BY <1>6 DEF receiveBullseye
<1>9. /\ DOMAIN votes = Node /\ DOMAIN bullseyes = Node
      /\ before = [e \in (fin + 1)..taken |-> EntryAt(life, n, e, taken, taken - 1)]
  BY <1>3, <1>7 DEF InStep, PerNode, TranscriptAt, fin
<1>10. /\ votes'[n] = [before EXCEPT ![taken].bullseye = bullseye,
                                     ![taken].recorder_block = block]
       /\ bullseyes'[n] = <<>>
  BY <1>6, <1>7, <1>8, <1>9
<1>11. votes'[n] = [e \in (fin + 1)..taken |-> EntryAt(life, n, e, taken, taken)]
  <2>1. before[taken] = EntryAt(life, n, taken, taken, taken - 1) /\ taken \in (fin + 1)..taken
    BY <1>4, <1>9
  <2>2. [before[taken] EXCEPT !.bullseye = bullseye, !.recorder_block = block] =
            EntryAt(life, n, taken, taken, taken)
    <3>1. PICK V : V = VotesOn(life, taken, taken)
      OBVIOUS
    <3>2. PICK p, q : before[taken] = [votes |-> V, bullseye |-> p, recorder_block |-> q]
      BY <2>1, <3>1, Zenon DEF EntryAt
    <3>3. EntryAt(life, n, taken, taken, taken) =
              [votes |-> V, bullseye |-> bullseye, recorder_block |-> block]
      <4>1. taken <= taken
        BY <1>4
      <4> QED BY <3>1, <4>1, Zenon DEF EntryAt, bullseye, block
    <3> DEFINE y == [before[taken] EXCEPT !.bullseye = bullseye, !.recorder_block = block]
               z == EntryAt(life, n, taken, taken, taken)
               Fields == {"votes", "bullseye", "recorder_block"}
    <3>4. y.votes = V /\ y.bullseye = bullseye /\ y.recorder_block = block
      BY <3>2
    <3>5. y = [i \in Fields |-> y[i]]
      BY <3>2
    <3>6. z.votes = V /\ z.bullseye = bullseye /\ z.recorder_block = block
      BY <3>3
    <3>7. z = [i \in Fields |-> z[i]]
      BY <3>3
    <3> HIDE DEF y, z
    <3>8. \A i \in Fields : y[i] = z[i]
      BY <3>4, <3>6
    <3> QED BY <3>5, <3>7, <3>8 DEF y, z
  <2>3. ASSUME NEW e \in (fin + 1)..taken, e # taken
        PROVE  EntryAt(life, n, e, taken, taken - 1) = EntryAt(life, n, e, taken, taken)
    <3>1. e <= taken - 1 /\ e <= taken
      BY <1>4, <2>3
    <3> QED BY <3>1, Zenon DEF EntryAt
  <2>4. votes'[n] = [e \in (fin + 1)..taken |->
            IF e = taken THEN [before[taken] EXCEPT !.bullseye = bullseye, !.recorder_block = block]
            ELSE before[e]]
    BY <1>9, <1>10, <2>1
  <2> QED BY <1>9, <2>2, <2>3, <2>4
<1>12. /\ \A m \in Node \ {n} : votes'[m] = votes[m] /\ bullseyes'[m] = bullseyes[m]
       /\ UNCHANGED <<consensus, produced, running, shutdown, last_epoch_number,
                      last_consensus_epoch, previous_epoch, executionVars, dart_box,
                      checked, commits, storageVars>>
  BY <1>8, <1>9 DEF receiveBullseye
<1>13. StageOthersKept(n)
  BY <1>12 DEF StageOthersKept, StageView, executionVars, storageVars
<1>14. TranscriptAt(life, n, taken, taken, taken, taken)'
  BY <1>3, <1>11, <1>12 DEF TranscriptAt, executionVars, fin
<1>15. StorageAt(life, n, taken, taken)' /\ last_epoch_number'[n] = taken
  BY <1>1, <1>3, <1>12 DEF StorageAt, storageVars
<1>16. MessageAt(life, n, "idle", taken)'
  BY <1>5, <1>10, <1>12 DEF MessageAt, storageVars
<1>17. InStage(life, n, "idle", made)'
  <2>1. taken \in life.epoch..taken
    BY <1>4
  <2> QED BY <1>3, <1>14, <1>15, <1>16, <2>1 DEF InStage, Recorded
<1>18. VotesDetermined(life)'
  <2>1. last_block' = last_block /\ Len(last_block[n]) = taken - life.epoch
    BY <1>3, <1>4, <1>12 DEF StorageAt, LogTo, storageVars
  <2>2. ASSUME NEW v \in ballots'
        PROVE  /\ v \in ConsensusVoting
               /\ v.epoch \in (life.epoch + 1)..(life.epoch + Len(last_block[v.owner]))
               /\ v.bullseye = DartAt(life, v.owner, v.epoch)
    <3>1. CASE v \in ballots
      BY <3>1 DEF InStep, VotesDetermined
    <3>2. CASE v = [owner |-> n, epoch |-> taken, bullseye |-> bullseye]
      <4>1. taken \in (life.epoch + 1)..(life.epoch + Len(last_block[n]))
        BY <1>4, <2>1
      <4>2. bullseye \in Content
        <5>1. taken \in life.epoch..Len(life.order)
          BY <1>3
        <5> QED BY <1>4, <5>1, NodeOfLife DEF bullseye
      <4> QED BY <1>4, <3>2, <4>1, <4>2 DEF bullseye, ConsensusVoting
    <3> QED BY <1>8, <3>1, <3>2
  <2> QED BY <2>1, <2>2 DEF VotesDetermined
<1> QED BY <1>13, <1>17, <1>18

\* A product that comes is one that was not there.
LEMMA ProduceStage ==
    ASSUME NEW life, InStep(life), NEW n \in Node, NEW stage \in Stage,
           NEW made, InStage(life, n, stage, made), NEW c \in Contract, produceContract(n, c)
    PROVE  InStage(life, n, stage, made)' /\ StageOthersKept(n)
<1>1. /\ c \notin produced[n]
      /\ produced'[n] = produced[n] \cup {c} /\ products'[n] = products[n] \cup {c}
      /\ \A m \in Node \ {n} : produced'[m] = produced[m] /\ products'[m] = products[m]
      /\ UNCHANGED <<consensus, ballots, running, shutdown, last_epoch_number, votingVars,
                     epoch_contracts, last_globals, boxVars, storageVars>>
  BY DEF produceContract, InStep, PerNode
<1>2. StageOthersKept(n)
  BY <1>1 DEF StageOthersKept, StageView, votingVars, boxVars, storageVars
<1>3. ASSUME NEW taken \in life.epoch..Len(life.order), NEW called, NEW known,
             made \in life.epoch..taken, TranscriptAt(life, n, taken, called, made, known)
      PROVE  TranscriptAt(life, n, taken, called, made, known)'
  <2> DEFINE U == UNION {RecorderAt(life, n, i).adds : i \in (life.epoch + 1)..made}
  <2>1. ASSUME NEW i \in (life.epoch + 1)..made PROVE RecorderAt(life, n, i).adds \subseteq produced[n]
    <3>1. LifeOK(life) /\ i \in (life.epoch + 1)..Len(life.order) /\ i \in (life.epoch + 1)..taken
      BY <1>3 DEF InStep, LifeOK
    <3>2. RecorderAt(life, n, i).adds \subseteq ContractsOf(life, i)
      BY <3>1, AddsOfEpoch
    <3>3. ContractsOf(life, i) \subseteq produced[n]
      BY <1>3, <3>1 DEF TranscriptAt
    <3> QED BY <3>2, <3>3
  <2>2. U \subseteq produced[n] /\ products[n] = produced[n] \ U
    BY <1>3, <2>1 DEF TranscriptAt
  <2> HIDE DEF U
  <2>3. products'[n] = produced'[n] \ U
    BY <1>1, <2>2
  <2>4. \A e \in (life.epoch + 1)..taken : ContractsOf(life, e) \subseteq produced'[n]
    BY <1>1, <1>3 DEF TranscriptAt
  <2> QED BY <1>1, <1>3, <2>3, <2>4 DEF TranscriptAt, votingVars, U
<1>4. ASSUME NEW stored, NEW logged, StorageAt(life, n, stored, logged)
      PROVE  StorageAt(life, n, stored, logged)'
  BY <1>1, <1>4 DEF StorageAt, storageVars
<1>5. ASSUME NEW e, MessageAt(life, n, stage, e) PROVE MessageAt(life, n, stage, e)'
  BY <1>1, <1>5 DEF MessageAt, boxVars, storageVars
<1>6. InStage(life, n, stage, made)'
  <2>1. PICK taken : taken = last_epoch_number[n]
    OBVIOUS
  <2>2. PICK before : before = IF stage = "idle" THEN taken ELSE taken - 1
    OBVIOUS
  <2>3. PICK called : called = IF stage \in {"asked", "answered"} THEN before ELSE taken
    OBVIOUS
  <2>4. PICK known : known = IF stage \in Recorded THEN before ELSE made
    OBVIOUS
  <2>5. last_epoch_number'[n] = taken
    BY <1>1, <2>1
  <2>6. /\ taken \in life.epoch..Len(life.order) /\ before \in life.epoch..taken
        /\ stage \in Recorded => made = taken
        /\ TranscriptAt(life, n, taken, called, made, known)
        /\ MessageAt(life, n, stage, taken) /\ MakesUpTo(life, n, made, called)
    BY <2>1, <2>2, <2>3, <2>4 DEF InStage
  <2>7. made \in life.epoch..taken
    BY <2>2, <2>3, <2>6 DEF MakesUpTo, InStep, LifeOK
  <2>8. TranscriptAt(life, n, taken, called, made, known)' /\ MessageAt(life, n, stage, taken)'
    BY <1>3, <1>5, <2>6, <2>7
  <2> QED BY <1>4, <2>1, <2>2, <2>3, <2>4, <2>5, <2>6, <2>8 DEF InStage
<1> QED BY <1>2, <1>6

\* The products of the contracts of an epoch were not used for an earlier one.
LEMMA ProductsReady ==
    ASSUME NEW life, InStep(life), NEW n \in Node,
           NEW id \in (life.epoch + 1)..Len(life.order),
           ContractsOf(life, id) \subseteq produced[n],
           products[n] = produced[n] \
               UNION {RecorderAt(life, n, i).adds : i \in (life.epoch + 1)..(id - 1)}
    PROVE  ContractsOf(life, id) \subseteq products[n]
<1>1. /\ LifeOK(life) /\ life.epoch \in Nat /\ id \in Nat /\ life.epoch < id
      /\ id <= Len(life.order) /\ id \in DOMAIN life.order /\ Len(life.order) \in Nat
  BY EpochOfLife DEF InStep
<1>2. ASSUME NEW i \in (life.epoch + 1)..(id - 1)
      PROVE  ContractsOf(life, id) \cap RecorderAt(life, n, i).adds = {}
  <2>1. i \in (life.epoch + 1)..Len(life.order) /\ i # id
    BY <1>1
  <2>2. i \in DOMAIN life.order /\ RecorderAt(life, n, i).adds \subseteq ContractsOf(life, i)
    BY <1>1, <2>1, EpochOfLife, AddsOfEpoch
  <2>3. ContractsOf(life, id) \cap ContractsOf(life, i) = {}
    BY <1>1, <2>1, <2>2 DEF InStep, ContractsOnce
  <2> QED BY <2>2, <2>3
<1> QED BY <1>2

\* A node that makes the recorder of the epoch that it took has recorded it.
LEMMA RecordStage ==
    ASSUME NEW life, InStep(life), NEW n \in Node,
           NEW id \in (life.epoch + 1)..Len(life.order), NEW ecs, DOMAIN ecs = {id},
           Makes(life, n, id, ecs),
           running[n] = "up", shutdown'[n] = 0, last_epoch_number'[n] = id,
           \A e \in (life.epoch + 1)..id : ContractsOf(life, e) \subseteq produced[n],
           products[n] = produced[n] \
               UNION {RecorderAt(life, n, i).adds : i \in (life.epoch + 1)..(id - 1)},
           StorageAt(life, n, id - 1, id - 1),
           produced' = produced, dart' = dart, last_block' = last_block,
           dart_box'[n] = <<>>, checked'[n] = <<>>, commits[n] = <<>>,
           committing'[n] = None, bullseyes'[n] = <<>>
    PROVE  InStage(life, n, "recorded", id)'
<1> DEFINE fin == Determined(life)[id].finished
           r == RecorderAt(life, n, id)
           U(i) == UNION {RecorderAt(life, n, j).adds : j \in (life.epoch + 1)..i}
<1>1. /\ LifeOK(life) /\ life.epoch \in Nat /\ id \in Nat /\ life.epoch < id
      /\ id <= Len(life.order)
  BY EpochOfLife DEF InStep
<1>2. /\ DOMAIN last_consensus_epoch = Node /\ DOMAIN previous_epoch = Node
      /\ DOMAIN votes = Node /\ DOMAIN epoch_contracts = Node /\ DOMAIN products = Node
      /\ DOMAIN commits = Node
  BY DEF InStep, PerNode
<1>3. /\ last_consensus_epoch'[n] = fin
      /\ previous_epoch'[n] = ChainTo(life, n, fin)
      /\ votes'[n] = [e \in (fin + 1)..id |-> EntryAt(life, n, e, id, id - 1)]
      /\ epoch_contracts'[n] = Without(ecs, {id})
      /\ products'[n] = products[n] \ r.adds
      /\ commits'[n] = Append(commits[n], Request(life, n, id))
      /\ running'[n] = "up"
  BY <1>2 DEF Makes
<1>4. epoch_contracts'[n] = [e \in (id + 1)..id |-> WaitingAt(life, n, e)]
  <2>1. (id + 1)..id = {}
    BY <1>1
  <2>2. Without(ecs, {id}) = [e \in {} |-> ecs[e]]
    BY DEF Without
  <2>3. [e \in {} |-> ecs[e]] = [e \in {} |-> WaitingAt(life, n, e)]
    OBVIOUS
  <2> QED BY <1>3, <2>1, <2>2, <2>3
<1>5. products'[n] = produced'[n] \ U(id)
  <2>1. \A j \in (life.epoch + 1)..id : j = id \/ j \in (life.epoch + 1)..(id - 1)
    BY <1>1
  <2>2. /\ id \in (life.epoch + 1)..id
        /\ \A j \in (life.epoch + 1)..(id - 1) : j \in (life.epoch + 1)..id
    BY <1>1
  <2>3. U(id) = U(id - 1) \cup r.adds
    BY <2>1, <2>2
  <2>4. products[n] = produced[n] \ U(id - 1)
    OBVIOUS
  <2> HIDE DEF U, r
  <2> QED BY <1>3, <2>3, <2>4
<1>6. TranscriptAt(life, n, id, id, id, id - 1)'
  BY <1>3, <1>4, <1>5 DEF TranscriptAt
<1>7. StorageAt(life, n, id - 1, id - 1)'
  BY DEF StorageAt
<1>8. MessageAt(life, n, "recorded", id)'
  <2>1. commits'[n] = <<Request(life, n, id)>>
    BY <1>3, OneMessage, Zenon
  <2> QED BY <2>1 DEF MessageAt
<1>9. id \in life.epoch..Len(life.order) /\ id - 1 \in life.epoch..id
  BY <1>1
<1>10. MakesUpTo(life, n, id, id)
  BY DEF Makes
<1> QED BY <1>6, <1>7, <1>8, <1>9, <1>10 DEF InStage, Recorded

\* A node that throws is through with the epoch that it took.
LEMMA ThrownStage ==
    ASSUME NEW life, InStep(life), NEW n \in Node, NEW id, NEW made, NEW absent, NEW vs,
           NEW ecs, ReadyFor(life, n, id, made, absent, vs, ecs),
           Throws(life, n, id, made, ecs),
           running[n] = "up", shutdown' = shutdown, last_epoch_number'[n] = id,
           \A e \in (life.epoch + 1)..id : ContractsOf(life, e) \subseteq produced[n],
           products[n] = produced[n] \
               UNION {RecorderAt(life, n, i).adds : i \in (life.epoch + 1)..made},
           StorageAt(life, n, made, made),
           produced' = produced, dart' = dart, last_block' = last_block,
           dart_box'[n] = <<>>, checked'[n] = <<>>, commits[n] = <<>>,
           committing'[n] = None, bullseyes'[n] = <<>>
    PROVE  InStage(life, n, "idle", made)'
<1> DEFINE fin == Determined(life)[id].finished
<1>1. /\ LifeOK(life) /\ life.epoch \in Nat /\ id \in Nat /\ life.epoch < id
      /\ id <= Len(life.order) /\ Len(life.order) \in Nat
  BY EpochOfLife DEF InStep, ReadyFor
<1>2. /\ DOMAIN last_consensus_epoch = Node /\ DOMAIN previous_epoch = Node
      /\ DOMAIN votes = Node /\ DOMAIN epoch_contracts = Node
  BY DEF InStep, PerNode
<1>3. /\ last_consensus_epoch'[n] = fin
      /\ previous_epoch'[n] = ChainTo(life, n, fin)
      /\ votes'[n] = [e \in (fin + 1)..made |-> EntryAt(life, n, e, id, made)]
      /\ epoch_contracts'[n] = ecs
      /\ products' = products /\ commits' = commits /\ running' = running
  BY <1>2 DEF Throws
<1>4. shutdown[n] = 0 /\ ecs = [e \in (made + 1)..id |-> WaitingAt(life, n, e)]
  BY DEF ReadyFor
<1>5. TranscriptAt(life, n, id, id, made, made)'
  BY <1>3, <1>4 DEF TranscriptAt
<1>6. StorageAt(life, n, made, made)'
  BY DEF StorageAt
<1>7. MessageAt(life, n, "idle", id)'
  BY <1>3 DEF MessageAt
<1>8. id \in life.epoch..Len(life.order) /\ id \in life.epoch..id
  BY <1>1
<1>9. MakesUpTo(life, n, made, id)
  BY DEF Throws
<1> QED BY <1>5, <1>6, <1>7, <1>8, <1>9 DEF InStage, Recorded

\* Making a recorder, or none, leaves the other nodes alone.
LEMMA MakesOthers ==
    ASSUME NEW life, NEW n, NEW id, NEW made, NEW ecs,
           Makes(life, n, id, ecs) \/ Throws(life, n, id, made, ecs),
           NEW m \in Node \ {n}, PerNode
    PROVE  /\ last_consensus_epoch'[m] = last_consensus_epoch[m]
           /\ previous_epoch'[m] = previous_epoch[m] /\ votes'[m] = votes[m]
           /\ epoch_contracts'[m] = epoch_contracts[m] /\ products'[m] = products[m]
           /\ commits'[m] = commits[m] /\ running'[m] = running[m]
BY DEF Makes, Throws, PerNode

(* A node makes the recorder of an epoch, or throws. *)
Records(life, n, made) ==
    \/ \E id, ecs : InStage(life, n, "recorded", id)' /\ Makes(life, n, id, ecs)
    \/ \E id, ecs : InStage(life, n, "idle", made)' /\ Throws(life, n, id, made, ecs)

\* The answer of the DART gives the recorder that the order determines, or none.
LEMMA CheckedStage ==
    ASSUME NEW life, InStep(life), NEW n \in Node, NEW stage \in Stage, NEW made,
           InStage(life, n, stage, made), receiveChecked(n)
    PROVE  Records(life, n, made) /\ StageOthersKept(n)
<1>1. PICK taken : taken = last_epoch_number[n]
  OBVIOUS
<1>2. PICK inputs : inputs = InputsOf(life.order[taken].contracts)
  OBVIOUS
<1>3. stage = "answered"
  <2>1. MessageAt(life, n, stage, taken)
    BY <1>1 DEF InStage
  <2>2. checked[n] # <<>>
    BY DEF receiveChecked
  <2> QED BY <2>1, <2>2 DEF MessageAt
<1>4. /\ taken \in life.epoch..Len(life.order) /\ taken - 1 \in life.epoch..taken
      /\ TranscriptAt(life, n, taken, taken - 1, made, made)
      /\ StorageAt(life, n, made, made)
      /\ MessageAt(life, n, "answered", taken) /\ MakesUpTo(life, n, made, taken - 1)
  BY <1>1, <1>3 DEF InStage, Recorded
<1>5. /\ LifeOK(life) /\ PerNode /\ taken \in (life.epoch + 1)..Len(life.order)
      /\ life.epoch \in Nat /\ taken \in Nat /\ life.epoch < taken
  <2>1. LifeOK(life) /\ PerNode /\ taken \in (life.epoch + 1)..Len(life.order)
    BY <1>4 DEF InStep, LifeOK
  <2> QED BY <2>1, EpochOfLife
<1>6. PICK ecs : ecs = epoch_contracts[n]
  OBVIOUS
<1>7. PICK vs : vs = votes[n]
  OBVIOUS
<1>8. PICK absent : absent = inputs \ dart[n].bills
  OBVIOUS
<1>9. /\ checked[n] = <<[id |-> taken, not_in_dart |-> absent]>>
      /\ dart_box[n] = <<>> /\ commits[n] = <<>> /\ committing[n] = None /\ bullseyes[n] = <<>>
  BY <1>2, <1>4, <1>8 DEF MessageAt
<1>10. /\ Head(checked[n]).id = taken /\ Head(checked[n]).not_in_dart = absent
       /\ Tail(checked[n]) = <<>>
  <2>1. Head(checked[n]) = [id |-> taken, not_in_dart |-> absent]
    BY <1>9, OneMessage, Zenon
  <2>2. Tail(checked[n]) = <<>>
    BY <1>9, OneMessage, Zenon
  <2> QED BY <2>1, <2>2
<1>11. /\ createRecorder(n, taken, absent, vs, ecs)
       /\ checked' = [checked EXCEPT ![n] = Tail(@)]
       /\ UNCHANGED <<networkVars, shutdown, last_epoch_number, dart_box, bullseyes,
                      storageVars>>
  BY <1>6, <1>7, <1>10 DEF receiveChecked
<1>12. checked'[n] = <<>> /\ \A m \in Node \ {n} : checked'[m] = checked[m]
  BY <1>5, <1>10, <1>11 DEF PerNode
<1>13. /\ \A e \in (life.epoch + 1)..taken : ContractsOf(life, e) \subseteq produced[n]
       /\ products[n] = produced[n] \
              UNION {RecorderAt(life, n, i).adds : i \in (life.epoch + 1)..made}
  BY <1>4 DEF TranscriptAt
<1>14. made = taken - 1 => ContractsOf(life, taken) \subseteq products[n]
  <2>1. taken \in (life.epoch + 1)..taken
    BY <1>5
  <2> QED BY <1>5, <1>13, <2>1, ProductsReady
<1>15. ReadyFor(life, n, taken, made, absent, vs, ecs)
  <2>1. absent = inputs \ DartAt(life, n, made).bills
    BY <1>4, <1>8 DEF StorageAt
  <2> QED BY <1>2, <1>4, <1>5, <1>6, <1>7, <1>14, <2>1 DEF ReadyFor, TranscriptAt
<1>16. /\ running[n] = "up" /\ shutdown[n] = 0 /\ shutdown' = shutdown
       /\ last_epoch_number'[n] = taken
       /\ produced' = produced /\ dart' = dart /\ last_block' = last_block
       /\ dart_box'[n] = <<>> /\ committing'[n] = None /\ bullseyes'[n] = <<>>
  BY <1>1, <1>4, <1>9, <1>11 DEF TranscriptAt, networkVars, storageVars
<1>17. \/ made = taken - 1 /\ Makes(life, n, taken, ecs)
       \/ Throws(life, n, taken, made, ecs)
  BY <1>11, <1>15, MakesDetermined
<1>18. StageOthersKept(n)
  <2> SUFFICES ASSUME NEW m \in Node \ {n} PROVE UNCHANGED StageView(m)
    BY Zenon DEF StageOthersKept
  <2>1. /\ last_consensus_epoch'[m] = last_consensus_epoch[m]
        /\ previous_epoch'[m] = previous_epoch[m] /\ votes'[m] = votes[m]
        /\ epoch_contracts'[m] = epoch_contracts[m] /\ products'[m] = products[m]
        /\ commits'[m] = commits[m] /\ running'[m] = running[m]
    BY <1>5, <1>17, MakesOthers
  <2>2. /\ shutdown'[m] = shutdown[m] /\ last_epoch_number'[m] = last_epoch_number[m]
        /\ produced'[m] = produced[m] /\ dart'[m] = dart[m] /\ last_block'[m] = last_block[m]
        /\ dart_box'[m] = dart_box[m] /\ committing'[m] = committing[m]
        /\ bullseyes'[m] = bullseyes[m]
    BY <1>11 DEF networkVars, storageVars
  <2> QED BY <1>12, <2>1, <2>2 DEF StageView
<1>19. CASE made = taken - 1 /\ Makes(life, n, taken, ecs)
  <2>1. DOMAIN ecs = {taken}
    <3>1. ((taken - 1) + 1)..taken = {taken}
      BY <1>5
    <3> QED BY <1>15, <1>19, <3>1 DEF ReadyFor
  <2>2. InStage(life, n, "recorded", taken)'
    BY <1>4, <1>5, <1>9, <1>12, <1>13, <1>16, <1>19, <2>1, RecordStage
  <2> QED BY <1>18, <1>19, <2>2 DEF Records
<1>20. CASE Throws(life, n, taken, made, ecs)
  <2>1. InStage(life, n, "idle", made)'
    BY <1>4, <1>9, <1>12, <1>13, <1>15, <1>16, <1>20, ThrownStage
  <2> QED BY <1>18, <1>20, <2>1 DEF Records
<1> QED BY <1>17, <1>19, <1>20

\* A node takes an epoch when no message of the one before is on its way.
LEMMA TimelyIsIdle ==
    ASSUME MaxInFlight = 1, NEW life, InStep(life), NEW n \in Node, NEW stage \in Stage,
           NEW made, InStage(life, n, stage, made), Timely(n)
    PROVE  stage = "idle"
<1> SUFFICES ASSUME stage # "idle" PROVE FALSE
  OBVIOUS
<1>1. PICK taken : taken = last_epoch_number[n]
  OBVIOUS
<1>2. MessageAt(life, n, stage, taken)
  BY <1>1 DEF InStage
<1>3. ASSUME NEW m, m.id = taken
      PROVE  Ids(<<m>>) = {taken}
  <2>1. DOMAIN <<m>> = {1} /\ <<m>>[1] = m
    OBVIOUS
  <2> QED BY <1>3, <2>1 DEF Ids
<1>4. Ids(<<>>) = {} /\ CheckIds(<<>>) = {}
  BY DEF Ids, CheckIds, ChecksIn
<1>5. InFlight(n) = {taken}
  <2>1. CASE stage = "asked"
    <3>1. PICK m : m = [method |-> "checkRead", id |-> taken,
                        inputs |-> InputsOf(life.order[taken].contracts)]
      OBVIOUS
    <3>2. dart_box[n] = <<m>> /\ m.method = "checkRead" /\ m.id = taken
      BY <1>2, <2>1, <3>1 DEF MessageAt
    <3>3. CheckIds(<<m>>) = {taken}
      <4>1. DOMAIN <<m>> = {1} /\ <<m>>[1] = m
        OBVIOUS
      <4> QED BY <3>2, <4>1 DEF CheckIds, ChecksIn
    <3>4. checked[n] = <<>> /\ commits[n] = <<>> /\ committing[n] = None /\ bullseyes[n] = <<>>
      BY <1>2, <2>1 DEF MessageAt
    <3> QED BY <1>4, <3>2, <3>3, <3>4 DEF InFlight, CommittingIds
  <2>2. CASE stage = "answered"
    <3>1. /\ dart_box[n] = <<>> /\ commits[n] = <<>> /\ committing[n] = None
          /\ bullseyes[n] = <<>>
          /\ \E m : m.id = taken /\ checked[n] = <<m>>
      <4>1. PICK m : m = [id |-> taken, not_in_dart |->
                             InputsOf(life.order[taken].contracts) \ dart[n].bills]
        OBVIOUS
      <4>2. m.id = taken /\ checked[n] = <<m>>
        BY <1>2, <2>2, <4>1 DEF MessageAt
      <4> QED BY <1>2, <2>2, <4>2 DEF MessageAt
    <3> QED BY <1>3, <1>4, <3>1 DEF InFlight, CommittingIds
  <2>3. CASE stage = "recorded"
    <3>1. /\ dart_box[n] = <<>> /\ checked[n] = <<>> /\ committing[n] = None
          /\ bullseyes[n] = <<>> /\ commits[n] = <<Request(life, n, taken)>>
      BY <1>2, <2>3 DEF MessageAt
    <3>2. PICK m : m = Request(life, n, taken)
      OBVIOUS
    <3>3. m.id = taken
      BY <3>2 DEF Request
    <3> QED BY <1>3, <1>4, <3>1, <3>2, <3>3 DEF InFlight, CommittingIds
  <2>4. CASE stage \in {"storing", "stored"}
    <3>1. PICK r, at : /\ r = RecorderAt(life, n, taken)
                       /\ at = IF stage = "storing" THEN "dart" ELSE "replicator"
      OBVIOUS
    <3>2. /\ checked[n] = <<>> /\ commits[n] = <<>> /\ bullseyes[n] = <<>>
          /\ dart_box[n] \in {<<>>, <<[method |-> "modify", recorder |-> r]>>}
          /\ committing[n] = [id |-> taken, recorder |-> r, at |-> at]
      BY <1>2, <2>4, <3>1 DEF MessageAt
    <3>3. r \in Recorder /\ taken \in Nat
      <4>1. LifeOK(life) /\ taken \in (life.epoch + 1)..Len(life.order)
        <5>1. taken \in life.epoch..Len(life.order) /\ taken - 1 \in life.epoch..taken
          BY <1>1 DEF InStage
        <5> QED BY <5>1 DEF InStep, LifeOK
      <4> QED BY <3>1, <4>1, RecorderOfNode, EpochOfLife
    <3>4. committing[n] # None /\ committing[n].id = taken
      BY <3>1, <3>2, <3>3, NoneAssumption DEF Committing
    <3>5. CheckIds(dart_box[n]) = {}
      <4>1. CASE dart_box[n] = <<>>
        BY <1>4, <4>1
      <4>2. CASE dart_box[n] = <<[method |-> "modify", recorder |-> r]>>
        <5>1. PICK m : m = [method |-> "modify", recorder |-> r]
          OBVIOUS
        <5>2. DOMAIN <<m>> = {1} /\ <<m>>[1] = m /\ m.method # "checkRead"
          BY <5>1
        <5>3. ChecksIn(<<m>>) = {}
          BY <5>2 DEF ChecksIn
        <5> QED BY <4>2, <5>1, <5>3 DEF CheckIds
      <4> QED BY <3>2, <4>1, <4>2
    <3> QED BY <1>4, <3>2, <3>4, <3>5 DEF InFlight, CommittingIds
  <2>5. CASE stage = "logged"
    <3>1. PICK m : m = [id |-> taken, bullseye |-> DartAt(life, n, taken),
                        block |-> LogTo(life, n, taken)]
      OBVIOUS
    <3>2. /\ dart_box[n] = <<>> /\ checked[n] = <<>> /\ commits[n] = <<>>
          /\ committing[n] = None /\ bullseyes[n] = <<m>> /\ m.id = taken
      BY <1>2, <2>5, <3>1 DEF MessageAt
    <3> QED BY <1>3, <1>4, <3>2 DEF InFlight, CommittingIds
  <2> QED BY <2>1, <2>2, <2>3, <2>4, <2>5 DEF Stage
<1>6. Cardinality({taken}) = 1
  BY FS_Singleton
<1> QED BY <1>5, <1>6 DEF Timely

(* entries has what the order determines after epoch i of the votes of node n. *)
EntriesAfter(life, n, entries, i, known) ==
    /\ DOMAIN entries = DOMAIN votes[n]
    /\ \A e \in DOMAIN votes[n] : entries[e] = EntryAt(life, n, e, i, known)

(* Epoch id is the next one of the order. *)
IsNext(life, n, id, known) ==
    /\ life.order = consensus /\ id \in Nat \ {0}
    /\ EntriesAfter(life, n, votes[n], id - 1, known)

\* The votes that an epoch carries are put to the epochs that they are for.
LEMMA VotesAdded ==
    ASSUME NEW life, NEW n, NEW id, NEW known, IsNext(life, n, id, known)
    PROVE  EntriesAfter(life, n, AddVotes(n, consensus[id].votes), id, known)
<1> DEFINE ballot == consensus[id].votes
<1>1. /\ life.order = consensus /\ id \in Nat \ {0}
      /\ \A e \in DOMAIN votes[n] : votes[n][e] = EntryAt(life, n, e, id - 1, known)
  BY DEF IsNext, EntriesAfter
<1>2. ASSUME NEW e PROVE VotesOn(life, e, id) = VotesOn(life, e, id - 1)
                                                    \cup {v \in ballot : v.epoch = e}
  <2>1. \A j \in 1..id : j = id \/ j \in 1..(id - 1)
    BY <1>1
  <2>2. id \in 1..id /\ \A j \in 1..(id - 1) : j \in 1..id
    BY <1>1
  <2>3. UNION {life.order[j].votes : j \in 1..id} =
            (UNION {life.order[j].votes : j \in 1..(id - 1)}) \cup ballot
    BY <1>1, <2>1, <2>2
  <2> QED BY <2>3 DEF VotesOn
<1>3. ASSUME NEW e \in DOMAIN votes[n]
      PROVE  [votes[n][e] EXCEPT !.votes = @ \cup {v \in ballot : v.epoch = e}] =
                 EntryAt(life, n, e, id, known)
  <2>1. PICK V, W, own : /\ V = VotesOn(life, e, id - 1) /\ W = VotesOn(life, e, id)
                         /\ own = {v \in ballot : v.epoch = e}
    OBVIOUS
  <2>2. PICK p, q : /\ EntryAt(life, n, e, id - 1, known) =
                           [votes |-> V, bullseye |-> p, recorder_block |-> q]
                    /\ EntryAt(life, n, e, id, known) =
                           [votes |-> W, bullseye |-> p, recorder_block |-> q]
    BY <2>1, Zenon DEF EntryAt
  <2>3. votes[n][e] = [votes |-> V, bullseye |-> p, recorder_block |-> q]
    BY <1>1, <2>2
  <2>4. W = V \cup own
    BY <1>2, <2>1
  <2> HIDE DEF ballot
  <2> DEFINE y == [votes[n][e] EXCEPT !.votes = W]
             z == EntryAt(life, n, e, id, known)
             Fields == {"votes", "bullseye", "recorder_block"}
  <2>5. y.votes = W /\ y.bullseye = p /\ y.recorder_block = q /\ y = [i \in Fields |-> y[i]]
    BY <2>3
  <2>6. z.votes = W /\ z.bullseye = p /\ z.recorder_block = q /\ z = [i \in Fields |-> z[i]]
    BY <2>2
  <2> HIDE DEF y, z
  <2>7. \A i \in Fields : y[i] = z[i]
    BY <2>5, <2>6
  <2>8. y = z
    BY <2>5, <2>6, <2>7
  <2>9. votes[n][e].votes \cup own = W
    BY <2>3, <2>4
  <2> QED BY <2>1, <2>8, <2>9 DEF y, z
<1> HIDE DEF ballot
<1>4. /\ DOMAIN AddVotes(n, ballot) = DOMAIN votes[n]
      /\ \A e \in DOMAIN votes[n] : AddVotes(n, ballot)[e] = EntryAt(life, n, e, id, known)
  BY <1>3 DEF AddVotes
<1> QED BY <1>4 DEF ballot, EntriesAfter


\* An idle node asks about the inputs of the next epoch, or makes its recorder at once.
LEMMA EpochStage ==
    ASSUME MaxInFlight = 1, ProductsInTime,
           NEW life, InStep(life), NEW n \in Node, NEW stage \in Stage, NEW made,
           InStage(life, n, stage, made), epoch(n), Timely(n)
    PROVE  /\ StageOthersKept(n)
           /\ \/ /\ InStage(life, n, "asked", made)'
                 /\ UNCHANGED <<previous_epoch, last_globals, commits>>
              \/ Records(life, n, made)
<1>1. PICK id : id = last_epoch_number[n] + 1
  OBVIOUS
<1>2. stage = "idle"
  BY TimelyIsIdle
<1>3. /\ LifeOK(life) /\ PerNode /\ life.order = consensus
      /\ id \in (life.epoch + 1)..Len(life.order)
      /\ life.epoch \in Nat /\ id \in Nat /\ id # 0 /\ last_epoch_number[n] = id - 1
      /\ id - 1 \in life.epoch..Len(life.order)
  <2>1. /\ LifeOK(life) /\ PerNode /\ life.order = consensus
        /\ id \in DOMAIN consensus
    BY <1>1 DEF InStep, epoch
  <2>2. last_epoch_number[n] \in life.epoch..Len(life.order)
    BY DEF InStage
  <2>3. /\ life.epoch \in Nat /\ Len(life.order) \in Nat /\ id \in 1..Len(life.order)
    BY <2>1 DEF LifeOK
  <2> QED BY <1>1, <2>1, <2>2, <2>3
<1>4. /\ TranscriptAt(life, n, id - 1, id - 1, made, made)
      /\ StorageAt(life, n, made, made)
      /\ MessageAt(life, n, "idle", id - 1) /\ MakesUpTo(life, n, made, id - 1)
  BY <1>2, <1>3 DEF InStage, Recorded
<1>5. PICK fin : fin = Determined(life)[id - 1].finished
  OBVIOUS
<1>6. fin \in Nat /\ made \in Nat /\ made < id
  <2>1. StateOK(life, id - 1)
    BY <1>3, EpochOfLife
  <2>2. fin \in life.epoch..(id - 1)
    BY <1>5, <2>1 DEF StateOK
  <2> QED BY <1>3, <1>4, <2>2 DEF MakesUpTo
<1>7. PICK vs : vs = AddVotes(n, consensus[id].votes)
  OBVIOUS
<1>8. vs = [e \in (fin + 1)..made |-> EntryAt(life, n, e, id, made)]
  <2>1. votes[n] = [e \in (fin + 1)..made |-> EntryAt(life, n, e, id - 1, made)]
    BY <1>4, <1>5 DEF TranscriptAt
  <2>2. /\ DOMAIN votes[n] = (fin + 1)..made
        /\ \A e \in DOMAIN votes[n] : votes[n][e] = EntryAt(life, n, e, id - 1, made)
    BY <2>1
  <2>3. life.order = consensus /\ id \in Nat /\ id # 0
    BY <1>3
  <2>4. /\ DOMAIN vs = DOMAIN votes[n]
        /\ \A e \in DOMAIN votes[n] : vs[e] = EntryAt(life, n, e, id, made)
    <3>1. IsNext(life, n, id, made)
      BY <2>2, <2>3 DEF IsNext, EntriesAfter
    <3>2. EntriesAfter(life, n, AddVotes(n, consensus[id].votes), id, made)
      BY <3>1, VotesAdded
    <3> QED BY <1>7, <3>2, Zenon DEF EntriesAfter
  <2>5. vs = [e \in DOMAIN vs |-> vs[e]]
    BY <1>7 DEF AddVotes
  <2>6. PICK open : open = (fin + 1)..made
    OBVIOUS
  <2>7. DOMAIN vs = open /\ \A e \in open : vs[e] = EntryAt(life, n, e, id, made)
    BY <2>2, <2>4, <2>6, Zenon
  <2>8. vs = [e \in open |-> EntryAt(life, n, e, id, made)]
    BY <2>5, <2>7
  <2> QED BY <2>6, <2>8
<1>9. PICK ecs : ecs = With(epoch_contracts[n], id, [contracts |-> consensus[id].contracts,
                                                     witnesses |-> consensus[id].witnesses[n]])
  OBVIOUS
<1>10. ecs = [e \in (made + 1)..id |-> WaitingAt(life, n, e)]
  <2>1. epoch_contracts[n] = [e \in (made + 1)..(id - 1) |-> WaitingAt(life, n, e)]
    BY <1>4 DEF TranscriptAt
  <2>2. PICK keys : keys = (made + 1)..(id - 1)
    OBVIOUS
  <2>3. keys \cup {id} = (made + 1)..id
    BY <1>3, <1>6, <2>2
  <2>4. [contracts |-> consensus[id].contracts, witnesses |-> consensus[id].witnesses[n]] =
            WaitingAt(life, n, id)
    BY <1>3 DEF WaitingAt
  <2>5. ecs = [e \in keys \cup {id} |-> WaitingAt(life, n, e)]
    BY <1>9, <2>1, <2>2, <2>4 DEF With
  <2> QED BY <2>3, <2>5
<1>11. PICK inputs : inputs = InputsOf(life.order[id].contracts)
  OBVIOUS
<1>12. /\ dart_box[n] = <<>> /\ checked[n] = <<>> /\ commits[n] = <<>>
       /\ committing[n] = None /\ bullseyes[n] = <<>>
  BY <1>4 DEF MessageAt
<1>13. /\ running[n] = "up" /\ shutdown[n] = 0
       /\ products[n] = produced[n] \
              UNION {RecorderAt(life, n, i).adds : i \in (life.epoch + 1)..made}
       /\ \A e \in (life.epoch + 1)..id : ContractsOf(life, e) \subseteq produced[n]
  <2>1. ContractsOf(life, id) \subseteq produced[n]
    <3>1. \A j \in DOMAIN consensus[id].contracts : consensus[id].contracts[j] \in produced[n]
      BY <1>1, <1>3 DEF Timely, epoch
    <3> QED BY <1>3, <3>1 DEF ContractsOf
  <2>2. \A e \in (life.epoch + 1)..id : e = id \/ e \in (life.epoch + 1)..(id - 1)
    BY <1>3
  <2> QED BY <1>4, <2>1, <2>2 DEF TranscriptAt
<1>14. /\ last_epoch_number' = [last_epoch_number EXCEPT ![n] = id]
       /\ UNCHANGED <<networkVars, shutdown, checked, bullseyes, storageVars>>
       /\ last_epoch_number'[n] = id
       /\ \A m \in Node \ {n} : last_epoch_number'[m] = last_epoch_number[m]
  BY <1>1, <1>3 DEF epoch, PerNode
<1>15. \/ inputs = {} /\ createRecorder(n, id, {}, vs, ecs) /\ UNCHANGED dart_box
       \/ /\ votes' = [votes EXCEPT ![n] = vs]
          /\ epoch_contracts' = [epoch_contracts EXCEPT ![n] = ecs]
          /\ dart_box' = [dart_box EXCEPT ![n] =
                 Append(@, [method |-> "checkRead", id |-> id, inputs |-> inputs])]
          /\ UNCHANGED <<last_consensus_epoch, previous_epoch, products, last_globals,
                         commits, running>>
  BY <1>1, <1>3, <1>7, <1>9, <1>11 DEF epoch
<1>16. ASSUME inputs = {}, createRecorder(n, id, {}, vs, ecs), UNCHANGED dart_box
       PROVE  StageOthersKept(n) /\ Records(life, n, made)
  <2>1. made = id - 1 => ContractsOf(life, id) \subseteq products[n]
    <3>1. id \in (life.epoch + 1)..id
      BY <1>3
    <3>2. ContractsOf(life, id) \subseteq produced[n]
      BY <1>13, <3>1
    <3> QED BY <1>3, <1>13, <3>2, ProductsReady
  <2>2. {} = inputs \ DartAt(life, n, made).bills
    BY <1>16
  <2>3. ReadyFor(life, n, id, made, {}, vs, ecs)
    BY <1>3, <1>4, <1>5, <1>8, <1>10, <1>11, <2>1, <2>2 DEF ReadyFor, TranscriptAt
  <2>4. \/ made = id - 1 /\ Makes(life, n, id, ecs)
        \/ Throws(life, n, id, made, ecs)
    BY <1>16, <2>3, MakesDetermined
  <2>5. /\ shutdown' = shutdown /\ produced' = produced /\ dart' = dart
        /\ last_block' = last_block /\ dart_box'[n] = <<>> /\ checked'[n] = <<>>
        /\ committing'[n] = None /\ bullseyes'[n] = <<>>
    BY <1>12, <1>13, <1>14, <1>16 DEF networkVars, storageVars
  <2>6. StageOthersKept(n)
    BY <1>3, <1>14, <1>16, <2>4, MakesOthers
       DEF StageOthersKept, StageView, networkVars, storageVars
  <2>7. CASE made = id - 1 /\ Makes(life, n, id, ecs)
    <3>1. DOMAIN ecs = {id}
      <4>1. ((id - 1) + 1)..id = {id}
        BY <1>3
      <4> QED BY <1>10, <2>7, <4>1
    <3>2. shutdown'[n] = 0
      BY <1>13, <2>5
    <3>3. InStage(life, n, "recorded", id)'
      BY <1>3, <1>4, <1>12, <1>13, <1>14, <2>5, <2>7, <3>1, <3>2, RecordStage
    <3> QED BY <2>6, <2>7, <3>3 DEF Records
  <2>8. CASE Throws(life, n, id, made, ecs)
    <3>1. InStage(life, n, "idle", made)'
      BY <1>4, <1>12, <1>13, <1>14, <2>3, <2>5, <2>8, ThrownStage
    <3> QED BY <2>6, <2>8, <3>1 DEF Records
  <2> QED BY <2>4, <2>7, <2>8
<1>17. ASSUME votes' = [votes EXCEPT ![n] = vs],
              epoch_contracts' = [epoch_contracts EXCEPT ![n] = ecs],
              dart_box' = [dart_box EXCEPT ![n] =
                  Append(@, [method |-> "checkRead", id |-> id, inputs |-> inputs])],
              UNCHANGED <<last_consensus_epoch, previous_epoch, products, last_globals,
                          commits, running>>
       PROVE  StageOthersKept(n) /\ InStage(life, n, "asked", made)'
  <2>1. /\ votes'[n] = vs /\ epoch_contracts'[n] = ecs
        /\ dart_box'[n] = Append(dart_box[n], [method |-> "checkRead", id |-> id,
                                               inputs |-> inputs])
        /\ \A m \in Node \ {n} : /\ votes'[m] = votes[m]
                                 /\ epoch_contracts'[m] = epoch_contracts[m]
                                 /\ dart_box'[m] = dart_box[m]
    BY <1>3, <1>17 DEF PerNode
  <2>2. StageOthersKept(n)
    BY <1>14, <1>17, <2>1 DEF StageOthersKept, StageView, networkVars, storageVars
  <2>3. TranscriptAt(life, n, id, id - 1, made, made)'
    BY <1>4, <1>5, <1>8, <1>10, <1>13, <1>14, <1>17, <2>1 DEF TranscriptAt, networkVars
  <2>4. StorageAt(life, n, made, made)'
    BY <1>4, <1>14 DEF StorageAt, storageVars
  <2>5. MessageAt(life, n, "asked", id)'
    <3>1. dart_box'[n] = <<[method |-> "checkRead", id |-> id, inputs |-> inputs]>>
      BY <1>12, <2>1, OneMessage, Zenon
    <3> QED BY <1>11, <1>12, <1>14, <1>17, <3>1 DEF MessageAt, storageVars
  <2>6. id \in life.epoch..Len(life.order) /\ id - 1 \in life.epoch..id
    BY <1>3
  <2>7. InStage(life, n, "asked", made)'
    BY <1>4, <1>14, <2>3, <2>4, <2>5, <2>6 DEF InStage, Recorded
  <2> QED BY <2>2, <2>7
<1> QED BY <1>14, <1>15, <1>16, <1>17

(***************************************************************************)
(* The steps of the network                                                *)
(***************************************************************************)
\* A step of a node gives every variable a value for every node.
LEMMA PerNodeKept ==
    ASSUME PerNode, NEW n \in Node, NodeStep(n)
    PROVE  PerNode'
<1>1. ASSUME NEW id, NEW absent, NEW vs, NEW ecs, createRecorder(n, id, absent, vs, ecs)
      PROVE  /\ DOMAIN last_consensus_epoch' = Node /\ DOMAIN previous_epoch' = Node
             /\ DOMAIN votes' = Node /\ DOMAIN products' = Node
             /\ DOMAIN epoch_contracts' = Node /\ DOMAIN last_globals' = Node
             /\ DOMAIN commits' = Node /\ DOMAIN running' = Node
  BY <1>1 DEF PerNode, createRecorder, ThrowFromRecorder, CommitShutdown, CommitEpoch,
              FinishEpochs
<1>2. CASE receiveChecked(n)
  <2>1. PICK id, absent, vs, ecs : createRecorder(n, id, absent, vs, ecs)
    BY <1>2 DEF receiveChecked
  <2> QED BY <1>1, <1>2, <2>1 DEF receiveChecked, PerNode, networkVars, storageVars
<1>3. CASE epoch(n)
  <2>1. CASE UNCHANGED dart_box
    <3>1. PICK id, vs, ecs : createRecorder(n, id, {}, vs, ecs)
                             \/ /\ votes' = [votes EXCEPT ![n] = vs]
                                /\ epoch_contracts' = [epoch_contracts EXCEPT ![n] = ecs]
                                /\ UNCHANGED <<last_consensus_epoch, previous_epoch, products,
                                               last_globals, commits, running>>
      BY <1>3 DEF epoch
    <3> QED BY <1>1, <1>3, <2>1, <3>1 DEF epoch, PerNode, networkVars, storageVars
  <2>2. CASE ~UNCHANGED dart_box
    BY <1>3, <2>2 DEF epoch, PerNode, networkVars, storageVars
  <2> QED BY <2>1, <2>2
<1>4. CASE receiveBullseye(n)
  BY <1>4 DEF receiveBullseye, PerNode, executionVars, storageVars
<1>5. CASE epoch_commit(n)
  BY <1>5 DEF epoch_commit, PerNode, networkVars, votingVars, executionVars
<1>6. CASE receiveRecorder(n)
  BY <1>6 DEF receiveRecorder, PerNode, networkVars, votingVars, executionVars
<1>7. CASE checkRead(n)
  BY <1>7 DEF checkRead, PerNode, networkVars, votingVars, executionVars, storageVars
<1>8. CASE modifyDART(n)
  BY <1>8 DEF modifyDART, PerNode, networkVars, votingVars, executionVars
<1>9. CASE \E c \in Contract : produceContract(n, c)
  BY <1>9 DEF produceContract, PerNode, votingVars, boxVars, storageVars
<1>10. CASE scheduleShutdown(n)
  BY <1>10 DEF scheduleShutdown, epoch_shutdown, PerNode, networkVars, votingVars, executionVars,
               boxVars, storageVars
<1>11. CASE stopServices(n)
  BY <1>11 DEF stopServices, PerNode, networkVars, votingVars, executionVars, boxVars, storageVars
<1> QED BY <1>2, <1>3, <1>4, <1>5, <1>6, <1>7, <1>8, <1>9, <1>10, <1>11 DEF NodeStep

\* What every node step keeps of the network.
LEMMA NetworkKept ==
    ASSUME NEW n \in Node, NodeStep(n)
    PROVE  /\ consensus' = consensus
           /\ ballots \subseteq ballots'
           /\ ~receiveBullseye(n) => ballots' = ballots
           /\ ~receiveRecorder(n) => last_block' = last_block
<1>1. CASE epoch(n) \/ receiveChecked(n)
  BY <1>1 DEF epoch, receiveChecked, networkVars, storageVars
<1>2. CASE receiveBullseye(n)
  BY <1>2 DEF receiveBullseye, storageVars
<1>3. CASE epoch_commit(n) \/ receiveRecorder(n) \/ checkRead(n) \/ modifyDART(n)
  BY <1>3 DEF epoch_commit, receiveRecorder, checkRead, modifyDART, networkVars, storageVars
<1>4. CASE \E c \in Contract : produceContract(n, c)
  BY <1>4 DEF produceContract, storageVars
<1>5. CASE scheduleShutdown(n) \/ stopServices(n)
  BY <1>5 DEF scheduleShutdown, epoch_shutdown, stopServices, networkVars, storageVars
<1> QED BY <1>1, <1>2, <1>3, <1>4, <1>5 DEF NodeStep

\* A step of a node takes it to its next stage, and leaves the others in theirs.
LEMMA NodeInStepKept ==
    ASSUME MaxInFlight = 1, ProductsInTime, ShutdownEpoch = {},
           NEW life, InStep(life), NEW n \in Node, NodeStep(n)
    PROVE  NodeInStep(life, n)' /\ StageOthersKept(n) /\ VotesDetermined(life)'
<1>1. PICK stage \in Stage, made \in life.epoch..last_epoch_number[n] :
          InStage(life, n, stage, made)
  BY DEF InStep, NodeInStep
<1>2. {"idle", "asked", "answered", "recorded", "storing", "stored", "logged"} = Stage
  BY DEF Stage
<1>3. ASSUME NEW next \in Stage, NEW now, InStage(life, n, next, now)' PROVE NodeInStep(life, n)'
  <2>1. PICK taken : taken = last_epoch_number'[n]
    OBVIOUS
  <2>2. PICK called \in {taken - 1, taken} : MakesUpTo(life, n, now, called)
    BY <1>3, <2>1 DEF InStage
  <2>3. taken \in life.epoch..Len(life.order)
    BY <1>3, <2>1 DEF InStage
  <2>4. now \in life.epoch..taken
    BY <2>2, <2>3 DEF MakesUpTo, InStep, LifeOK
  <2> QED BY <1>3, <2>1, <2>4 DEF NodeInStep
<1>4. ASSUME ~receiveBullseye(n), ~receiveRecorder(n) PROVE VotesDetermined(life)'
  <2>1. ballots' = ballots /\ last_block' = last_block
    BY <1>4, NetworkKept
  <2>2. VotesDetermined(life)
    BY DEF InStep
  <2> QED BY <2>1, <2>2 DEF VotesDetermined
<1>5. CASE receiveBullseye(n)
  BY <1>1, <1>2, <1>3, <1>5, BullseyeStage
<1>6. CASE receiveRecorder(n)
  BY <1>1, <1>2, <1>3, <1>6, ReplicateStage
<1>7. CASE ~receiveBullseye(n) /\ ~receiveRecorder(n)
  <2>1. CASE epoch(n) /\ Timely(n)
    <3>1. StageOthersKept(n)
      BY <1>1, <2>1, EpochStage
    <3>2. InStage(life, n, "asked", made)' \/ Records(life, n, made)
      BY <1>1, <2>1, EpochStage
    <3>3. \E next \in Stage : \E now : InStage(life, n, next, now)'
      BY <1>2, <3>2 DEF Records
    <3> QED BY <1>3, <1>4, <1>7, <3>1, <3>3
  <2>2. CASE receiveChecked(n)
    <3>1. Records(life, n, made) /\ StageOthersKept(n)
      BY <1>1, <2>2, CheckedStage
    <3>2. \E next \in Stage : \E now : InStage(life, n, next, now)'
      BY <1>2, <3>1 DEF Records
    <3> QED BY <1>3, <1>4, <1>7, <3>1, <3>2
  <2>3. CASE epoch_commit(n)
    BY <1>1, <1>2, <1>3, <1>4, <1>7, <2>3, CommitStage
  <2>4. CASE checkRead(n)
    BY <1>1, <1>2, <1>3, <1>4, <1>7, <2>4, CheckReadStage
  <2>5. CASE modifyDART(n)
    BY <1>1, <1>2, <1>3, <1>4, <1>7, <2>5, ModifyStage
  <2>6. CASE \E c \in Contract : produceContract(n, c)
    <3>1. PICK c \in Contract : produceContract(n, c)
      BY <2>6
    <3> QED BY <1>1, <1>3, <1>4, <1>7, <3>1, ProduceStage
  <2>7. CASE scheduleShutdown(n) \/ stopServices(n)
    <3>1. running[n] = "up"
      BY <1>1 DEF InStage, TranscriptAt
    <3> QED BY <2>7, <3>1 DEF scheduleShutdown, stopServices
  <2> QED BY <1>7, <2>1, <2>2, <2>3, <2>4, <2>5, <2>6, <2>7 DEF NodeStep
<1> QED BY <1>5, <1>6, <1>7

\* A step of a node keeps all nodes in step.
LEMMA InStepOfNode ==
    ASSUME MaxInFlight = 1, ProductsInTime, ShutdownEpoch = {},
           NEW life, InStep(life), NEW n \in Node, NodeStep(n)
    PROVE  InStep(life)'
<1>1. NodeInStep(life, n)' /\ StageOthersKept(n) /\ VotesDetermined(life)'
  BY NodeInStepKept
<1>2. PerNode' /\ life.order = consensus' /\ ballots \subseteq ballots'
  BY PerNodeKept, NetworkKept DEF InStep
<1>3. ASSUME NEW m \in Node \ {n} PROVE NodeInStep(life, m)'
  <2>1. PICK stage \in Stage, made \in life.epoch..last_epoch_number[m] :
            InStage(life, m, stage, made)
    BY DEF InStep, NodeInStep
  <2>2. InStage(life, m, stage, made)'
    BY <1>1, <2>1, StageKept DEF StageOthersKept
  <2>3. last_epoch_number'[m] = last_epoch_number[m]
    BY <1>1 DEF StageOthersKept, StageView
  <2> QED BY <2>1, <2>2, <2>3 DEF NodeInStep
<1>4. \A m \in Node : NodeInStep(life, m)'
  BY <1>1, <1>3
<1>5. VotesFollow(life)'
  BY <1>2 DEF InStep, VotesFollow
<1>6. LifeOK(life)' /\ ContractsOnce(life)'
  BY DEF InStep, LifeOK, ContractsOnce, ContractsOf
<1> QED BY <1>1, <1>2, <1>4, <1>5, <1>6 DEF InStep

\* No node has logged more epochs than there are.
LEMMA LoggedWithin ==
    ASSUME NEW life, InStep(life), NEW n \in Node
    PROVE  /\ Len(last_block[n]) \in Nat
           /\ life.epoch + Len(last_block[n]) \in life.epoch..Len(life.order)
<1>1. PICK stage \in Stage, made \in life.epoch..last_epoch_number[n] :
          InStage(life, n, stage, made)
  BY DEF InStep, NodeInStep
<1>2. PICK taken : taken = last_epoch_number[n]
  OBVIOUS
<1>3. PICK before : before = IF stage = "idle" THEN taken ELSE taken - 1
  OBVIOUS
<1>4. PICK stored : stored = IF stage \in {"recorded", "storing"} THEN before ELSE made
  OBVIOUS
<1>5. PICK logged : logged = IF stage \in {"recorded", "storing", "stored"} THEN before ELSE made
  OBVIOUS
<1>6. /\ taken \in life.epoch..Len(life.order) /\ before \in life.epoch..taken
      /\ StorageAt(life, n, stored, logged)
  BY <1>1, <1>2, <1>3, <1>4, <1>5 DEF InStage
<1>7. life.epoch \in Nat /\ Len(life.order) \in Nat
  BY DEF InStep, LifeOK
<1>8. logged \in life.epoch..Len(life.order)
  BY <1>1, <1>2, <1>5, <1>6, <1>7
<1>9. Len(last_block[n]) = logged - life.epoch
  BY <1>6, <1>7, <1>8 DEF StorageAt, LogTo
<1> QED BY <1>7, <1>8, <1>9

\* A step that changes none of the variables of the pipeline.
LEMMA InStepKept ==
    ASSUME NEW life, InStep(life), UNCHANGED vars
    PROVE  InStep(life)'
<1>1. /\ UNCHANGED <<consensus, ballots, last_block>>
      /\ \A n \in Node : UNCHANGED StageView(n)
  BY DEF vars, networkVars, votingVars, executionVars, boxVars, storageVars, StageView
<1>2. ASSUME NEW n \in Node PROVE NodeInStep(life, n)'
  <2>1. PICK stage \in Stage, made \in life.epoch..last_epoch_number[n] :
            InStage(life, n, stage, made)
    BY DEF InStep, NodeInStep
  <2>2. InStage(life, n, stage, made)'
    BY <1>1, <2>1, StageKept
  <2>3. last_epoch_number'[n] = last_epoch_number[n]
    BY <1>1 DEF StageView
  <2> QED BY <2>1, <2>2, <2>3 DEF NodeInStep
<1>3. PerNode'
  BY DEF InStep, PerNode, vars, networkVars, votingVars, executionVars, boxVars, storageVars
<1>4. VotesFollow(life)' /\ VotesDetermined(life)'
  BY <1>1 DEF InStep, VotesFollow, VotesDetermined
<1>5. LifeOK(life)' /\ ContractsOnce(life)'
  BY DEF InStep, LifeOK, ContractsOnce, ContractsOf
<1> QED BY <1>1, <1>2, <1>3, <1>4, <1>5 DEF InStep

\* Another epoch keeps what the order determined.
LEMMA InStepOfDecide ==
    ASSUME NEW life, InStep(life), decideEpoch, NEW later,
           later.epoch = life.epoch, later.dart = life.dart, later.order = consensus'
    PROVE  InStep(later)' /\ Continues(life, later)
<1>1. PICK S \in SUBSET (Contract \ CarriedContracts) :
          \E cs \in Orders(S) : \E ballot \in SUBSET (ballots \ CarriedVotes) :
          \E w \in Witnesses :
              consensus' = Append(consensus, [contracts |-> cs, votes |-> ballot,
                                              witnesses |-> w])
  BY DEF decideEpoch
<1>2. PICK cs \in Orders(S), ballot \in SUBSET (ballots \ CarriedVotes), w \in Witnesses :
          consensus' = Append(consensus, [contracts |-> cs, votes |-> ballot, witnesses |-> w])
  BY <1>1
<1>3. UNCHANGED <<ballots, produced, running, shutdown, last_epoch_number, votingVars,
                  executionVars, boxVars, storageVars>>
  BY DEF decideEpoch
<1>4. /\ life.order = consensus /\ LifeOK(life) /\ PerNode
      /\ ContractsOnce(life) /\ VotesFollow(life) /\ VotesDetermined(life)
      /\ \A n \in Node : NodeInStep(life, n)
  BY DEF InStep
<1> DEFINE k == Len(consensus)
<1>5. /\ consensus \in Seq(ConsensusEpoch) /\ k \in Nat
      /\ life.epoch \in 0..k /\ life.dart \in Content /\ life.dart.head = life.epoch
  BY <1>4 DEF LifeOK
<1>6. [contracts |-> cs, votes |-> ballot, witnesses |-> w] \in ConsensusEpoch
  <2>1. cs \in Seq(Contract)
    BY OrderIsSequence
  <2>2. ballot \in SUBSET ConsensusVoting
    BY <1>4 DEF VotesDetermined
  <2> QED BY <2>1, <2>2 DEF ConsensusEpoch
<1>7. /\ later.order \in Seq(ConsensusEpoch) /\ Len(later.order) = k + 1
      /\ \A i \in 1..k : later.order[i] = life.order[i]
      /\ later.order[k + 1] = [contracts |-> cs, votes |-> ballot, witnesses |-> w]
      /\ \A i \in DOMAIN later.order : i \in 1..k \/ i = k + 1
  BY <1>2, <1>4, <1>5, <1>6
<1>8. LifeOK(later)
  BY <1>5, <1>7 DEF LifeOK
<1> HIDE DEF k
<1>9. Continues(life, later)
  <2>1. Len(life.order) = k
    BY <1>4 DEF k
  <2> QED BY <1>4, <1>5, <1>7, <1>8, <2>1 DEF Continues
<1>10. ContractsOnce(later)
  <2>1. ASSUME NEW i \in 1..k
        PROVE  /\ ContractsOf(later, i) = ContractsOf(life, i) /\ i \in DOMAIN life.order
               /\ ContractsOf(life, i) \subseteq CarriedContracts
    <3>1. i \in DOMAIN consensus
      BY <1>5 DEF k
    <3> QED BY <1>4, <1>7, <3>1 DEF ContractsOf, CarriedContracts
  <2>2. ContractsOf(later, k + 1) \subseteq S
    <3>1. {cs[j] : j \in DOMAIN cs} = S
      BY DEF Orders
    <3> QED BY <1>7, <3>1 DEF ContractsOf
  <2>3. S \cap CarriedContracts = {}
    BY <1>1
  <2>4. ASSUME NEW i \in DOMAIN later.order, NEW j \in DOMAIN later.order, i # j
        PROVE  ContractsOf(later, i) \cap ContractsOf(later, j) = {}
    <3>1. CASE i \in 1..k /\ j \in 1..k
      BY <1>4, <2>1, <2>4, <3>1 DEF ContractsOnce
    <3>2. CASE i \in 1..k /\ j = k + 1
      BY <2>1, <2>2, <2>3, <3>2
    <3>3. CASE i = k + 1 /\ j \in 1..k
      BY <2>1, <2>2, <2>3, <3>3
    <3> QED BY <1>7, <2>4, <3>1, <3>2, <3>3
  <2> QED BY <2>4 DEF ContractsOnce
<1>11. \A v \in ballots : v.epoch \in (life.epoch + 1)..k
  <2> TAKE v \in ballots
  <2>1. /\ v \in ConsensusVoting
        /\ v.epoch \in (life.epoch + 1)..(life.epoch + Len(last_block[v.owner]))
    BY <1>4 DEF VotesDetermined
  <2>2. life.epoch + Len(last_block[v.owner]) \in life.epoch..Len(life.order)
    BY <2>1, LoggedWithin DEF ConsensusVoting
  <2> QED BY <1>4, <1>5, <2>1, <2>2 DEF k
<1>12. VotesFollow(later)'
  <2>1. ASSUME NEW i \in DOMAIN later.order, NEW v \in later.order[i].votes
        PROVE  v \in ballots /\ v.epoch < i
    <3>1. CASE i \in 1..k
      <4>1. i \in DOMAIN life.order /\ later.order[i] = life.order[i]
        BY <1>4, <1>5, <1>7, <3>1 DEF k
      <4> QED BY <1>4, <2>1, <4>1 DEF VotesFollow
    <3>2. CASE i = k + 1
      BY <1>5, <1>7, <1>11, <2>1, <3>2
    <3> QED BY <1>7, <3>1, <3>2
  <2> QED BY <1>3, <2>1 DEF VotesFollow
<1>13. VotesDetermined(later)'
  <2>1. \A e \in (life.epoch + 1)..k, m \in Node : DartAt(later, m, e) = DartAt(life, m, e)
    <3>1. \A e \in (life.epoch + 1)..k : e \in life.epoch..Len(life.order)
      BY <1>4, <1>5 DEF k
    <3> QED BY <1>9, <3>1, DeterminedKept
  <2>2. \A v \in ballots : v.owner \in Node
    BY <1>4 DEF VotesDetermined, ConsensusVoting
  <2> QED BY <1>3, <1>4, <1>11, <2>1, <2>2 DEF VotesDetermined, storageVars
<1>14. ASSUME NEW n \in Node PROVE NodeInStep(later, n)'
  <2>1. PICK stage \in Stage, made \in life.epoch..last_epoch_number[n] :
            InStage(life, n, stage, made)
    BY <1>4 DEF NodeInStep
  <2>2. InStage(later, n, stage, made)
    BY <1>9, <2>1, StageContinues
  <2>3. UNCHANGED StageView(n)
    BY <1>3 DEF StageView, votingVars, executionVars, boxVars, storageVars
  <2>4. InStage(later, n, stage, made)'
    BY <2>2, <2>3, StageKept
  <2>5. last_epoch_number'[n] = last_epoch_number[n]
    BY <2>3 DEF StageView
  <2> QED BY <2>1, <2>4, <2>5 DEF NodeInStep
<1>15. PerNode'
  BY <1>3, <1>4 DEF PerNode, votingVars, executionVars, boxVars, storageVars
<1>16. InStep(later)'
  BY <1>8, <1>10, <1>12, <1>13, <1>14, <1>15 DEF InStep, LifeOK, ContractsOnce, ContractsOf
<1> QED BY <1>9, <1>16

\* In the beginning every node is idle.
LEMMA InitInStep ==
    ASSUME Init
    PROVE  InStepInvariant
<1>1. PICK life : life = LifeFrom(0, GenesisDART)
  OBVIOUS
<1>2. life = [epoch |-> 0, dart |-> GenesisDART, order |-> <<>>]
  BY <1>1 DEF Init, LifeFrom
<1>3. LifeOK(life) /\ Len(life.order) = 0
  <2>1. GenesisDART \in Content /\ GenesisDART.head = 0
    BY DEF GenesisDART, Content, Archive
  <2>2. <<>> \in Seq(ConsensusEpoch)
    OBVIOUS
  <2> QED BY <1>2, <2>1, <2>2 DEF LifeOK
<1>4. Determined(life)[0] = [dart |-> GenesisDART, finished |-> 0]
  BY <1>2, <1>3, LifeDetermined
<1>5. ContractsOnce(life) /\ VotesFollow(life) /\ VotesDetermined(life)
  BY <1>2 DEF Init, ContractsOnce, VotesFollow, VotesDetermined
<1>6. ASSUME NEW n \in Node PROVE InStage(life, n, "idle", 0)
  <2>1. TranscriptAt(life, n, 0, 0, 0, 0)
    <3>1. ChainTo(life, n, 0) = <<>> /\ 1..0 = {}
      BY <1>2 DEF ChainTo
    <3>2. [e \in 1..0 |-> EntryAt(life, n, e, 0, 0)] = <<>>
          /\ [e \in 1..0 |-> WaitingAt(life, n, e)] = <<>>
      BY <3>1
    <3> QED BY <1>2, <1>4, <3>1, <3>2 DEF Init, TranscriptAt
  <2>2. StorageAt(life, n, 0, 0)
    <3>1. DartAt(life, n, 0) = GenesisDART
      BY <1>2, <1>3, NodeOfLife
    <3> QED BY <1>2, <3>1 DEF Init, StorageAt, LogTo
  <2>3. MessageAt(life, n, "idle", 0)
    BY DEF Init, MessageAt
  <2>4. last_epoch_number[n] = 0 /\ 0 \in life.epoch..0
    BY <1>2 DEF Init
  <2>5. MakesUpTo(life, n, 0, 0)
    BY <1>2 DEF MakesUpTo, Split
  <2> QED BY <1>2, <1>3, <2>1, <2>2, <2>3, <2>4, <2>5 DEF InStage, Recorded
<1>7. PerNode
  BY DEF Init, PerNode
<1>8. life.order = consensus
  BY <1>2 DEF Init
<1>9. InStep(life)
  <2>1. ASSUME NEW n \in Node PROVE NodeInStep(life, n)
    <3>1. last_epoch_number[n] = 0 /\ 0 \in life.epoch..0 /\ "idle" \in Stage
      BY <1>2 DEF Init, Stage
    <3> QED BY <1>6, <3>1 DEF NodeInStep
  <2> QED BY <1>3, <1>5, <1>7, <1>8, <2>1 DEF InStep
<1> QED BY <1>1, <1>9 DEF InStepInvariant

\* Every step of the network keeps the nodes in step.
LEMMA NextInStep ==
    ASSUME MaxInFlight = 1, ProductsInTime, ShutdownEpoch = {}, InStepInvariant, [Next]_vars
    PROVE  InStepInvariant'
<1>1. PICK life : life = LifeFrom(0, GenesisDART)
  OBVIOUS
<1>2. PICK later : later = LifeFrom(0, GenesisDART)'
  OBVIOUS
<1>3. InStep(life)
  BY <1>1 DEF InStepInvariant
<1>4. SUFFICES InStep(later)'
  BY <1>2 DEF InStepInvariant
<1>5. CASE decideEpoch
  <2>1. later.epoch = life.epoch /\ later.dart = life.dart /\ later.order = consensus'
    BY <1>1, <1>2 DEF LifeFrom
  <2> QED BY <1>3, <1>5, <2>1, InStepOfDecide
<1>6. CASE \E n \in Node : NodeStep(n)
  <2>1. PICK n \in Node : NodeStep(n)
    BY <1>6
  <2>2. InStep(life)' /\ consensus' = consensus
    BY <1>3, <2>1, InStepOfNode, NetworkKept
  <2>3. later = life
    BY <1>1, <1>2, <2>2 DEF LifeFrom
  <2> QED BY <2>2, <2>3
<1>7. CASE UNCHANGED vars
  <2>1. later = life
    BY <1>1, <1>2, <1>7 DEF LifeFrom, vars, networkVars
  <2>2. InStep(life)'
    BY <1>3, <1>7, InStepKept
  <2> QED BY <2>1, <2>2
<1> QED BY <1>5, <1>6, <1>7 DEF Next, Transcript, DARTService, TVM, NodeStep

\* Nodes that take an epoch when the one before is stored, with the products of its
\* contracts at hand and no shutdown scheduled, hold at every moment what the consensus
\* order and the witnesses they had determine: the recorders that createRecorder makes, the
\* DART that they give, the blocks of the replicator, the finished Epoch records and the
\* votes. A node makes recorders until it is brought a vote of a node with other witnesses.
THEOREM InStepHolds ==
    ASSUME MaxInFlight = 1, ProductsInTime, ShutdownEpoch = {}
    PROVE  Spec => []InStepInvariant
<1>1. InStepInvariant /\ [Next]_vars => InStepInvariant'
  BY NextInStep
<1> QED BY <1>1, InitInStep, PTL DEF Spec

--------------------------------------------------------------------------------
(***************************************************************************)
(* What follows for the nodes                                              *)
(***************************************************************************)

\* The log of a node is its log of the life up to some epoch.
LEMMA LogOfLife ==
    ASSUME NEW life, InStep(life), NEW n \in Node
    PROVE  \E k \in life.epoch..Len(life.order) : last_block[n] = LogTo(life, n, k)
<1>1. PICK stage \in Stage, made \in life.epoch..last_epoch_number[n] :
          InStage(life, n, stage, made)
  BY DEF InStep, NodeInStep
<1>2. PICK taken : taken = last_epoch_number[n]
  OBVIOUS
<1>3. PICK before : before = IF stage = "idle" THEN taken ELSE taken - 1
  OBVIOUS
<1>4. PICK stored : stored = IF stage \in {"recorded", "storing"} THEN before ELSE made
  OBVIOUS
<1>5. PICK logged : logged = IF stage \in {"recorded", "storing", "stored"} THEN before ELSE made
  OBVIOUS
<1>6. /\ taken \in life.epoch..Len(life.order) /\ before \in life.epoch..taken
      /\ StorageAt(life, n, stored, logged)
  BY <1>1, <1>2, <1>3, <1>4, <1>5 DEF InStage
<1>7. life.epoch \in Nat /\ Len(life.order) \in Nat
  BY DEF InStep, LifeOK
<1>8. logged \in life.epoch..Len(life.order)
  BY <1>1, <1>2, <1>5, <1>6, <1>7
<1> QED BY <1>6, <1>8 DEF StorageAt

\* Two nodes have the same block of an epoch, but for the WitnessHead.
LEMMA BlocksAlike ==
    ASSUME NEW life, LifeOK(life), NEW n \in Node, NEW m \in Node,
           NEW i \in (life.epoch + 1)..Len(life.order)
    PROVE  /\ ButWitnesses(RecorderAt(life, n, i)) = ButWitnesses(RecorderAt(life, m, i))
           /\ ButWitnesses(DartAt(life, n, i)) = ButWitnesses(DartAt(life, m, i))
<1>1. i \in life.epoch..Len(life.order)
  BY DEF LifeOK
<1>2. /\ ButWitnesses(DartAt(life, n, i)) = ButWitnesses(Determined(life)[i].dart)
      /\ ButWitnesses(DartAt(life, m, i)) = ButWitnesses(Determined(life)[i].dart)
  BY <1>1, NodeOfLife
<1>3. /\ ButWitnesses(RecorderAt(life, n, i)) = SharedAt(life, i)
      /\ ButWitnesses(RecorderAt(life, m, i)) = SharedAt(life, i)
  BY RecorderOfNode
<1> QED BY <1>2, <1>3

\* A block of a log, but for the WitnessHead.
LEMMA BlockOfLog ==
    ASSUME NEW life, LifeOK(life), NEW n \in Node, NEW k \in life.epoch..Len(life.order),
           NEW log, log = LogTo(life, n, k), NEW i \in 1..(k - life.epoch)
    PROVE  LogButWitnesses(log)[i] =
               [epoch |-> life.epoch + i,
                recorder |-> ButWitnesses(RecorderAt(life, n, life.epoch + i)),
                bullseye |-> ButWitnesses(DartAt(life, n, life.epoch + i))]
<1>1. PICK e : e = life.epoch + i
  OBVIOUS
<1>2. PICK r, d : r = RecorderAt(life, n, e) /\ d = DartAt(life, n, e)
  OBVIOUS
<1>3. i \in DOMAIN log /\ log[i] = [epoch |-> e, recorder |-> r, bullseye |-> d]
  BY <1>1, <1>2 DEF LogTo, BlockAt
<1>4. LogButWitnesses(log)[i] =
          [log[i] EXCEPT !.recorder = ButWitnesses(@), !.bullseye = ButWitnesses(@)]
  BY <1>3 DEF LogButWitnesses
<1>4a. PICK p, q : p = ButWitnesses(r) /\ q = ButWitnesses(d)
  OBVIOUS
<1>4b. PICK x : x = [epoch |-> e, recorder |-> r, bullseye |-> d]
  OBVIOUS
<1>5. LogButWitnesses(log)[i] =
          [epoch |-> e, recorder |-> ButWitnesses(r), bullseye |-> ButWitnesses(d)]
  <2>1. x.recorder = r /\ x.bullseye = d
    BY <1>4b
  <2>2. LogButWitnesses(log)[i] =
            [x EXCEPT !.recorder = ButWitnesses(@), !.bullseye = ButWitnesses(@)]
    BY <1>3, <1>4, <1>4b
  <2>3. LogButWitnesses(log)[i] = [x EXCEPT !.recorder = p, !.bullseye = q]
    BY <1>4a, <2>1, <2>2, Zenon
  <2> QED BY <1>4a, <1>4b, <2>3
<1> QED BY <1>1, <1>2, <1>5

\* The logs of two nodes of a life are prefixes of one another, but for the WitnessHeads.
LEMMA LogsOfLife ==
    ASSUME NEW life, InStep(life), NEW n \in Node, NEW m \in Node
    PROVE  Chain!Compatible(LogButWitnesses(last_block[n]), LogButWitnesses(last_block[m]))
<1>1. PICK k \in life.epoch..Len(life.order) : last_block[n] = LogTo(life, n, k)
  BY LogOfLife
<1>2. PICK l \in life.epoch..Len(life.order) : last_block[m] = LogTo(life, m, l)
  BY LogOfLife
<1>3. PICK s, t : s = LogButWitnesses(last_block[n]) /\ t = LogButWitnesses(last_block[m])
  OBVIOUS
<1>4. /\ LifeOK(life) /\ life.epoch \in Nat /\ Len(life.order) \in Nat
      /\ k \in Nat /\ l \in Nat /\ life.epoch <= k /\ life.epoch <= l
  BY DEF InStep, LifeOK
<1>5. Len(s) = k - life.epoch /\ Len(t) = l - life.epoch
  <2>1. /\ DOMAIN last_block[n] = 1..(k - life.epoch)
        /\ DOMAIN last_block[m] = 1..(l - life.epoch)
    BY <1>1, <1>2 DEF LogTo
  <2>2. /\ DOMAIN s = 1..(k - life.epoch) /\ s = [i \in DOMAIN s |-> s[i]]
        /\ DOMAIN t = 1..(l - life.epoch) /\ t = [i \in DOMAIN t |-> t[i]]
    <3> HIDE DEF ButWitnesses
    <3> QED BY <1>3, <2>1 DEF LogButWitnesses
  <2>3. k - life.epoch \in Nat /\ l - life.epoch \in Nat
    BY <1>4
  <2> QED BY <2>2, <2>3
<1>6. ASSUME NEW i \in (1..Len(s)) \cap (1..Len(t)) PROVE s[i] = t[i]
  <2>1. PICK e : e = life.epoch + i
    OBVIOUS
  <2>2. /\ e \in (life.epoch + 1)..Len(life.order)
        /\ i \in 1..(k - life.epoch) /\ i \in 1..(l - life.epoch)
    BY <1>4, <1>5, <2>1
  <2>3. s[i] = [epoch |-> e, recorder |-> ButWitnesses(RecorderAt(life, n, e)),
                bullseye |-> ButWitnesses(DartAt(life, n, e))]
    BY <1>1, <1>3, <1>4, <2>1, <2>2, BlockOfLog
  <2>4. t[i] = [epoch |-> e, recorder |-> ButWitnesses(RecorderAt(life, m, e)),
                bullseye |-> ButWitnesses(DartAt(life, m, e))]
    BY <1>2, <1>3, <1>4, <2>1, <2>2, BlockOfLog
  <2>5. /\ ButWitnesses(RecorderAt(life, n, e)) = ButWitnesses(RecorderAt(life, m, e))
        /\ ButWitnesses(DartAt(life, n, e)) = ButWitnesses(DartAt(life, m, e))
    BY <1>4, <2>2, BlocksAlike
  <2> QED BY <2>3, <2>4, <2>5
<1> QED BY <1>3, <1>6 DEF Chain!Compatible

\* The WitnessHead is all that two nodes store differently: of their logs one is a prefix
\* of the other, with the same recorders and DARTs but for the WitnessHeads, although
\* nothing is exchanged to make it so, and also when the nodes have different bullseyes.
THEOREM NodesMakeSameRecorders ==
    ASSUME MaxInFlight = 1, ProductsInTime, ShutdownEpoch = {}
    PROVE  Spec => []SameRecorders
<1>1. InStepInvariant => SameRecorders
  <2> SUFFICES ASSUME InStepInvariant, NEW n \in Node, NEW m \in Node
               PROVE  Chain!Compatible(LogButWitnesses(last_block[n]),
                                       LogButWitnesses(last_block[m]))
    BY DEF SameRecorders
  <2>1. PICK life : life = LifeFrom(0, GenesisDART)
    OBVIOUS
  <2>2. InStep(life)
    BY <2>1 DEF InStepInvariant
  <2> QED BY <2>2, LogsOfLife
<1> QED BY <1>1, InStepHolds, PTL

(* The epoch chain in a DART goes to epoch last: those are stored as finished, the others
   up to the head without signatures, and only the others hold locked archives. *)
ChainIn(content, last) ==
    /\ content.final = 1..last
    /\ content.open = (last + 1)..content.head
    /\ content.locked = content.open

\* The recorder of an epoch opens it and finishes those after the last one.
LEMMA ChainGrows ==
    ASSUME NEW content, NEW r, NEW i \in Nat \ {0}, NEW x \in Nat, NEW y \in Nat,
           x <= y, y < i, ChainIn(content, x), content.head = i - 1,
           r.head = i, r.open = {i}, r.final = (x + 1)..y
    PROVE  ChainIn(modify(content, r), y)
<1>1. /\ modify(content, r).head = i
      /\ modify(content, r).final = content.final \cup r.final
      /\ modify(content, r).open = (content.open \ r.final) \cup r.open
      /\ modify(content, r).locked = (content.locked \ r.final) \cup r.open
  BY DEF modify
<1>2. (1..x) \cup ((x + 1)..y) = 1..y
  OBVIOUS
<1>3. (((x + 1)..(i - 1)) \ ((x + 1)..y)) \cup {i} = (y + 1)..i
  OBVIOUS
<1>4. /\ content.final = 1..x /\ content.open = (x + 1)..(i - 1)
      /\ content.locked = (x + 1)..(i - 1)
  BY DEF ChainIn
<1>5. /\ modify(content, r).final = 1..y
      /\ modify(content, r).open = (y + 1)..i
      /\ modify(content, r).locked = (y + 1)..i
  BY <1>1, <1>2, <1>3, <1>4
<1> QED BY <1>1, <1>5 DEF ChainIn

\* The chain that the order determines goes to the last epoch that it finishes.
LEMMA ChainOfLife ==
    ASSUME NEW life, LifeOK(life), ChainIn(life.dart, life.epoch)
    PROVE  \A i \in life.epoch..Len(life.order) :
               ChainIn(Determined(life)[i].dart, Determined(life)[i].finished)
<1> DEFINE a == life.epoch
           b == Len(life.order)
           T == {i \in Nat : ChainIn(Determined(life)[i].dart, Determined(life)[i].finished)}
<1>1. a \in Nat /\ b \in Nat
  BY DEF LifeOK
<1>2. a \in T
  <2>1. Determined(life)[a] = [dart |-> life.dart, finished |-> a]
    BY LifeDetermined, Zenon
  <2>2. Determined(life)[a].dart = life.dart /\ Determined(life)[a].finished = life.epoch
    BY <2>1
  <2>3. ChainIn(Determined(life)[a].dart, Determined(life)[a].finished)
    BY <2>2
  <2> QED BY <1>1, <2>3
<1>3. ASSUME NEW i \in (a + 1)..b, i - 1 \in T PROVE i \in T
  <2>1. i \in Nat \ {0} /\ i - 1 \in a..b
    BY <1>1
  <2>2. RecorderOK(life, i) /\ StateOK(life, i - 1)
    BY <2>1, LifeDetermined
  <2>3. PICK r, content, x, y : /\ r = SharedAt(life, i)
                                /\ content = Determined(life)[i - 1].dart
                                /\ x = Determined(life)[i - 1].finished
                                /\ y = Determined(life)[i].finished
    OBVIOUS
  <2>4. /\ r.head = i /\ r.open = {i} /\ r.final = (x + 1)..y
        /\ y = x + Cardinality(r.final) /\ Cardinality(r.final) \in Nat /\ y < i
        /\ Determined(life)[i].dart = modify(content, r)
    BY <2>2, <2>3 DEF RecorderOK
  <2>5. x \in Nat /\ content.head = i - 1
    BY <1>1, <2>1, <2>2, <2>3 DEF StateOK
  <2>6. y \in Nat /\ x <= y
    BY <2>4, <2>5
  <2>7. ChainIn(content, x)
    BY <1>3, <2>3
  <2>8. ChainIn(modify(content, r), y)
    BY <2>1, <2>4, <2>5, <2>6, <2>7, ChainGrows
  <2> QED BY <2>1, <2>3, <2>4, <2>8
<1> HIDE DEF T
<1>4. \A i \in a..b : i \in T
  BY <1>1, <1>2, <1>3, UpTo
<1> QED BY <1>4 DEF T

\* Epochs stay finished.
LEMMA FinishedGrows ==
    ASSUME NEW life, LifeOK(life), NEW i \in life.epoch..Len(life.order)
    PROVE  \A j \in i..Len(life.order) : Determined(life)[i].finished <= Determined(life)[j].finished
<1> DEFINE b == Len(life.order)
           T == {j \in Nat : Determined(life)[i].finished <= Determined(life)[j].finished}
<1>1. life.epoch \in Nat /\ b \in Nat /\ i \in Nat
  BY DEF LifeOK
<1>2. Determined(life)[i].finished \in Nat
  <2>1. StateOK(life, i)
    BY LifeDetermined
  <2> QED BY <1>1, <2>1 DEF StateOK
<1>3. i \in T
  BY <1>1, <1>2
<1>4. ASSUME NEW j \in (i + 1)..b, j - 1 \in T PROVE j \in T
  <2>1. j \in (life.epoch + 1)..b /\ j - 1 \in life.epoch..b /\ j \in Nat
    BY <1>1
  <2>2. PICK x, y, z, k : /\ x = Determined(life)[i].finished
                          /\ y = Determined(life)[j - 1].finished
                          /\ z = Determined(life)[j].finished
                          /\ k = Cardinality(SharedAt(life, j).final)
    OBVIOUS
  <2>3. z = y + k /\ k \in Nat
    BY <2>1, <2>2, LifeDetermined DEF RecorderOK
  <2>4. x \in Nat /\ y \in Nat /\ x <= y
    <3>1. StateOK(life, j - 1)
      BY <2>1, LifeDetermined
    <3>2. y \in life.epoch..(j - 1)
      BY <2>2, <3>1 DEF StateOK
    <3> QED BY <1>1, <1>2, <1>4, <2>1, <2>2, <3>2
  <2>5. x <= z
    BY <2>3, <2>4
  <2> QED BY <2>1, <2>2, <2>5
<1> HIDE DEF T
<1>5. \A j \in i..b : j \in T
  BY <1>1, <1>3, <1>4, UpTo
<1> QED BY <1>5 DEF T

\* A quiescent node is between two epochs.
LEMMA QuiescentIsIdle ==
    ASSUME NEW life, InStep(life), NEW n \in Node, Quiescent(n)
    PROVE  \E made \in life.epoch..last_epoch_number[n] : InStage(life, n, "idle", made)
<1>1. PICK stage \in Stage, made \in life.epoch..last_epoch_number[n] :
          InStage(life, n, stage, made)
  BY DEF InStep, NodeInStep
<1> DEFINE taken == last_epoch_number[n]
<1>2. MessageAt(life, n, stage, taken)
  BY <1>1 DEF InStage
<1>3. /\ dart_box[n] = <<>> /\ checked[n] = <<>> /\ commits[n] = <<>> /\ bullseyes[n] = <<>>
      /\ committing[n] = None
  BY DEF Quiescent
<1>4. stage \notin {"asked", "answered", "recorded", "storing", "logged"}
  BY <1>2, <1>3 DEF MessageAt
<1>5. ASSUME stage = "stored" PROVE FALSE
  <2>1. committing[n] = [id |-> taken, recorder |-> RecorderAt(life, n, taken),
                         at |-> "replicator"]
    BY <1>2, <1>5 DEF MessageAt
  <2>2. LifeOK(life) /\ taken \in (life.epoch + 1)..Len(life.order) /\ taken \in Nat
    BY <1>1, <1>5 DEF InStage, InStep, LifeOK
  <2>3. RecorderAt(life, n, taken) \in Recorder
    BY <2>2, RecorderOfNode
  <2>4. committing[n] \in Committing
    BY <2>1, <2>2, <2>3 DEF Committing
  <2> QED BY <1>3, <2>4, NoneAssumption
<1> QED BY <1>1, <1>4, <1>5 DEF Stage

\* A node that makes no recorder any more knows the vote that disagrees.
LEMMA StuckDisagrees ==
    ASSUME NEW life, InStep(life), NEW n \in Node, NEW made,
           InStage(life, n, "idle", made), made # last_epoch_number[n]
    PROVE  Disagreeing(votes[n]) # {}
<1>1. PICK taken : taken = last_epoch_number[n]
  OBVIOUS
<1>2. PICK fin : fin = Determined(life)[taken].finished
  OBVIOUS
<1>3. /\ taken \in life.epoch..Len(life.order) /\ MakesUpTo(life, n, made, taken)
      /\ TranscriptAt(life, n, taken, taken, made, made)
  BY <1>1 DEF InStage, Recorded
<1>4. LifeOK(life) /\ life.epoch \in Nat /\ Len(life.order) \in Nat /\ taken \in Nat
  BY <1>3 DEF InStep, LifeOK
<1>5. PICK e \in (life.epoch + 1)..made : /\ Disputed(life, n, e, taken)
                                          /\ Determined(life)[taken].finished < e
  BY <1>1, <1>3, <1>4, StuckDisputes
<1>6. votes[n] = [d \in (fin + 1)..made |-> EntryAt(life, n, d, taken, made)]
  BY <1>2, <1>3 DEF TranscriptAt
<1>7. fin \in Nat /\ made \in Nat /\ e \in Nat /\ fin < e /\ e <= made /\ made <= taken
  <2>1. StateOK(life, taken)
    BY <1>3, <1>4, LifeDetermined
  <2>2. fin \in life.epoch..taken
    BY <1>2, <2>1 DEF StateOK
  <2>3. made \in life.epoch..taken
    BY <1>3 DEF MakesUpTo
  <2> QED BY <1>2, <1>4, <1>5, <2>2, <2>3
<1>8. e \in DOMAIN votes[n] /\ votes[n][e] = EntryAt(life, n, e, taken, made)
  BY <1>6, <1>7
<1>9. votes[n][e].votes = VotesOn(life, e, taken) /\ votes[n][e].bullseye = DartAt(life, n, e)
  BY <1>7, <1>8 DEF EntryAt
<1>10. DartAt(life, n, e) # None
  BY <1>3, <1>4, <1>5, <1>7, NodeOfLife
<1>11. \E v \in votes[n][e].votes : v.bullseye # votes[n][e].bullseye
  BY <1>5, <1>9 DEF Disputed
<1> QED BY <1>8, <1>9, <1>10, <1>11 DEF Disagreeing

\* The epoch chain in the DART has no gap and goes to the last epoch that counts as
\* finished, unless a vote disagrees: then the recorder that was to finish the last ones
\* was thrown away.
THEOREM ChainIsInDART ==
    ASSUME MaxInFlight = 1, ProductsInTime, ShutdownEpoch = {}
    PROVE  Spec => []ChainInDART
<1>1. InStepInvariant => ChainInDART
  <2> SUFFICES ASSUME InStepInvariant, NEW n \in Node, Quiescent(n)
               PROVE  \E last \in 0..last_consensus_epoch[n] :
                          /\ ChainIn(dart[n], last)
                          /\ last < last_consensus_epoch[n] => Disagreeing(votes[n]) # {}
    BY DEF ChainInDART, ChainIn
  <2>1. PICK life : life = LifeFrom(0, GenesisDART)
    OBVIOUS
  <2>2. InStep(life) /\ LifeOK(life)
    BY <2>1 DEF InStepInvariant, InStep
  <2>3. life.epoch = 0 /\ life.dart = GenesisDART
    BY <2>1 DEF LifeFrom
  <2>4. ChainIn(life.dart, life.epoch)
    BY <2>3 DEF ChainIn, GenesisDART
  <2>5. PICK made \in life.epoch..last_epoch_number[n] : InStage(life, n, "idle", made)
    BY <2>2, QuiescentIsIdle
  <2>6. PICK taken : taken = last_epoch_number[n]
    OBVIOUS
  <2>7. PICK last : last = Determined(life)[made].finished
    OBVIOUS
  <2>8. /\ taken \in life.epoch..Len(life.order)
        /\ last_consensus_epoch[n] = Determined(life)[taken].finished
        /\ dart[n] = DartAt(life, n, made)
    BY <2>5, <2>6 DEF InStage, TranscriptAt, StorageAt, Recorded
  <2>9. /\ made \in life.epoch..Len(life.order) /\ taken \in made..Len(life.order)
    BY <2>2, <2>5, <2>6, <2>8 DEF LifeOK
  <2>10. ChainIn(dart[n], last)
    <3>1. PICK content : content = Determined(life)[made].dart
      OBVIOUS
    <3>2. ChainIn(content, last)
      BY <2>2, <2>4, <2>7, <2>9, <3>1, ChainOfLife
    <3>3. content \in Content
      BY <2>2, <2>9, <3>1, LifeDetermined DEF StateOK
    <3>4. PICK W : W = HeadAt(life, n, made)
      OBVIOUS
    <3>5. dart[n] = [content EXCEPT !.witnesses = W]
      BY <2>8, <3>1, <3>4 DEF DartAt
    <3>6. /\ dart[n].final = content.final /\ dart[n].open = content.open
          /\ dart[n].head = content.head /\ dart[n].locked = content.locked
      BY <3>3, <3>5 DEF Content
    <3> QED BY <3>2, <3>6 DEF ChainIn
  <2>11. last <= last_consensus_epoch[n] /\ last \in Nat /\ last_consensus_epoch[n] \in Nat
    <3>1. last <= last_consensus_epoch[n]
      BY <2>2, <2>7, <2>8, <2>9, FinishedGrows
    <3>2. StateOK(life, made) /\ StateOK(life, taken)
      BY <2>2, <2>8, <2>9, LifeDetermined
    <3>3. last \in life.epoch..made /\ last_consensus_epoch[n] \in life.epoch..taken
      BY <2>7, <2>8, <3>2 DEF StateOK
    <3> QED BY <2>3, <3>1, <3>3
  <2>12. last < last_consensus_epoch[n] => Disagreeing(votes[n]) # {}
    <3>1. CASE made = taken
      BY <2>7, <2>8, <2>11, <3>1
    <3>2. CASE made # taken
      BY <2>2, <2>5, <2>6, <3>2, StuckDisagrees
    <3> QED BY <3>1, <3>2
  <2>13. last \in 0..last_consensus_epoch[n]
    BY <2>11
  <2> QED BY <2>10, <2>12, <2>13
<1> QED BY <1>1, InStepHolds, PTL
=============================================================================
