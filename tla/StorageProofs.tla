---------------------------- MODULE StorageProofs -----------------------------
(***************************************************************************)
(* The way of the recorders to the DART and to the log.  First the         *)
(* lemmas: what createRecorder executes of an epoch and what replaying the *)
(* log gives, both by induction over the length of a sequence (LeastNat    *)
(* stands for the induction); what is in the mailboxes; and what each kind *)
(* of step does to the recorders that wait and that are stored.  Then      *)
(* FlowInvariant is inductive, one lemma per kind of step, and says what a *)
(* clean shutdown leaves in the DART; with StoresCommitted the log replays *)
(* the DART.                                                               *)
(***************************************************************************)
EXTENDS EpochPipelineProofs, StorageInvariant, WellFoundedInduction

\* A set of natural numbers that is not empty has a least element.
LEMMA LeastNat ==
    ASSUME NEW T \in SUBSET Nat, T # {}
    PROVE  \E x \in T : \A y \in T : x <= y
<1> DEFINE R == {ss \in Nat \X Nat : ss[1] < ss[2]}
<1>1. IsWellFoundedOn(R, Nat)
  BY NatLessThanWellFounded DEF OpToRel
<1>2. \A x, y \in Nat : <<x, y>> \in R <=> x < y
  OBVIOUS
<1> HIDE DEF R
<1>3. PICK x \in T : \A y \in T : <<y, x>> \notin R
  BY <1>1, WFMin
<1>4. ASSUME NEW y \in T PROVE x <= y
  <2>1. x \in Nat /\ y \in Nat /\ ~(y < x)
    BY <1>2, <1>3
  <2> QED BY <2>1
<1> QED BY <1>4

(* What is taken of the first k of a sequence, where Good says which elements may be *)
(* taken and Clash which of them exclude one another. *)
Selects(T, k, Good, Clash) ==
    \A i \in 1..k : i \in T <=> i \in Good /\ \A j \in 1..(i - 1) : j \in T => <<i, j>> \notin Clash

\* One can go through a sequence and take what does not clash with what was taken.
LEMMA SelectionExists ==
    ASSUME NEW Good, NEW Clash, NEW n \in Nat
    PROVE  \E T \in SUBSET (1..n) : Selects(T, n, Good, Clash)
<1> DEFINE Bad == {k \in Nat : ~\E T \in SUBSET (1..k) : Selects(T, k, Good, Clash)}
<1> SUFFICES ASSUME Bad # {} PROVE FALSE
  OBVIOUS
<1>1. PICK k \in Bad : \A y \in Bad : k <= y
  BY LeastNat
<1>2. k # 0
  <2>1. Selects({}, 0, Good, Clash)
    BY DEF Selects
  <2>2. {} \in SUBSET (1..0)
    OBVIOUS
  <2> QED BY <2>1, <2>2
<1>3. k \in Nat /\ k - 1 \in Nat /\ ~(k <= k - 1)
  BY <1>2
<1>4. k - 1 \notin Bad
  BY <1>1, <1>3
<1>5. PICK T \in SUBSET (1..(k - 1)) : Selects(T, k - 1, Good, Clash)
  BY <1>3, <1>4
<1> DEFINE take == k \in Good /\ \A j \in 1..(k - 1) : j \in T => <<k, j>> \notin Clash
           U == IF take THEN T \cup {k} ELSE T
<1>6. U \in SUBSET (1..k) /\ k \notin T
  BY <1>3
<1>7. \A i \in 1..(k - 1) : i \in U <=> i \in T
  BY <1>3
<1>8. k \in U <=> take
  BY <1>6
<1> HIDE DEF U
<1>9. Selects(U, k, Good, Clash)
  <2> SUFFICES ASSUME NEW i \in 1..k
               PROVE  i \in U <=> i \in Good /\ \A j \in 1..(i - 1) : j \in U => <<i, j>> \notin Clash
    BY DEF Selects
  <2>1. \A j \in 1..(i - 1) : j \in 1..(k - 1)
    BY <1>3
  <2>2. CASE i = k
    BY <1>7, <1>8, <2>1, <2>2
  <2>3. CASE i # k
    <3>1. i \in 1..(k - 1)
      BY <1>3, <2>3
    <3> QED BY <1>5, <1>7, <2>1, <3>1 DEF Selects
  <2> QED BY <2>2, <2>3
<1> QED BY <1>6, <1>9

\* What createRecorder executes of an epoch: contracts of the epoch whose products are
\* there and whose inputs the DART has, and of which no two have an input in common.
LEMMA ExecutedSpends ==
    ASSUME NEW cs \in Seq(Contract), NEW id, NEW absent, NEW ready
    PROVE  /\ \A c \in Executed(cs, id, absent, ready) :
                 /\ \E i \in DOMAIN cs : c = cs[i]
                 /\ c \in ready /\ Inputs[c] \cap absent = {}
           /\ \A c, d \in Executed(cs, id, absent, ready) :
                 c # d => Inputs[c] \cap Inputs[d] = {}
<1> DEFINE Step(t, i) ==
               /\ Inputs[cs[i]] \cap absent = {}
               /\ \A j \in 1..(i - 1) : t[j] => Inputs[cs[i]] \cap Inputs[cs[j]] = {}
               /\ cs[i] \in ready
               /\ EarliestEpoch[cs[i]] <= id
           taken == CHOOSE t : t = [i \in DOMAIN cs |-> Step(t, i)]
<1>1. DOMAIN cs = 1..Len(cs) /\ Len(cs) \in Nat
  OBVIOUS
<1>2. \E t : t = [i \in DOMAIN cs |-> Step(t, i)]
  <2> DEFINE Good == {i \in DOMAIN cs : /\ Inputs[cs[i]] \cap absent = {}
                                        /\ cs[i] \in ready
                                        /\ EarliestEpoch[cs[i]] <= id}
             Clash == {ss \in (DOMAIN cs) \X (DOMAIN cs) :
                           Inputs[cs[ss[1]]] \cap Inputs[cs[ss[2]]] # {}}
  <2>1. PICK T \in SUBSET (1..Len(cs)) : Selects(T, Len(cs), Good, Clash)
    BY <1>1, SelectionExists
  <2>2. ASSUME NEW i \in DOMAIN cs, NEW j \in 1..(i - 1)
        PROVE  /\ j \in DOMAIN cs
               /\ <<i, j>> \in Clash <=> Inputs[cs[i]] \cap Inputs[cs[j]] # {}
    BY <1>1
  <2> DEFINE t == [i \in DOMAIN cs |-> i \in T]
  <2>3. ASSUME NEW i \in DOMAIN cs PROVE t[i] <=> Step(t, i)
    <3>1. i \in T <=> i \in Good /\ \A j \in 1..(i - 1) : j \in T => <<i, j>> \notin Clash
      BY <1>1, <2>1 DEF Selects
    <3>2. \A j \in 1..(i - 1) :
              (j \in T => <<i, j>> \notin Clash) <=> (t[j] => Inputs[cs[i]] \cap Inputs[cs[j]] = {})
      BY <2>2
    <3>3. i \in Good <=> /\ Inputs[cs[i]] \cap absent = {}
                        /\ cs[i] \in ready
                        /\ EarliestEpoch[cs[i]] <= id
      OBVIOUS
    <3>4. t[i] <=> i \in T
      OBVIOUS
    <3> HIDE DEF Clash, Good, t
    <3> QED BY <3>1, <3>2, <3>3, <3>4
  <2>4. t = [i \in DOMAIN cs |-> Step(t, i)]
    <3>1. ASSUME NEW i \in DOMAIN cs PROVE t[i] = Step(t, i)
      <4>1. t[i] = TRUE \/ t[i] = FALSE
        OBVIOUS
      <4> DEFINE r == Step(t, i)
      <4>2. r = TRUE \/ r = FALSE
        BY Zenon
      <4>3. t[i] <=> r
        BY <2>3
      <4> HIDE DEF r, t
      <4>4. t[i] = r
        BY <4>1, <4>2, <4>3
      <4> QED BY <4>4 DEF r
    <3>2. DOMAIN t = DOMAIN cs /\ t = [i \in DOMAIN t |-> t[i]]
      OBVIOUS
    <3> HIDE DEF t, Step
    <3> QED BY <3>1, <3>2
  <2> QED BY <2>4
<1>3. taken = [i \in DOMAIN cs |-> Step(taken, i)]
  BY <1>2
<1>4. Executed(cs, id, absent, ready) = {cs[i] : i \in {j \in DOMAIN cs : taken[j]}}
  BY DEF Executed
<1> HIDE DEF taken
<1>5. \A i \in DOMAIN cs : taken[i] = Step(taken, i)
  BY <1>3
<1>6. ASSUME NEW c \in Executed(cs, id, absent, ready)
      PROVE  /\ \E i \in DOMAIN cs : c = cs[i] /\ taken[i]
             /\ c \in ready /\ Inputs[c] \cap absent = {}
  BY <1>4, <1>5
<1>7. ASSUME NEW c \in Executed(cs, id, absent, ready), NEW d \in Executed(cs, id, absent, ready),
             c # d
      PROVE  Inputs[c] \cap Inputs[d] = {}
  <2>1. PICK i \in DOMAIN cs : c = cs[i] /\ taken[i]
    BY <1>6
  <2>2. PICK j \in DOMAIN cs : d = cs[j] /\ taken[j]
    BY <1>6
  <2>3. i \in 1..(j - 1) \/ j \in 1..(i - 1)
    BY <1>1, <1>7, <2>1, <2>2
  <2> QED BY <1>5, <2>1, <2>2, <2>3
<1> QED BY <1>6, <1>7

(***************************************************************************)
(* Replaying the log                                                       *)
(***************************************************************************)
(* f goes through the DARTs that the first recorders of the log make. *)
Replays(f, log, k) ==
    /\ f = [i \in 0..k |-> f[i]]
    /\ f[0] = GenesisDART
    /\ \A i \in 1..k : f[i] = modify(f[i - 1], log[i].recorder)

\* A log can be replayed.
LEMMA ReplayExists ==
    ASSUME NEW log, NEW n \in Nat
    PROVE  \E f : Replays(f, log, n)
<1> DEFINE Bad == {k \in Nat : ~\E f : Replays(f, log, k)}
<1> SUFFICES ASSUME Bad # {} PROVE FALSE
  OBVIOUS
<1>1. PICK k \in Bad : \A y \in Bad : k <= y
  BY LeastNat
<1>2. k # 0
  <2>1. Replays([i \in 0..0 |-> GenesisDART], log, 0)
    BY DEF Replays
  <2> QED BY <2>1
<1>3. k \in Nat /\ k - 1 \in Nat /\ ~(k <= k - 1)
  BY <1>2
<1>4. k - 1 \notin Bad
  BY <1>1, <1>3
<1>5. PICK f : Replays(f, log, k - 1)
  BY <1>3, <1>4
<1> DEFINE g == [i \in 0..k |-> IF i = k THEN modify(f[k - 1], log[k].recorder) ELSE f[i]]
<1>6. Replays(g, log, k)
  <2>1. g = [i \in 0..k |-> g[i]] /\ g[0] = GenesisDART
    BY <1>2, <1>3, <1>5 DEF Replays
  <2>2. ASSUME NEW i \in 1..k PROVE g[i] = modify(g[i - 1], log[i].recorder)
    <3>1. i - 1 \in 0..k /\ i - 1 # k /\ i \in 0..k /\ g[i - 1] = f[i - 1]
      BY <1>3
    <3>2. CASE i = k
      BY <3>1, <3>2
    <3>3. CASE i # k
      <4>1. i \in 1..(k - 1) /\ g[i] = f[i]
        BY <1>3, <3>3
      <4> QED BY <1>5, <3>1, <4>1 DEF Replays
    <3> QED BY <3>2, <3>3
  <2> HIDE DEF g
  <2> QED BY <2>1, <2>2 DEF Replays
<1> QED BY <1>6

\* Two logs that are the same up to some block make the same DART up to it.
LEMMA ReplayUnique ==
    ASSUME NEW k \in Nat, NEW n \in Nat, NEW m \in Nat, k <= n, k <= m,
           NEW f, NEW g, NEW log, NEW longer,
           Replays(f, log, n), Replays(g, longer, m), \A i \in 1..k : log[i] = longer[i]
    PROVE  f[k] = g[k]
<1> DEFINE Bad == {i \in 0..k : f[i] # g[i]}
<1> SUFFICES ASSUME Bad # {} PROVE FALSE
  OBVIOUS
<1>1. PICK i \in Bad : \A y \in Bad : i <= y
  <2>1. Bad \in SUBSET Nat
    OBVIOUS
  <2> HIDE DEF Bad
  <2> QED BY <2>1, LeastNat
<1>2. i # 0
  BY DEF Replays
<1>3. i \in 1..k /\ i - 1 \in 0..k /\ ~(i <= i - 1)
  BY <1>2
<1>4. f[i - 1] = g[i - 1]
  BY <1>1, <1>3
<1>5. f[i] = modify(f[i - 1], log[i].recorder) /\ g[i] = modify(g[i - 1], longer[i].recorder)
  <2>1. i \in 1..n /\ i \in 1..m
    BY <1>3
  <2> QED BY <2>1 DEF Replays
<1> QED BY <1>3, <1>4, <1>5

\* Replay is the DART at the end of the log.
LEMMA ReplayIs ==
    ASSUME NEW S, NEW log \in Seq(S), NEW f, Replays(f, log, Len(log))
    PROVE  Replay(log) = f[Len(log)]
<1> DEFINE Step(g, i) == IF i = 0 THEN GenesisDART ELSE modify(g[i - 1], log[i].recorder)
           after == CHOOSE g : g = [i \in 0..Len(log) |-> Step(g, i)]
<1>1. Len(log) \in Nat
  OBVIOUS
<1>2. f = [i \in 0..Len(log) |-> Step(f, i)]
  <2>1. \A i \in 0..Len(log) : i # 0 => i \in 1..Len(log)
    BY <1>1
  <2>2. \A i \in 0..Len(log) : f[i] = Step(f, i)
    BY <2>1 DEF Replays
  <2>3. f = [i \in 0..Len(log) |-> f[i]]
    BY DEF Replays
  <2> HIDE DEF Step
  <2> QED BY <2>2, <2>3
<1>3. after = [i \in 0..Len(log) |-> Step(after, i)]
  BY <1>2
<1>4. Replay(log) = after[Len(log)]
  BY DEF Replay
<1> HIDE DEF after
<1>5. Replays(after, log, Len(log))
  <2>1. \A i \in 0..Len(log) : after[i] = Step(after, i)
    BY <1>3
  <2>2. after = [i \in 0..Len(log) |-> after[i]]
    <3> HIDE DEF Step
    <3> QED BY <1>3, <2>1
  <2>3. \A i \in 1..Len(log) : i # 0 /\ i \in 0..Len(log)
    BY <1>1
  <2>4. 0 \in 0..Len(log)
    BY <1>1
  <2> QED BY <2>1, <2>2, <2>3, <2>4 DEF Replays
<1>6. after[Len(log)] = f[Len(log)]
  BY <1>1, <1>5, ReplayUnique
<1> QED BY <1>4, <1>6

\* A recorder more in the log is a recorder more in the DART.
LEMMA ReplayAppend ==
    ASSUME NEW S, NEW log \in Seq(S), NEW block \in S
    PROVE  Replay(Append(log, block)) = modify(Replay(log), block.recorder)
<1> DEFINE longer == Append(log, block)
           k == Len(log)
<1>1. /\ k \in Nat /\ k + 1 \in Nat /\ longer \in Seq(S) /\ Len(longer) = k + 1
      /\ \A i \in 1..k : log[i] = longer[i]
      /\ longer[k + 1] = block
  OBVIOUS
<1> HIDE DEF longer, k
<1>2. PICK f : Replays(f, log, k)
  BY <1>1, ReplayExists
<1>3. PICK g : Replays(g, longer, k + 1)
  BY <1>1, ReplayExists
<1>4. Replay(log) = f[k]
  BY <1>2, ReplayIs DEF k
<1>5. Replay(longer) = g[k + 1]
  BY <1>1, <1>3, ReplayIs
<1>6. f[k] = g[k]
  BY <1>1, <1>2, <1>3, ReplayUnique
<1>7. g[k + 1] = modify(g[k], longer[k + 1].recorder)
  <2>1. k + 1 \in 1..(k + 1) /\ (k + 1) - 1 = k
    BY <1>1
  <2> QED BY <1>3, <2>1 DEF Replays
<1> QED BY <1>1, <1>4, <1>5, <1>6, <1>7 DEF longer

\* With an empty log the DART is the genesis DART.
LEMMA ReplayEmpty == Replay(<<>>) = GenesisDART
<1>1. PICK f : Replays(f, <<>>, 0)
  BY ReplayExists
<1>2. <<>> \in Seq({}) /\ Len(<<>>) = 0
  OBVIOUS
<1> QED BY <1>1, <1>2, ReplayIs DEF Replays

(***************************************************************************)
(* What is in the mailboxes                                                *)
(***************************************************************************)
\* A message is added to a mailbox.
LEMMA RangeOfAppend ==
    ASSUME NEW S, NEW s \in Seq(S), NEW x \in S
    PROVE  Range(Append(s, x)) = Range(s) \cup {x}
<1>1. /\ DOMAIN Append(s, x) = DOMAIN s \cup {Len(s) + 1}
      /\ DOMAIN s = 1..Len(s) /\ Len(s) \in Nat
      /\ Append(s, x)[Len(s) + 1] = x
      /\ \A i \in DOMAIN s : Append(s, x)[i] = s[i]
  OBVIOUS
<1> QED BY <1>1 DEF Range

\* The first message of a mailbox is taken.
LEMMA RangeOfTail ==
    ASSUME NEW S, NEW s \in Seq(S), s # <<>>
    PROVE  /\ Range(s) = Range(Tail(s)) \cup {Head(s)}
           /\ Range(s) \subseteq S
<1>1. /\ DOMAIN s = 1..Len(s) /\ Len(s) \in Nat \ {0}
      /\ DOMAIN Tail(s) = 1..(Len(s) - 1)
      /\ Head(s) = s[1]
      /\ \A i \in 1..(Len(s) - 1) : Tail(s)[i] = s[i + 1]
      /\ \A i \in DOMAIN s : s[i] \in S
  OBVIOUS
<1>2. ASSUME NEW i \in DOMAIN s, i # 1 PROVE s[i] \in Range(Tail(s))
  <2>1. i - 1 \in DOMAIN Tail(s) /\ Tail(s)[i - 1] = s[i]
    BY <1>1, <1>2
  <2> QED BY <2>1 DEF Range
<1>3. Range(Tail(s)) \subseteq Range(s) /\ Head(s) \in Range(s)
  BY <1>1 DEF Range
<1>4. Range(s) \subseteq Range(Tail(s)) \cup {Head(s)}
  BY <1>1, <1>2 DEF Range
<1> QED BY <1>1, <1>3, <1>4 DEF Range

\* A request is added for the DART.
LEMMA BoxOfAppend ==
    ASSUME NEW S, NEW s \in Seq(S), NEW x \in S
    PROVE  /\ Checks(Append(s, x)) =
                  Checks(s) \cup (IF x.method = "checkRead" THEN {x} ELSE {})
           /\ Modifies(Append(s, x)) =
                  Modifies(s) \cup (IF x.method = "modify" THEN {x.recorder} ELSE {})
<1>1. /\ DOMAIN Append(s, x) = DOMAIN s \cup {Len(s) + 1}
      /\ DOMAIN s = 1..Len(s) /\ Len(s) \in Nat
      /\ Append(s, x)[Len(s) + 1] = x
      /\ \A i \in DOMAIN s : Append(s, x)[i] = s[i]
  OBVIOUS
<1> QED BY <1>1 DEF Checks, ChecksIn, Modifies, ModifiesIn

\* The DART takes a request.
LEMMA BoxOfTail ==
    ASSUME NEW S, NEW s \in Seq(S), s # <<>>
    PROVE  /\ Checks(Tail(s)) \subseteq Checks(s)
           /\ Modifies(Tail(s)) \subseteq Modifies(s)
           /\ Head(s).method = "checkRead" => Head(s) \in Checks(s)
           /\ Head(s).method = "modify" => Head(s).recorder \in Modifies(s)
<1>1. /\ DOMAIN s = 1..Len(s) /\ Len(s) \in Nat \ {0}
      /\ DOMAIN Tail(s) = 1..(Len(s) - 1)
      /\ Head(s) = s[1]
      /\ \A i \in 1..(Len(s) - 1) : Tail(s)[i] = s[i + 1] /\ i + 1 \in DOMAIN s
  OBVIOUS
<1>2. Checks(Tail(s)) \subseteq Checks(s) /\ Modifies(Tail(s)) \subseteq Modifies(s)
  BY <1>1 DEF Checks, ChecksIn, Modifies, ModifiesIn
<1>3. /\ Head(s).method = "checkRead" => Head(s) \in Checks(s)
      /\ Head(s).method = "modify" => Head(s).recorder \in Modifies(s)
  BY <1>1 DEF Checks, ChecksIn, Modifies, ModifiesIn
<1> QED BY <1>2, <1>3

\* The epochs of a mailbox are those of its messages.
LEMMA IdsOfRange ==
    ASSUME NEW s
    PROVE  /\ Ids(s) = {x.id : x \in Range(s)}
           /\ CheckIds(s) = {q.id : q \in Checks(s)}
BY DEF Ids, Range, CheckIds, Checks

(***************************************************************************)
(* What the steps do to the recorders of a node                            *)
(***************************************************************************)
(* What the two invariants see of node n. *)
NodeView(n) ==
    <<running[n], shutdown[n], last_epoch_number[n], last_consensus_epoch[n], votes[n],
      products[n], produced[n], epoch_contracts[n], last_globals[n], dart_box[n], checked[n],
      commits[n], committing[n], dart[n], last_block[n]>>

OthersKept(n) == \A m \in Node \ {n} : UNCHANGED NodeView(m)

\* epoch_commit takes a request, whose recorder keeps waiting.
LEMMA EpochCommitEffect ==
    ASSUME Invariant, NEW n \in Node, epoch_commit(n), StoresCommitted(n)
    PROVE  /\ OthersKept(n)
           /\ Waiting(n)' = Waiting(n) /\ Applied(n)' = Applied(n)
           /\ Checks(dart_box[n])' = Checks(dart_box[n])
           /\ Ids(commits[n])' \cup CommittingIds(n)' = Ids(commits[n]) \cup CommittingIds(n)
           /\ StoresCommitted(n)'
<1> USE DEF networkVars, votingVars, executionVars, storageVars, boxVars
<1> DEFINE req == Head(commits[n])
           work == [id |-> req.id, recorder |-> req.recorder, at |-> "dart"]
           ask == [method |-> "modify", recorder |-> req.recorder]
<1>1. TypeOK /\ NodeInvariant(n)
  BY DEF Invariant
<1>2. /\ commits[n] \in Seq(CommitRequest) /\ commits[n] # <<>> /\ committing[n] = None
      /\ dart_box[n] \in Seq(DARTRequest)
      /\ commits' = [commits EXCEPT ![n] = Tail(commits[n])]
      /\ committing' = [committing EXCEPT ![n] = work]
      /\ dart_box' = [dart_box EXCEPT ![n] = Append(dart_box[n], ask)]
  BY <1>1 DEF TypeOK, epoch_commit
<1>3. UNCHANGED <<networkVars, running, shutdown, last_epoch_number, votingVars,
                  executionVars, checked, bullseyes, dart, last_block>>
  BY DEF epoch_commit
<1>4. /\ commits'[n] = Tail(commits[n]) /\ committing'[n] = work
      /\ dart_box'[n] = Append(dart_box[n], ask)
  BY <1>1, <1>2 DEF TypeOK
<1>5. Range(commits[n]) = Range(Tail(commits[n])) \cup {req} /\ req \in CommitRequest
  BY <1>2, RangeOfTail
<1>6. work \in Committing /\ work # None /\ ask \in DARTRequest
      /\ req = [id |-> req.id, recorder |-> req.recorder]
  BY <1>5, NoneAssumption DEF CommitRequest, Committing, DARTRequest
<1>7. work.id = req.id /\ work.recorder = req.recorder /\ work.at = "dart"
      /\ ask.method = "modify" /\ ask.method # "checkRead" /\ ask.recorder = req.recorder
  OBVIOUS
<1> HIDE DEF req, work, ask
<1>8. OthersKept(n)
  <2> SUFFICES ASSUME NEW m \in Node, m # n PROVE UNCHANGED NodeView(m)
    BY DEF OthersKept
  <2>1. commits'[m] = commits[m] /\ committing'[m] = committing[m] /\ dart_box'[m] = dart_box[m]
    BY <1>1, <1>2 DEF TypeOK
  <2> QED BY <1>3, <2>1 DEF NodeView
<1>9. Waiting(n)' = Waiting(n) /\ Applied(n)' = Applied(n)
  <2>1. /\ WorkingAt(n, "dart") = {} /\ WorkingAt(n, "replicator") = {}
        /\ WorkingAt(n, "dart")' = {req} /\ WorkingAt(n, "replicator")' = {}
    BY <1>2, <1>4, <1>6, <1>7 DEF WorkingAt, Working
  <2> QED BY <1>3, <1>4, <1>5, <2>1 DEF Waiting, Applied, Logged
<1>10. /\ Checks(dart_box[n])' = Checks(dart_box[n])
       /\ Modifies(dart_box[n])' = Modifies(dart_box[n]) \cup {req.recorder}
  <2>1. /\ Checks(Append(dart_box[n], ask)) =
               Checks(dart_box[n]) \cup (IF ask.method = "checkRead" THEN {ask} ELSE {})
        /\ Modifies(Append(dart_box[n], ask)) =
               Modifies(dart_box[n]) \cup (IF ask.method = "modify" THEN {ask.recorder} ELSE {})
    BY <1>2, <1>6, BoxOfAppend
  <2> QED BY <1>4, <1>7, <2>1
<1>11. Ids(commits[n])' \cup CommittingIds(n)' = Ids(commits[n]) \cup CommittingIds(n)
  <2>1. CommittingIds(n) = {} /\ CommittingIds(n)' = {req.id}
    BY <1>2, <1>4, <1>6, <1>7 DEF CommittingIds
  <2>2. Ids(commits[n]) = Ids(Tail(commits[n])) \cup {req.id}
    BY <1>5, IdsOfRange
  <2> QED BY <1>4, <2>1, <2>2
<1>12. StoresCommitted(n)'
  <2>1. Modifies(dart_box[n]) = {}
    BY <1>1, <1>2 DEF NodeInvariant, StoresOne, Modifies
  <2> QED BY <1>4, <1>7, <1>10, <2>1 DEF StoresCommitted
<1> QED BY <1>8, <1>9, <1>10, <1>11, <1>12

\* checkRead turns a request into an answer.
LEMMA CheckReadEffect ==
    ASSUME Invariant, NEW n \in Node, checkRead(n), StoresCommitted(n)
    PROVE  /\ OthersKept(n)
           /\ Waiting(n)' = Waiting(n) /\ Applied(n)' = Applied(n)
           /\ Checks(dart_box[n])' \subseteq Checks(dart_box[n])
           /\ \E q \in Checks(dart_box[n]) :
                  Range(checked[n])' = Range(checked[n]) \cup
                      {[id |-> q.id, not_in_dart |-> q.inputs \ dart[n].bills]}
           /\ StoresCommitted(n)'
<1> USE DEF networkVars, votingVars, executionVars, storageVars, boxVars
<1> DEFINE req == Head(dart_box[n])
           res == [id |-> req.id, not_in_dart |-> req.inputs \ dart[n].bills]
<1>1. TypeOK
  BY DEF Invariant
<1>2. /\ dart_box[n] \in Seq(DARTRequest) /\ dart_box[n] # <<>> /\ req.method = "checkRead"
      /\ checked[n] \in Seq(CheckResponse)
      /\ dart_box' = [dart_box EXCEPT ![n] = Tail(dart_box[n])]
      /\ checked' = [checked EXCEPT ![n] = Append(checked[n], res)]
      /\ req \in DARTRequest
  BY <1>1 DEF TypeOK, checkRead
<1>3. UNCHANGED <<networkVars, running, shutdown, last_epoch_number, votingVars,
                  executionVars, commits, bullseyes, storageVars>>
  BY DEF checkRead
<1>4. res \in CheckResponse
  BY <1>2 DEF DARTRequest, CheckResponse
<1>5. dart_box'[n] = Tail(dart_box[n]) /\ checked'[n] = Append(checked[n], res)
  BY <1>1, <1>2 DEF TypeOK
<1>6. /\ Checks(Tail(dart_box[n])) \subseteq Checks(dart_box[n])
      /\ Modifies(Tail(dart_box[n])) \subseteq Modifies(dart_box[n])
      /\ req \in Checks(dart_box[n])
  BY <1>2, BoxOfTail
<1>7. Range(checked[n])' = Range(checked[n]) \cup {res}
  <2> HIDE DEF res
  <2> QED BY <1>2, <1>4, <1>5, RangeOfAppend
<1>8. OthersKept(n)
  <2> SUFFICES ASSUME NEW m \in Node, m # n PROVE UNCHANGED NodeView(m)
    BY DEF OthersKept
  <2>1. dart_box'[m] = dart_box[m] /\ checked'[m] = checked[m]
    BY <1>1, <1>2 DEF TypeOK
  <2> QED BY <1>3, <2>1 DEF NodeView
<1>9. Waiting(n)' = Waiting(n) /\ Applied(n)' = Applied(n)
  BY <1>3 DEF Waiting, Applied, Logged, WorkingAt, Working
<1>10. StoresCommitted(n)'
  BY <1>3, <1>5, <1>6 DEF StoresCommitted
<1> QED BY <1>5, <1>6, <1>7, <1>8, <1>9, <1>10

\* modifyDART stores the recorder that epoch_commit works on, the only one it can be.
LEMMA ModifyDARTEffect ==
    ASSUME Invariant, NEW n \in Node, modifyDART(n), StoresCommitted(n)
    PROVE  LET x == Working(n)
           IN  /\ OthersKept(n)
               /\ x \in CommitRequest /\ x.id \in CommittingIds(n) /\ x \notin Applied(n)
               /\ CommittingIds(n)' = CommittingIds(n)
               /\ Waiting(n) = Range(commits[n]) \cup {x}
               /\ Waiting(n)' = Range(commits[n])
               /\ Applied(n)' = Applied(n) \cup {x}
               /\ WorkingAt(n, "replicator") = {} /\ WorkingAt(n, "replicator")' = {x}
               /\ committing'[n].recorder = x.recorder
               /\ dart'[n] = modify(dart[n], x.recorder)
               /\ Checks(dart_box[n])' \subseteq Checks(dart_box[n])
               /\ StoresCommitted(n)'
<1> USE DEF networkVars, votingVars, executionVars, storageVars, boxVars
<1> DEFINE req == Head(dart_box[n])
           work == [committing[n] EXCEPT !.at = "replicator"]
           x == Working(n)
<1>1. TypeOK /\ NodeInvariant(n)
  BY DEF Invariant
<1>2. /\ dart_box[n] \in Seq(DARTRequest) /\ dart_box[n] # <<>> /\ req.method = "modify"
      /\ dart_box' = [dart_box EXCEPT ![n] = Tail(dart_box[n])]
      /\ dart' = [dart EXCEPT ![n] = modify(dart[n], req.recorder)]
      /\ committing' = [committing EXCEPT ![n] = work]
  BY <1>1 DEF TypeOK, modifyDART
<1>3. UNCHANGED <<networkVars, running, shutdown, last_epoch_number, votingVars,
                  executionVars, checked, commits, bullseyes, last_block>>
  BY DEF modifyDART
<1>4. ModifiesIn(Tail(dart_box[n])) = {} /\ ModifiesIn(dart_box[n]) # {}
  BY <1>1, <1>2, ModifiesOfTail DEF NodeInvariant, StoresOne
<1>5. committing[n] # None /\ committing[n] \in Committing /\ committing[n].at = "dart"
  BY <1>1, <1>4 DEF NodeInvariant, StoresOne, TypeOK, NodeTypeOK
<1>6. /\ work \in Committing /\ work # None /\ work.at = "replicator"
      /\ work.id = committing[n].id /\ work.recorder = committing[n].recorder
  BY <1>5, NoneAssumption DEF Committing
<1>7. /\ x \in CommitRequest
      /\ x.id = committing[n].id /\ x.recorder = committing[n].recorder
  BY <1>5 DEF Working, Committing, CommitRequest
<1>8. /\ Checks(Tail(dart_box[n])) \subseteq Checks(dart_box[n])
      /\ req.recorder = x.recorder
  <2>1. req.recorder \in Modifies(dart_box[n])
    BY <1>2, BoxOfTail
  <2> QED BY <1>2, <1>7, <2>1, BoxOfTail DEF StoresCommitted
<1>9. Working(n)' = x
  BY <1>1, <1>2, <1>6 DEF Working, TypeOK
<1> HIDE DEF req, work, x
<1>10. /\ dart_box'[n] = Tail(dart_box[n]) /\ committing'[n] = work
       /\ dart'[n] = modify(dart[n], x.recorder)
  BY <1>1, <1>2, <1>8 DEF TypeOK
<1>11. OthersKept(n)
  <2> SUFFICES ASSUME NEW m \in Node, m # n PROVE UNCHANGED NodeView(m)
    BY DEF OthersKept
  <2>1. dart_box'[m] = dart_box[m] /\ committing'[m] = committing[m] /\ dart'[m] = dart[m]
    BY <1>1, <1>2 DEF TypeOK
  <2> QED BY <1>3, <2>1 DEF NodeView
<1>12. /\ WorkingAt(n, "dart") = {x} /\ WorkingAt(n, "replicator") = {}
       /\ WorkingAt(n, "dart")' = {} /\ WorkingAt(n, "replicator")' = {x}
  <2>1. committing[n].at # "replicator" /\ work.at # "dart"
    BY <1>5, <1>6
  <2>2. WorkingAt(n, "dart") = {x} /\ WorkingAt(n, "replicator") = {}
    BY <1>5, <2>1 DEF WorkingAt, x
  <2>3. WorkingAt(n, "dart")' = {} /\ WorkingAt(n, "replicator")' = {x}
    BY <1>6, <1>9, <1>10, <2>1 DEF WorkingAt
  <2> QED BY <2>2, <2>3
<1>13. /\ Waiting(n) = Range(commits[n]) \cup {x}
       /\ Waiting(n)' = Range(commits[n])
       /\ Applied(n)' = Applied(n) \cup {x}
  BY <1>3, <1>12 DEF Waiting, Applied, Logged
<1>14. x.id \in CommittingIds(n) /\ CommittingIds(n)' = CommittingIds(n)
  BY <1>5, <1>6, <1>7, <1>10 DEF CommittingIds
<1>15. x \notin Applied(n)
  <2>1. x.id \notin LoggedEpochs(last_block[n])
    BY <1>1, <1>14 DEF NodeInvariant, InOneStage
  <2>2. \A y \in Logged(n) : y.id \in LoggedEpochs(last_block[n])
    BY DEF Logged, Range, LoggedEpochs
  <2> QED BY <1>12, <2>1, <2>2 DEF Applied
<1>16. StoresCommitted(n)'
  BY <1>4, <1>10 DEF StoresCommitted, Modifies
<1> QED BY <1>6, <1>7, <1>8, <1>10, <1>11, <1>12, <1>13, <1>14, <1>15, <1>16 DEF x

\* receiveRecorder writes the recorder that was stored to the log.
LEMMA ReceiveRecorderEffect ==
    ASSUME Invariant, NEW n \in Node, receiveRecorder(n), StoresCommitted(n)
    PROVE  /\ OthersKept(n)
           /\ Waiting(n)' = Waiting(n) /\ Applied(n)' = Applied(n)
           /\ committing[n] # None /\ committing[n].at = "replicator" /\ committing'[n] = None
           /\ \E block \in RecorderBlock :
                  /\ last_block'[n] = Append(last_block[n], block)
                  /\ block.recorder = committing[n].recorder
           /\ StoresCommitted(n)'
<1> USE DEF networkVars, votingVars, executionVars, storageVars, boxVars
<1> DEFINE req == committing[n]
           entry == [epoch |-> req.id, recorder |-> req.recorder, bullseye |-> dart[n]]
           block == Append(last_block[n], entry)
<1>1. TypeOK /\ NodeInvariant(n)
  BY DEF Invariant
<1>2. /\ req # None /\ req.at = "replicator" /\ req \in Committing
      /\ dart[n] \in Content /\ last_block[n] \in Seq(RecorderBlock)
      /\ last_block' = [last_block EXCEPT ![n] = block]
      /\ committing' = [committing EXCEPT ![n] = None]
  BY <1>1 DEF TypeOK, NodeTypeOK, receiveRecorder
<1>3. UNCHANGED <<networkVars, running, shutdown, last_epoch_number, votingVars,
                  executionVars, dart_box, checked, commits, dart>>
  BY DEF receiveRecorder
<1>4. /\ entry \in RecorderBlock /\ entry.recorder = committing[n].recorder
      /\ Working(n) = [id |-> entry.epoch, recorder |-> entry.recorder]
  BY <1>2 DEF Committing, RecorderBlock, Working
<1>5. last_block'[n] = block /\ committing'[n] = None
  BY <1>1, <1>2 DEF TypeOK
<1> HIDE DEF entry
<1>6. Range(last_block[n])' = Range(last_block[n]) \cup {entry}
  <2>1. Range(block) = Range(last_block[n]) \cup {entry}
    BY <1>2, <1>4, RangeOfAppend
  <2> HIDE DEF block
  <2> QED BY <1>5, <2>1
<1>7. OthersKept(n)
  <2> SUFFICES ASSUME NEW m \in Node, m # n PROVE UNCHANGED NodeView(m)
    BY DEF OthersKept
  <2>1. last_block'[m] = last_block[m] /\ committing'[m] = committing[m]
    BY <1>1, <1>2 DEF TypeOK
  <2> QED BY <1>3, <2>1 DEF NodeView
<1>8. /\ WorkingAt(n, "dart") = {} /\ WorkingAt(n, "replicator") = {Working(n)}
      /\ WorkingAt(n, "dart")' = {} /\ WorkingAt(n, "replicator")' = {}
  BY <1>2, <1>5 DEF WorkingAt
<1>9. Logged(n)' = Logged(n) \cup {Working(n)}
  BY <1>4, <1>6 DEF Logged
<1>10. Waiting(n)' = Waiting(n) /\ Applied(n)' = Applied(n)
  BY <1>3, <1>8, <1>9 DEF Waiting, Applied
<1>11. StoresCommitted(n)'
  <2>1. Modifies(dart_box[n]) = {}
    BY <1>1, <1>2 DEF NodeInvariant, StoresOne, Modifies
  <2> QED BY <1>3, <2>1 DEF StoresCommitted
<1> QED BY <1>2, <1>4, <1>5, <1>7, <1>10, <1>11

(***************************************************************************)
(* What createRecorder does to the recorders of a node                     *)
(***************************************************************************)
(* A step of node n that makes the recorder of epoch id: what was taken from the hashgraph *)
(* or from the DART is gone, vs and ecs are the votes and contracts that are left of it. *)
Recording(n, id, absent, vs, ecs) ==
    /\ running[n] = "up"
    /\ last_epoch_number' \in [Node -> Nat]
    /\ last_epoch_number[n] <= last_epoch_number'[n]
    /\ id \in 1..last_epoch_number'[n] /\ id \in DOMAIN ecs
    /\ RecorderInput(n, last_epoch_number'[n], vs, ecs)
    /\ createRecorder(n, id, absent, vs, ecs)
    /\ UNCHANGED <<networkVars, shutdown, dart_box, storageVars>>
    /\ \A m \in Node \ {n} :
           checked'[m] = checked[m] /\ last_epoch_number'[m] = last_epoch_number[m]
    /\ Range(checked'[n]) \subseteq Range(checked[n])
    /\ id \notin CheckIds(dart_box[n]) \cup Ids(checked'[n])
    /\ id \notin Ids(commits[n]) \cup CommittingIds(n) \cup LoggedEpochs(last_block[n])
    /\ DOMAIN vs = DOMAIN votes[n]
    /\ \A e \in DOMAIN votes[n] : /\ vs[e].bullseye = votes[n][e].bullseye
                                  /\ votes[n][e].votes \subseteq vs[e].votes
    /\ \A e \in DOMAIN epoch_contracts[n] :
           e # id => e \in DOMAIN ecs /\ ecs[e] = epoch_contracts[n][e]

(* The recorder is lost to a vote that disagrees. *)
RecorderLost(n, ecs) ==
    /\ Disagreeing(votes'[n]) # {}
    /\ epoch_contracts'[n] = ecs
    /\ UNCHANGED <<running, products, last_globals, commits>>

(* The recorder of the shutdown goes to epoch_commit. *)
ShutdownSent(n, r) ==
    /\ running' = [running EXCEPT ![n] = "stopping"]
    /\ shutdown[n] # 0 /\ shutdown[n] <= last_consensus_epoch'[n]
    /\ r.head = shutdown[n] /\ r.open = {} /\ r.adds = {} /\ r.removes = {}
    /\ UNCHANGED <<products, last_globals>>

(* The recorder of epoch id goes to epoch_commit. *)
RecorderSent(n, id, absent, ecs, r) ==
    /\ UNCHANGED running
    /\ r.open \subseteq {id}
    /\ r.head # 0 => r.open # {}
    /\ r.open # {} => InChain(n, id)
    /\ r.adds = Executed(ecs[id].contracts, id, absent, products[n])
    /\ r.removes = UNION {Inputs[c] : c \in r.adds}
    /\ products'[n] = products[n] \ r.adds
    /\ last_globals'[n] = last_globals[n] + Cardinality(r.adds) - Cardinality(r.removes)

(* One of the two is sent, with the epochs that the loop over the votes finished. *)
Sent(n, id, absent, vs, ecs, r) ==
    /\ Disagreeing(vs) = {}
    /\ r.final = Finished(last_consensus_epoch[n], vs)
    /\ Range(commits[n])' = Range(commits[n]) \cup {[id |-> id, recorder |-> r]}
    /\ Waiting(n)' = Waiting(n) \cup {[id |-> id, recorder |-> r]}
    /\ epoch_contracts'[n] = Without(ecs, {id})
    /\ ShutdownSent(n, r) \/ RecorderSent(n, id, absent, ecs, r)

\* The epochs that disagree are not finished, and disagree still.
LEMMA DisagreeingLeft ==
    ASSUME NEW lce, NEW last \in Nat, NEW vs, DOMAIN vs \subseteq 1..last
    PROVE  Disagreeing(Without(vs, Finished(lce, vs))) = Disagreeing(vs)
<1> DEFINE F == Finished(lce, vs)
<1>1. \A e \in F : e \notin Disagreeing(vs)
  <2> SUFFICES ASSUME NEW e \in F, e \in Disagreeing(vs) PROVE FALSE
    OBVIOUS
  <2>1. e < e /\ e \in DOMAIN vs
    BY DEF Finished, Reached
  <2>2. e \in Nat
    BY <2>1
  <2> QED BY <2>1, <2>2
<1> HIDE DEF F
<1>2. /\ DOMAIN Without(vs, F) = DOMAIN vs \ F
      /\ \A e \in DOMAIN vs \ F : Without(vs, F)[e] = vs[e]
  BY DEF Without
<1>3. Disagreeing(Without(vs, F)) = Disagreeing(vs)
  BY <1>1, <1>2 DEF Disagreeing
<1> QED BY <1>3 DEF F

\* What the loop over the votes leaves: the next epochs without a gap, each with a bullseye.
LEMMA RecordingFinishes ==
    ASSUME Invariant, NEW n \in Node, NEW id, NEW absent, NEW vs, NEW ecs,
           Recording(n, id, absent, vs, ecs)
    PROVE  LET lce == last_consensus_epoch[n]
               F == Finished(lce, vs)
           IN  /\ lce \in Nat /\ last_consensus_epoch'[n] \in Nat /\ lce <= last_consensus_epoch'[n]
               /\ F = (lce + 1)..last_consensus_epoch'[n]
               /\ F \in SUBSET Nat
               /\ \A e \in F : e \in DOMAIN vs /\ vs[e].bullseye # None
               /\ \A m \in Node \ {n} : last_consensus_epoch'[m] = last_consensus_epoch[m]
<1> DEFINE lce == last_consensus_epoch[n]
           last == last_epoch_number'[n]
           F == Finished(lce, vs)
<1>1. /\ last_consensus_epoch \in [Node -> Nat] /\ last \in Nat
      /\ RecorderInput(n, last, vs, ecs) /\ DOMAIN vs \subseteq 1..last
      /\ last_consensus_epoch' = [last_consensus_epoch EXCEPT ![n] = lce + Cardinality(F)]
  BY DEF Invariant, TypeOK, Recording, RecorderInput, createRecorder, ThrowFromRecorder,
         CommitShutdown, CommitEpoch, FinishEpochs
<1>2. Cardinality(F) \in Nat /\ F = (lce + 1)..(lce + Cardinality(F))
  BY <1>1, FinishedInterval
<1>3. \A e \in F : e \in DOMAIN vs /\ vs[e].bullseye # None
  BY <1>1, FinishedSigned
<1> HIDE DEF F
<1>4. last_consensus_epoch'[n] = lce + Cardinality(F)
  BY <1>1
<1>5. F \in SUBSET Nat
  BY <1>1, <1>2
<1> QED BY <1>1, <1>2, <1>3, <1>4, <1>5 DEF F

\* createRecorder loses the recorder, or sends it and has nothing that disagrees.
LEMMA RecordingEffect ==
    ASSUME Invariant, NEW n \in Node, NEW id, NEW absent, NEW vs, NEW ecs,
           Recording(n, id, absent, vs, ecs)
    PROVE  /\ OthersKept(n)
           /\ Applied(n)' = Applied(n)
           /\ RecorderLost(n, ecs) \/ \E r \in Recorder : Sent(n, id, absent, vs, ecs, r)
<1> USE DEF networkVars, storageVars
<1> DEFINE F == Finished(last_consensus_epoch[n], vs)
           rest == Without(vs, F)
<1>1. /\ running \in [Node -> {"up", "stopping", "down"}] /\ running[n] = "up"
      /\ commits \in [Node -> Seq(CommitRequest)] /\ products \in [Node -> SUBSET Contract]
      /\ last_globals \in [Node -> Int] /\ DOMAIN votes = Node /\ DOMAIN epoch_contracts = Node
      /\ shutdown[n] \in Nat
  <2>1. ShutdownEpoch \subseteq Nat /\ 0 \in Nat
    BY ContractAssumption
  <2>2. shutdown[n] \in ShutdownEpoch \cup {0}
    BY DEF Invariant, TypeOK
  <2>3. shutdown[n] \in Nat
    BY <2>1, <2>2, Zenon
  <2> QED BY <2>3 DEF Invariant, TypeOK, Recording
<1>2. /\ last_consensus_epoch'[n] \in Nat /\ F \in SUBSET Nat /\ F = Finished(last_consensus_epoch[n], vs)
      /\ \A m \in Node \ {n} : last_consensus_epoch'[m] = last_consensus_epoch[m]
  BY RecordingFinishes
<1>3. /\ last_epoch_number'[n] \in Nat /\ id \in 1..last_epoch_number'[n] /\ id \in DOMAIN ecs
      /\ UNCHANGED <<networkVars, shutdown, dart_box, storageVars>>
      /\ \A m \in Node \ {n} :
             checked'[m] = checked[m] /\ last_epoch_number'[m] = last_epoch_number[m]
  BY DEF Recording
<1>4. Disagreeing(rest) = Disagreeing(vs)
  <2>1. DOMAIN vs \subseteq 1..last_epoch_number'[n]
    BY DEF Recording, RecorderInput
  <2> QED BY <1>3, <2>1, DisagreeingLeft
<1>5. last_consensus_epoch'[n] = last_consensus_epoch[n] + Cardinality(F)
  BY DEF Invariant, TypeOK, Recording, createRecorder, ThrowFromRecorder,
         CommitShutdown, CommitEpoch, FinishEpochs
<1> HIDE DEF F, rest
<1>6. Applied(n)' = Applied(n)
  BY <1>3 DEF Applied, Logged, WorkingAt, Working
<1>7. CASE ThrowFromRecorder(n, F, vs, ecs) /\ Disagreeing(vs) # {}
  <2>1. votes' = [votes EXCEPT ![n] = rest]
        /\ epoch_contracts' = [epoch_contracts EXCEPT ![n] = ecs]
        /\ UNCHANGED <<products, last_globals, commits, running>>
    BY <1>7 DEF ThrowFromRecorder, rest
  <2>2. OthersKept(n)
    BY <1>1, <1>2, <1>3, <2>1 DEF OthersKept, NodeView
  <2>3. RecorderLost(n, ecs)
    BY <1>1, <1>4, <1>7, <2>1 DEF RecorderLost
  <2> QED BY <1>6, <2>2, <2>3
<1> DEFINE Goal(r) ==
        /\ OthersKept(n)
        /\ epoch_contracts'[n] = Without(ecs, {id})
        /\ Range(commits[n])' = Range(commits[n]) \cup {[id |-> id, recorder |-> r]}
        /\ Waiting(n)' = Waiting(n) \cup {[id |-> id, recorder |-> r]}
<1>8. ASSUME NEW r \in Recorder, NEW left,
             votes' = [votes EXCEPT ![n] = left],
             epoch_contracts' = [epoch_contracts EXCEPT ![n] = Without(ecs, {id})],
             commits' = [commits EXCEPT ![n] = Append(commits[n], [id |-> id, recorder |-> r])],
             \A m \in Node \ {n} : /\ running'[m] = running[m] /\ products'[m] = products[m]
                                    /\ last_globals'[m] = last_globals[m]
      PROVE  Goal(r)
  <2> DEFINE req == [id |-> id, recorder |-> r]
  <2>1. req \in CommitRequest
    BY <1>3 DEF CommitRequest
  <2> HIDE DEF req
  <2>2. Range(Append(commits[n], req)) = Range(commits[n]) \cup {req}
    BY <1>1, <2>1, RangeOfAppend
  <2>3. commits'[n] = Append(commits[n], req) /\ epoch_contracts'[n] = Without(ecs, {id})
    BY <1>1, <1>8 DEF req
  <2>4. Range(commits[n])' = Range(commits[n]) \cup {req}
    BY <2>2, <2>3
  <2>5. Waiting(n)' = Waiting(n) \cup {req}
    BY <1>3, <2>4 DEF Waiting, WorkingAt, Working
  <2>6. OthersKept(n)
    BY <1>1, <1>2, <1>3, <1>8 DEF OthersKept, NodeView
  <2> QED BY <2>3, <2>4, <2>5, <2>6 DEF req
<1> HIDE DEF Goal
<1>9. CASE /\ CommitShutdown(n, id, F, vs, ecs) /\ Disagreeing(vs) = {}
           /\ shutdown[n] # 0 /\ shutdown[n] <= last_consensus_epoch'[n]
  <2> DEFINE r == [head |-> shutdown[n], open |-> {}, final |-> F, adds |-> {}, removes |-> {},
                   witnesses |-> {}]
  <2>1. /\ votes' = [votes EXCEPT ![n] = rest]
        /\ epoch_contracts' = [epoch_contracts EXCEPT ![n] = Without(ecs, {id})]
        /\ commits' = [commits EXCEPT ![n] = Append(commits[n], [id |-> id, recorder |-> r])]
        /\ running' = [running EXCEPT ![n] = "stopping"]
        /\ UNCHANGED <<products, last_globals>>
    BY <1>9 DEF CommitShutdown, rest
  <2>2. r \in Recorder
    BY <1>1, <1>2 DEF Recorder
  <2>3. /\ r.head = shutdown[n] /\ r.open = {} /\ r.adds = {} /\ r.removes = {} /\ r.final = F
    OBVIOUS
  <2> HIDE DEF r
  <2>4. Goal(r)
    BY <1>1, <1>8, <2>1, <2>2
  <2>5. ShutdownSent(n, r)
    BY <1>9, <2>1, <2>3 DEF ShutdownSent
  <2>6. Sent(n, id, absent, vs, ecs, r)
    BY <1>2, <1>9, <2>3, <2>4, <2>5 DEF Sent, Goal
  <2> QED BY <1>6, <2>2, <2>4, <2>6 DEF Goal
<1>10. CASE CommitEpoch(n, id, absent, F, vs, ecs) /\ Disagreeing(vs) = {}
  <2> DEFINE exec == Executed(ecs[id].contracts, id, absent, products[n])
             removes == UNION {Inputs[c] : c \in exec}
             witnessed == {[epoch |-> id, witnesses |-> ecs[id].witnesses]}
             r == [head |-> IF InChain(n, id) THEN id ELSE 0,
                   open |-> IF InChain(n, id) THEN {id} ELSE {},
                   final |-> F, adds |-> exec, removes |-> removes, witnesses |-> witnessed]
             left == VoteOpened(n, id, rest)
  <2>1. /\ votes' = [votes EXCEPT ![n] = left]
        /\ epoch_contracts' = [epoch_contracts EXCEPT ![n] = Without(ecs, {id})]
        /\ commits' = [commits EXCEPT ![n] = Append(commits[n], [id |-> id, recorder |-> r])]
        /\ products' = [products EXCEPT ![n] = products[n] \ exec]
        /\ last_globals' = [last_globals EXCEPT ![n] =
               last_globals[n] + Cardinality(exec) - Cardinality(removes)]
        /\ UNCHANGED running
    BY <1>10 DEF CommitEpoch, rest
  <2>2. exec \in SUBSET Contract
    <3>1. ecs \in [DOMAIN ecs -> EpochContracts]
      BY DEF Recording, RecorderInput
    <3> QED BY <1>3, <3>1, ExecutedType DEF EpochContracts
  <2>3. removes \in SUBSET Archive
    BY <2>2, InputsType
  <2>3a. witnessed \in SUBSET WitnessHead
    <3>1. ecs[id] \in EpochContracts /\ id \in Nat
      BY <1>3 DEF Recording, RecorderInput
    <3> QED BY <3>1 DEF EpochContracts, WitnessHead
  <2>4. /\ r.open \subseteq {id}
        /\ r.adds = exec /\ r.removes = removes /\ r.final = F
    OBVIOUS
  <2>4a. r.open # {} => InChain(n, id)
    OBVIOUS
  <2>4b. r.head # 0 => r.open # {}
    OBVIOUS
  <2> HIDE DEF exec, removes, witnessed, left
  <2>5. r \in Recorder
    BY <1>2, <1>3, <2>2, <2>3, <2>3a DEF Recorder
  <2> HIDE DEF r
  <2>6. Goal(r)
    BY <1>1, <1>8, <2>1, <2>5
  <2>7. products'[n] = products[n] \ exec
        /\ last_globals'[n] = last_globals[n] + Cardinality(exec) - Cardinality(removes)
    BY <1>1, <2>1
  <2>8. RecorderSent(n, id, absent, ecs, r)
    BY <2>1, <2>4, <2>4a, <2>4b, <2>7 DEF RecorderSent, exec, removes
  <2>9. Sent(n, id, absent, vs, ecs, r)
    BY <1>2, <1>10, <2>4, <2>6, <2>8 DEF Sent, Goal
  <2> QED BY <1>6, <2>5, <2>6, <2>9 DEF Goal
<1>11. createRecorder(n, id, absent, vs, ecs)
  BY DEF Recording
<1> QED BY <1>1, <1>3, <1>5, <1>7, <1>9, <1>10, <1>11 DEF createRecorder, F

\* An answer of the DART makes a recorder, with the contracts and votes that are there.
LEMMA ReceiveCheckedRecords ==
    ASSUME Invariant, NEW n \in Node, ChecksKnown(n), receiveChecked(n)
    PROVE  \E a \in Range(checked[n]) :
               Recording(n, a.id, a.not_in_dart, votes[n], epoch_contracts[n])
<1> DEFINE a == Head(checked[n])
<1>1. TypeOK /\ NodeInvariant(n)
  BY DEF Invariant
<1>2. /\ checked[n] \in Seq(CheckResponse) /\ checked[n] # <<>> /\ running[n] = "up"
      /\ checked' = [checked EXCEPT ![n] = Tail(checked[n])]
      /\ createRecorder(n, a.id, a.not_in_dart, votes[n], epoch_contracts[n])
      /\ UNCHANGED <<networkVars, shutdown, last_epoch_number, dart_box, bullseyes, storageVars>>
  BY <1>1 DEF TypeOK, receiveChecked
<1>3. /\ a.id \in Ids(checked[n])
      /\ Ids(Tail(checked[n])) = Ids(checked[n]) \ {a.id}
      /\ Range(checked[n]) = Range(Tail(checked[n])) \cup {a}
  BY <1>1, <1>2, IdsOfTail, RangeOfTail DEF NodeInvariant, OnceInStage
<1>4. /\ a.id \in 1..last_epoch_number[n] /\ a.id \in DOMAIN epoch_contracts[n]
      /\ a.id \notin CheckIds(dart_box[n]) \cup Ids(commits[n]) \cup CommittingIds(n)
                        \cup LoggedEpochs(last_block[n])
  BY <1>1, <1>3 DEF NodeInvariant, InOneStage, ChecksKnown
<1>5. RecorderInput(n, last_epoch_number'[n], votes[n], epoch_contracts[n])
  BY <1>1, <1>2 DEF TypeOK, NodeTypeOK, RecorderInput
<1>6. /\ last_epoch_number' \in [Node -> Nat] /\ last_epoch_number'[n] = last_epoch_number[n]
      /\ last_epoch_number[n] <= last_epoch_number'[n]
      /\ checked'[n] = Tail(checked[n])
      /\ \A m \in Node \ {n} :
             checked'[m] = checked[m] /\ last_epoch_number'[m] = last_epoch_number[m]
  BY <1>1, <1>2 DEF TypeOK
<1> HIDE DEF a
<1>7. Recording(n, a.id, a.not_in_dart, votes[n], epoch_contracts[n])
  BY <1>2, <1>3, <1>4, <1>5, <1>6 DEF Recording
<1> QED BY <1>3, <1>7

(* What is kept of an epoch until its recorder is made. *)
Taken(n, id) ==
    [contracts |-> consensus[id].contracts, witnesses |-> consensus[id].witnesses[n]]

(* The votes of the epoch are put to the ones that are open, and its contracts are kept. *)
EpochTaken(n, id, vs, ecs) ==
    /\ id = last_epoch_number[n] + 1
    /\ vs = AddVotes(n, consensus[id].votes)
    /\ ecs = With(epoch_contracts[n], id, Taken(n, id))

(* A step of node n that asks the DART for the inputs of the epoch. *)
Asking(n, id, vs, ecs) ==
    /\ running[n] = "up"
    /\ last_epoch_number'[n] = id
    /\ votes'[n] = vs /\ epoch_contracts'[n] = ecs
    /\ Checks(dart_box[n])' = Checks(dart_box[n]) \cup
           {[method |-> "checkRead", id |-> id, inputs |-> InputsOf(ecs[id].contracts)]}
    /\ Modifies(dart_box[n])' = Modifies(dart_box[n])
    /\ UNCHANGED <<networkVars, running, shutdown, last_consensus_epoch, products,
                   last_globals, checked, commits, storageVars>>

\* What the votes of an epoch leave of the entries.
LEMMA EpochVotes ==
    ASSUME Invariant, NEW n \in Node, NEW id, NEW vs, NEW ecs, EpochTaken(n, id, vs, ecs)
    PROVE  /\ DOMAIN vs = DOMAIN votes[n]
           /\ \A e \in DOMAIN votes[n] : /\ vs[e].bullseye = votes[n][e].bullseye
                                         /\ votes[n][e].votes \subseteq vs[e].votes
           /\ id \in Nat /\ last_epoch_number[n] \in Nat /\ id = last_epoch_number[n] + 1
           /\ DOMAIN ecs = DOMAIN epoch_contracts[n] \cup {id}
           /\ \A e \in DOMAIN epoch_contracts[n] : e # id => ecs[e] = epoch_contracts[n][e]
           /\ ecs[id].contracts = consensus[id].contracts
           /\ id \notin CheckIds(dart_box[n]) \cup Ids(checked[n]) \cup Ids(commits[n])
                      \cup CommittingIds(n) \cup LoggedEpochs(last_block[n])
<1>1. TypeOK /\ NodeInvariant(n) /\ last_epoch_number[n] \in Nat
  BY DEF Invariant, TypeOK
<1>2. /\ DOMAIN vs = DOMAIN votes[n]
      /\ \A e \in DOMAIN votes[n] :
             vs[e] = [votes[n][e] EXCEPT !.votes = @ \cup {v \in consensus[id].votes : v.epoch = e}]
  BY DEF EpochTaken, AddVotes
<1>3. votes[n] \in [DOMAIN votes[n] -> Votes]
  BY <1>1 DEF TypeOK, NodeTypeOK
<1>4. \A e \in DOMAIN votes[n] : /\ vs[e].bullseye = votes[n][e].bullseye
                                /\ votes[n][e].votes \subseteq vs[e].votes
  <2> SUFFICES ASSUME NEW e \in DOMAIN votes[n]
               PROVE  /\ vs[e].bullseye = votes[n][e].bullseye
                      /\ votes[n][e].votes \subseteq vs[e].votes
    OBVIOUS
  <2>1. votes[n][e] \in Votes
    BY <1>3
  <2>2. vs[e] = [votes[n][e] EXCEPT !.votes =
                     votes[n][e].votes \cup {v \in consensus[id].votes : v.epoch = e}]
    BY <1>2
  <2> QED BY <2>1, <2>2 DEF Votes
<1>5. id \notin 1..last_epoch_number[n] /\ id \in Nat /\ id = last_epoch_number[n] + 1
  BY <1>1 DEF EpochTaken
<1>6. id \notin CheckIds(dart_box[n]) \cup Ids(checked[n]) \cup Ids(commits[n])
             \cup CommittingIds(n) \cup LoggedEpochs(last_block[n])
  BY <1>1, <1>5 DEF NodeInvariant, InOneStage
<1>7. /\ DOMAIN ecs = DOMAIN epoch_contracts[n] \cup {id}
      /\ \A e \in DOMAIN epoch_contracts[n] : e # id => ecs[e] = epoch_contracts[n][e]
      /\ ecs[id].contracts = consensus[id].contracts
  BY DEF EpochTaken, Taken, With
<1> QED BY <1>1, <1>2, <1>4, <1>5, <1>6, <1>7

\* A new epoch makes its recorder at once, or asks the DART for the inputs of its contracts.
LEMMA EpochRecordsOrAsks ==
    ASSUME Invariant, NEW n \in Node, epoch(n)
    PROVE  \E id, vs, ecs :
               /\ EpochTaken(n, id, vs, ecs)
               /\ \/ Recording(n, id, {}, vs, ecs) /\ InputsOf(ecs[id].contracts) = {}
                  \/ Asking(n, id, vs, ecs) /\ OthersKept(n)
<1>1. TypeOK /\ NodeInvariant(n)
  BY DEF Invariant
<1>2. PICK id, vs, ecs :
          /\ EpochTaken(n, id, vs, ecs)
          /\ id \in DOMAIN consensus
          /\ last_epoch_number' = [last_epoch_number EXCEPT ![n] = id]
          /\ \/ /\ InputsOf(consensus[id].contracts) = {}
                /\ createRecorder(n, id, {}, vs, ecs)
                /\ UNCHANGED dart_box
             \/ /\ votes' = [votes EXCEPT ![n] = vs]
                /\ epoch_contracts' = [epoch_contracts EXCEPT ![n] = ecs]
                /\ dart_box' = [dart_box EXCEPT ![n] = Append(dart_box[n],
                       [method |-> "checkRead", id |-> id,
                        inputs |-> InputsOf(consensus[id].contracts)])]
                /\ UNCHANGED <<last_consensus_epoch, previous_epoch, products, last_globals,
                               commits, running>>
  BY <1>1 DEF epoch, EpochTaken, Taken, TypeOK
<1>3. /\ running[n] = "up" /\ consensus \in Seq(ConsensusEpoch) /\ last_epoch_number[n] \in Nat
      /\ UNCHANGED <<networkVars, shutdown, checked, bullseyes, storageVars>>
  BY <1>1 DEF TypeOK, epoch
<1> DEFINE inputs == InputsOf(consensus[id].contracts)
           ask == [method |-> "checkRead", id |-> id, inputs |-> inputs]
<1>4. /\ vs = AddVotes(n, consensus[id].votes)
      /\ ecs = With(epoch_contracts[n], id, Taken(n, id))
  BY <1>2 DEF EpochTaken
<1>5. inputs \in SUBSET Archive /\ consensus[id] \in ConsensusEpoch /\ id \in Nat
  <2>1. consensus[id] \in ConsensusEpoch /\ id \in Nat
    BY <1>2, <1>3
  <2>2. consensus[id].contracts \in Seq(Contract)
    BY <2>1 DEF ConsensusEpoch
  <2>3. \A i \in DOMAIN consensus[id].contracts : consensus[id].contracts[i] \in Contract
    BY <2>2
  <2> QED BY <2>1, <2>3, ContractAssumption DEF InputsOf, Archive
<1> HIDE DEF inputs
<1>6. /\ DOMAIN vs = DOMAIN votes[n]
      /\ \A e \in DOMAIN votes[n] : /\ vs[e].bullseye = votes[n][e].bullseye
                                    /\ votes[n][e].votes \subseteq vs[e].votes
      /\ id = last_epoch_number[n] + 1
      /\ DOMAIN ecs = DOMAIN epoch_contracts[n] \cup {id}
      /\ \A e \in DOMAIN epoch_contracts[n] : e # id => ecs[e] = epoch_contracts[n][e]
      /\ ecs[id].contracts = consensus[id].contracts
      /\ id \notin CheckIds(dart_box[n]) \cup Ids(checked[n]) \cup Ids(commits[n])
                 \cup CommittingIds(n) \cup LoggedEpochs(last_block[n])
  <2>1. EpochTaken(n, id, vs, ecs)
    BY <1>2
  <2>2. /\ DOMAIN vs = DOMAIN votes[n]
        /\ \A e \in DOMAIN votes[n] : /\ vs[e].bullseye = votes[n][e].bullseye
                                      /\ votes[n][e].votes \subseteq vs[e].votes
        /\ id = last_epoch_number[n] + 1
    BY <2>1, EpochVotes
  <2>3. /\ ecs[id].contracts = consensus[id].contracts
        /\ id \notin CheckIds(dart_box[n]) \cup Ids(checked[n]) \cup Ids(commits[n])
                   \cup CommittingIds(n) \cup LoggedEpochs(last_block[n])
    BY <2>1, EpochVotes
  <2>4. /\ DOMAIN ecs = DOMAIN epoch_contracts[n] \cup {id}
        /\ \A e \in DOMAIN epoch_contracts[n] : e # id => ecs[e] = epoch_contracts[n][e]
    BY <1>4 DEF With
  <2> QED BY <2>2, <2>3, <2>4
<1>7. /\ last_epoch_number' \in [Node -> Nat] /\ last_epoch_number'[n] = id
      /\ id \in 1..id /\ last_epoch_number[n] <= id
      /\ \A m \in Node \ {n} : last_epoch_number'[m] = last_epoch_number[m]
  BY <1>1, <1>2, <1>3, <1>5, <1>6 DEF TypeOK
<1>8. inputs = InputsOf(ecs[id].contracts)
  BY <1>6 DEF inputs
<1>9. CASE inputs = {} /\ createRecorder(n, id, {}, vs, ecs) /\ UNCHANGED dart_box
  <2>1. RecorderInput(n, id, vs, ecs)
    <3>1. /\ NodeTypeOK(n) /\ ballots \subseteq ConsensusVoting
          /\ consensus[id].votes \subseteq ballots
      BY <1>1, <1>2 DEF TypeOK
    <3>2. ASSUME NEW e \in DOMAIN votes[n]
          PROVE  vs[e] \in Votes /\ vs[e].votes \subseteq {v \in ballots : v.epoch = e}
      <4>1. votes[n][e] \in Votes /\ votes[n][e].votes \subseteq {v \in ballots : v.epoch = e}
        BY <3>1 DEF NodeTypeOK
      <4>2. vs[e] = [votes[n][e] EXCEPT !.votes =
                         votes[n][e].votes \cup {v \in consensus[id].votes : v.epoch = e}]
        BY <1>4 DEF AddVotes
      <4> QED BY <3>1, <4>1, <4>2 DEF Votes
    <3>3. vs = [e \in DOMAIN vs |-> vs[e]]
      BY <1>4 DEF AddVotes
    <3>4. ecs = [e \in DOMAIN ecs |-> ecs[e]]
      BY <1>4 DEF With
    <3>5. ecs[id] = Taken(n, id)
      BY <1>4 DEF With
    <3>6. ecs[id] \in EpochContracts
      BY <1>5, <3>5 DEF ConsensusEpoch, EpochContracts, Fingerprints, Taken
    <3>7. \A e \in DOMAIN ecs : ecs[e] \in EpochContracts
      BY <1>6, <3>1, <3>6 DEF NodeTypeOK
    <3>8. /\ DOMAIN votes[n] \subseteq 1..id /\ DOMAIN ecs \subseteq 1..id
          /\ last_consensus_epoch[n] <= id
      <4>1. /\ DOMAIN votes[n] \subseteq 1..last_epoch_number[n]
            /\ DOMAIN epoch_contracts[n] \subseteq 1..last_epoch_number[n]
            /\ last_consensus_epoch[n] <= last_epoch_number[n]
            /\ last_consensus_epoch[n] \in Nat
        BY <1>1 DEF TypeOK, NodeTypeOK
      <4>2. \A e \in 1..last_epoch_number[n] : e \in 1..id
        BY <1>3, <1>6
      <4> QED BY <1>3, <1>6, <1>7, <4>1, <4>2
    <3> QED BY <1>6, <3>2, <3>3, <3>4, <3>7, <3>8 DEF RecorderInput
  <2>2. Recording(n, id, {}, vs, ecs)
    BY <1>2, <1>3, <1>6, <1>7, <1>9, <2>1 DEF Recording
  <2> QED BY <1>2, <1>8, <1>9, <2>2
<1>10. CASE /\ votes' = [votes EXCEPT ![n] = vs]
            /\ epoch_contracts' = [epoch_contracts EXCEPT ![n] = ecs]
            /\ dart_box' = [dart_box EXCEPT ![n] = Append(dart_box[n], ask)]
            /\ UNCHANGED <<last_consensus_epoch, previous_epoch, products, last_globals,
                           commits, running>>
  <2> USE DEF networkVars, storageVars
  <2>1. /\ ask \in DARTRequest /\ ask.method = "checkRead" /\ ask.method # "modify"
        /\ dart_box[n] \in Seq(DARTRequest)
    BY <1>1, <1>5 DEF DARTRequest, TypeOK
  <2>2. ask = [method |-> "checkRead", id |-> id, inputs |-> InputsOf(ecs[id].contracts)]
    BY <1>8
  <2> HIDE DEF ask
  <2>3. /\ Checks(Append(dart_box[n], ask)) = Checks(dart_box[n]) \cup {ask}
        /\ Modifies(Append(dart_box[n], ask)) = Modifies(dart_box[n])
    <3>1. /\ Checks(Append(dart_box[n], ask)) =
                 Checks(dart_box[n]) \cup (IF ask.method = "checkRead" THEN {ask} ELSE {})
          /\ Modifies(Append(dart_box[n], ask)) =
                 Modifies(dart_box[n]) \cup (IF ask.method = "modify" THEN {ask.recorder} ELSE {})
      BY <2>1, BoxOfAppend
    <3> QED BY <2>1, <3>1
  <2>4. /\ votes'[n] = vs /\ epoch_contracts'[n] = ecs
        /\ dart_box'[n] = Append(dart_box[n], ask)
    BY <1>1, <1>10 DEF TypeOK
  <2>5. Asking(n, id, vs, ecs)
    BY <1>3, <1>7, <1>10, <2>2, <2>3, <2>4 DEF Asking
  <2>6. OthersKept(n)
    <3> SUFFICES ASSUME NEW m \in Node, m # n PROVE UNCHANGED NodeView(m)
      BY DEF OthersKept
    <3>1. /\ votes'[m] = votes[m] /\ epoch_contracts'[m] = epoch_contracts[m]
          /\ dart_box'[m] = dart_box[m]
      BY <1>1, <1>10 DEF TypeOK
    <3> QED BY <1>3, <1>7, <1>10, <3>1 DEF NodeView
  <2> QED BY <1>2, <2>5, <2>6
<1> QED BY <1>2, <1>9, <1>10 DEF inputs

--------------------------------------------------------------------------------
\* A recorder that waits is of an epoch that is not finished, and its entry in votes is open.
LEMMA WaitingIsOpen ==
    ASSUME Invariant, NEW n \in Node, NEW x \in Waiting(n)
    PROVE  /\ x \in CommitRequest
           /\ x.id \in Ids(commits[n]) \cup CommittingIds(n)
           /\ x.id \notin 1..last_consensus_epoch[n]
           /\ x.id \in 1..last_epoch_number[n]
           /\ running[n] = "up" => x.id \in DOMAIN votes[n] /\ votes[n][x.id].bullseye = None
<1>1. TypeOK /\ NodeInvariant(n)
  BY DEF Invariant
<1>2. x \in CommitRequest /\ x.id \in Ids(commits[n]) \cup CommittingIds(n)
  <2>1. CASE x \in Range(commits[n])
    <3>1. commits[n] \in Seq(CommitRequest) /\ commits[n] # <<>>
      BY <1>1, <2>1 DEF TypeOK, Range
    <3>2. x \in CommitRequest
      BY <2>1, <3>1, RangeOfTail
    <3> QED BY <2>1, <3>2, IdsOfRange
  <2>2. CASE x \in WorkingAt(n, "dart")
    <3>1. committing[n] # None /\ x = Working(n)
      BY <2>2 DEF WorkingAt
    <3>2. committing[n] \in Committing
      BY <1>1, <3>1 DEF TypeOK, NodeTypeOK
    <3> QED BY <3>1, <3>2 DEF Working, Committing, CommitRequest, CommittingIds
  <2> QED BY <2>1, <2>2 DEF Waiting
<1>3. \A e \in 1..last_consensus_epoch[n] : e \in VotedEpochs(n)
  BY <1>1 DEF NodeInvariant, ChainSigned, VotedEpochs
<1>4. x.id \notin 1..last_consensus_epoch[n] /\ x.id \in 1..last_epoch_number[n]
  BY <1>1, <1>2, <1>3 DEF NodeInvariant, InOneStage
<1>5. running[n] = "up" => x.id \in DOMAIN votes[n] /\ votes[n][x.id].bullseye = None
  BY <1>1, <1>2 DEF NodeInvariant, OpenVotes
<1> QED BY <1>2, <1>4, <1>5

\* A step that leaves the state of a node alone keeps what holds of it.
LEMMA FlowKept ==
    ASSUME NEW n \in Node, Flow(n), UNCHANGED NodeView(n)
    PROVE  Flow(n)'
<1> USE DEF NodeView
<1>1. Waiting(n)' = Waiting(n)
  BY DEF Waiting, WorkingAt, Working
<1>2. Opens(n)' = Opens(n) /\ Finals(n)' = Finals(n)
  BY <1>1 DEF Opens, Finals
<1>3. ChecksKnown(n)' /\ StoresCommitted(n)' /\ OpensOwnEpoch(n)' /\ OpensBeforeShutdown(n)'
  BY <1>1, <1>2 DEF Flow, ChecksKnown, StoresCommitted, OpensOwnEpoch, OpensBeforeShutdown
<1>4. FinishedReachDART(n)' /\ StopsClean(n)'
  BY <1>1, <1>2 DEF Flow, FinishedReachDART, StopsClean
<1> QED BY <1>3, <1>4 DEF Flow

\* So does a step of the services behind the transcript that stores nothing.
LEMMA FlowBehind ==
    ASSUME NEW n \in Node, Flow(n), Waiting(n)' = Waiting(n), dart'[n] = dart[n],
           UNCHANGED <<running, shutdown, last_epoch_number, last_consensus_epoch, votes>>,
           ChecksKnown(n)', StoresCommitted(n)'
    PROVE  Flow(n)'
<1>1. Opens(n)' = Opens(n) /\ Finals(n)' = Finals(n)
  BY DEF Opens, Finals
<1>2. OpensOwnEpoch(n)' /\ OpensBeforeShutdown(n)'
  BY <1>1 DEF Flow, OpensOwnEpoch, OpensBeforeShutdown
<1>3. FinishedReachDART(n)' /\ StopsClean(n)'
  BY <1>1 DEF Flow, FinishedReachDART, StopsClean
<1> QED BY <1>2, <1>3 DEF Flow

\* epoch_commit and the replicator store nothing in the DART.
LEMMA FlowCommitting ==
    ASSUME FlowInvariant, NEW n \in Node, epoch_commit(n) \/ receiveRecorder(n)
    PROVE  Flow(n)' /\ OthersKept(n)
<1> USE DEF networkVars, votingVars, executionVars, storageVars, boxVars
<1>1. Invariant /\ Flow(n) /\ StoresCommitted(n) /\ ChecksKnown(n)
  BY DEF FlowInvariant, Flow
<1>2. CASE epoch_commit(n)
  <2>1. /\ OthersKept(n) /\ Waiting(n)' = Waiting(n) /\ StoresCommitted(n)'
        /\ Checks(dart_box[n])' = Checks(dart_box[n])
    BY <1>1, <1>2, EpochCommitEffect
  <2>2. UNCHANGED <<running, shutdown, last_epoch_number, votingVars, executionVars, checked, dart>>
    BY <1>2 DEF epoch_commit
  <2>3. ChecksKnown(n)'
    <3>1. \A e \in CheckIds(dart_box[n])' : e \in CheckIds(dart_box[n])
      BY <2>1 DEF CheckIds, Checks
    <3> QED BY <1>1, <2>2, <3>1 DEF ChecksKnown
  <2> QED BY <1>1, <2>1, <2>2, <2>3, FlowBehind
<1>3. CASE receiveRecorder(n)
  <2>1. OthersKept(n) /\ Waiting(n)' = Waiting(n) /\ StoresCommitted(n)'
    BY <1>1, <1>3, ReceiveRecorderEffect
  <2>2. UNCHANGED <<running, shutdown, last_epoch_number, votingVars, executionVars, dart_box,
                    checked, dart>>
    BY <1>3 DEF receiveRecorder
  <2>3. ChecksKnown(n)'
    BY <1>1, <2>2 DEF ChecksKnown
  <2> QED BY <1>1, <2>1, <2>2, <2>3, FlowBehind
<1> QED BY <1>2, <1>3

\* The answer of the DART is for the epoch that asked.
LEMMA FlowCheckRead ==
    ASSUME FlowInvariant, NEW n \in Node, checkRead(n)
    PROVE  Flow(n)' /\ OthersKept(n)
<1> USE DEF networkVars, votingVars, executionVars, storageVars, boxVars
<1>1. Invariant /\ Flow(n) /\ StoresCommitted(n) /\ ChecksKnown(n)
  BY DEF FlowInvariant, Flow
<1>2. /\ OthersKept(n) /\ Waiting(n)' = Waiting(n) /\ StoresCommitted(n)'
      /\ Checks(dart_box[n])' \subseteq Checks(dart_box[n])
  BY <1>1, CheckReadEffect
<1>3. PICK q \in Checks(dart_box[n]) :
          Range(checked[n])' = Range(checked[n]) \cup
              {[id |-> q.id, not_in_dart |-> q.inputs \ dart[n].bills]}
  BY <1>1, CheckReadEffect
<1>4. UNCHANGED <<running, shutdown, last_epoch_number, votingVars, executionVars, dart>>
  BY DEF checkRead
<1>5. ChecksKnown(n)'
  <2>1. \A e \in CheckIds(dart_box[n])' : e \in CheckIds(dart_box[n])
    BY <1>2 DEF CheckIds, Checks
  <2>2. \A e \in Ids(checked[n])' : e \in Ids(checked[n]) \/ e \in CheckIds(dart_box[n])
    <3>1. Ids(checked[n])' = {a.id : a \in Range(checked[n])'}
      BY DEF Ids, Range
    <3>2. Ids(checked[n]) = {a.id : a \in Range(checked[n])} /\ q.id \in CheckIds(dart_box[n])
      BY IdsOfRange
    <3> QED BY <1>3, <3>1, <3>2
  <2> QED BY <1>1, <1>4, <2>1, <2>2 DEF ChecksKnown
<1> QED BY <1>1, <1>2, <1>4, <1>5, FlowBehind

\* modifyDART: what the recorder finishes is final then, and what it opens was not finished.
LEMMA FlowModifyDART ==
    ASSUME FlowInvariant, NEW n \in Node, modifyDART(n)
    PROVE  Flow(n)' /\ OthersKept(n)
<1> USE DEF networkVars, votingVars, executionVars, storageVars, boxVars
<1> DEFINE x == Working(n)
<1>1. Invariant /\ Flow(n) /\ StoresCommitted(n) /\ ChecksKnown(n)
  BY DEF FlowInvariant, Flow
<1>2. /\ OthersKept(n) /\ StoresCommitted(n)' /\ x \in CommitRequest
      /\ Waiting(n) = Waiting(n)' \cup {x}
      /\ dart'[n] = modify(dart[n], x.recorder)
      /\ Checks(dart_box[n])' \subseteq Checks(dart_box[n])
  BY <1>1, ModifyDARTEffect
<1>3. UNCHANGED <<running, shutdown, last_epoch_number, votingVars, executionVars, checked>>
  BY DEF modifyDART
<1>4. x \in Waiting(n)
  BY <1>2
<1>5. x.id \notin 1..last_consensus_epoch[n]
  BY <1>1, <1>4, WaitingIsOpen
<1> HIDE DEF x
<1> DEFINE r == x.recorder
<1>6. /\ dart'[n].head = (IF r.head = 0 THEN dart[n].head ELSE r.head)
      /\ dart'[n].final = dart[n].final \cup r.final
      /\ dart'[n].locked = (dart[n].locked \ r.final) \cup r.open
  BY <1>2 DEF modify
<1>7. /\ Finals(n) = Finals(n)' \cup r.final
      /\ Opens(n) = Opens(n)' \cup r.open
  BY <1>2 DEF Finals, Opens
<1>8. ChecksKnown(n)'
  <2>1. \A e \in CheckIds(dart_box[n])' : e \in CheckIds(dart_box[n])
    BY <1>2 DEF CheckIds, Checks
  <2> QED BY <1>1, <1>3, <2>1 DEF ChecksKnown
<1>9. OpensOwnEpoch(n)'
  BY <1>1, <1>2, <1>3 DEF Flow, OpensOwnEpoch
<1>10. OpensBeforeShutdown(n)'
  <2>1. \A e \in dart'[n].locked \cup Opens(n)' : e \in dart[n].locked \cup Opens(n)
    BY <1>6, <1>7
  <2> QED BY <1>1, <1>3, <2>1 DEF Flow, OpensBeforeShutdown
<1>11. FinishedReachDART(n)'
  <2> SUFFICES ASSUME running[n] = "up", Disagreeing(votes[n]) = {}
               PROVE  /\ 1..last_consensus_epoch[n] \subseteq dart'[n].final \cup Finals(n)'
                      /\ \A e \in dart'[n].locked :
                             e <= last_consensus_epoch[n] => e \in Finals(n)'
    BY <1>3 DEF FinishedReachDART
  <2>1. /\ 1..last_consensus_epoch[n] \subseteq dart[n].final \cup Finals(n)
        /\ \A e \in dart[n].locked : e <= last_consensus_epoch[n] => e \in Finals(n)
    BY <1>1 DEF Flow, FinishedReachDART
  <2>2. \A e \in r.open : ~(e <= last_consensus_epoch[n])
    <3> SUFFICES ASSUME NEW e \in r.open, e <= last_consensus_epoch[n] PROVE FALSE
      OBVIOUS
    <3>1. e = x.id
      BY <1>1, <1>4 DEF Flow, OpensOwnEpoch
    <3>2. e \in 1..last_epoch_number[n]
      BY <1>1, <1>7 DEF Flow, OpensBeforeShutdown
    <3>3. last_consensus_epoch[n] \in Nat
      BY <1>1 DEF Invariant, TypeOK
    <3> QED BY <1>5, <3>1, <3>2, <3>3
  <2> QED BY <1>6, <1>7, <2>1, <2>2
<1>12. StopsClean(n)'
  <2> SUFFICES ASSUME running[n] # "up"
               PROVE  /\ shutdown[n] # 0
                      /\ 1..shutdown[n] \subseteq dart'[n].final \cup Finals(n)'
                      /\ dart'[n].locked \subseteq Finals(n)'
                      /\ \A y \in Waiting(n)' : /\ y.recorder.open = {}
                                                 /\ y.recorder.head \in {0, shutdown[n]}
                      /\ dart'[n].head # shutdown[n] =>
                             \E y \in Waiting(n)' : y.recorder.head = shutdown[n]
    BY <1>3 DEF StopsClean
  <2>1. /\ shutdown[n] # 0
        /\ 1..shutdown[n] \subseteq dart[n].final \cup Finals(n)
        /\ dart[n].locked \subseteq Finals(n)
        /\ \A y \in Waiting(n) : y.recorder.open = {} /\ y.recorder.head \in {0, shutdown[n]}
        /\ dart[n].head # shutdown[n] => \E y \in Waiting(n) : y.recorder.head = shutdown[n]
    BY <1>1 DEF Flow, StopsClean
  <2>2. r.open = {} /\ r.head \in {0, shutdown[n]}
    BY <1>4, <2>1
  <2>3. ASSUME dart'[n].head # shutdown[n]
        PROVE  \E y \in Waiting(n)' : y.recorder.head = shutdown[n]
    <3>1. r.head = 0 /\ dart[n].head # shutdown[n]
      BY <1>6, <2>2, <2>3
    <3>2. PICK y \in Waiting(n) : y.recorder.head = shutdown[n]
      BY <2>1, <3>1
    <3>3. y # x
      BY <2>1, <3>1, <3>2
    <3> QED BY <1>2, <3>2, <3>3
  <2> HIDE DEF r
  <2> QED BY <1>2, <1>6, <1>7, <2>1, <2>2, <2>3
<1> QED BY <1>2, <1>8, <1>9, <1>10, <1>11, <1>12 DEF Flow

\* createRecorder: the recorder finishes what counts as finished, opens its own epoch before
\* the scheduled one, and the recorder of the shutdown leaves nothing open.
LEMMA FlowRecording ==
    ASSUME FlowInvariant, NEW n \in Node, NEW id, NEW absent, NEW vs, NEW ecs,
           Recording(n, id, absent, vs, ecs)
    PROVE  Flow(n)' /\ OthersKept(n)
<1> USE DEF storageVars
<1> DEFINE lce == last_consensus_epoch[n]
           F == Finished(lce, vs)
<1>1. Invariant /\ Flow(n)
  BY DEF FlowInvariant
<1>2. /\ OthersKept(n)
      /\ RecorderLost(n, ecs) \/ \E r \in Recorder : Sent(n, id, absent, vs, ecs, r)
  BY <1>1, RecordingEffect
<1>3. /\ lce \in Nat /\ last_consensus_epoch'[n] \in Nat /\ lce <= last_consensus_epoch'[n]
      /\ F = (lce + 1)..last_consensus_epoch'[n]
      /\ \A e \in F : e \in DOMAIN vs /\ vs[e].bullseye # None
  BY <1>1, RecordingFinishes
<1>4. /\ running[n] = "up" /\ UNCHANGED <<shutdown, dart_box, committing, dart>>
      /\ last_epoch_number[n] \in Nat /\ last_epoch_number'[n] \in Nat
      /\ last_epoch_number[n] <= last_epoch_number'[n]
      /\ id \in 1..last_epoch_number'[n]
      /\ Range(checked'[n]) \subseteq Range(checked[n])
      /\ id \notin CheckIds(dart_box[n]) \cup Ids(checked'[n])
      /\ DOMAIN vs = DOMAIN votes[n]
      /\ \A e \in DOMAIN votes[n] : /\ vs[e].bullseye = votes[n][e].bullseye
                                    /\ votes[n][e].votes \subseteq vs[e].votes
      /\ \A e \in DOMAIN epoch_contracts[n] : e # id => e \in DOMAIN ecs
  BY <1>1 DEF Recording, Invariant, TypeOK
<1>5. StoresCommitted(n)'
  BY <1>1, <1>4 DEF Flow, StoresCommitted
<1>6. ASSUME epoch_contracts'[n] = ecs \/ epoch_contracts'[n] = Without(ecs, {id})
      PROVE  ChecksKnown(n)'
  <2>1. \A e \in Ids(checked'[n]) : e \in Ids(checked[n])
    BY <1>4 DEF Ids, Range
  <2>2. \A e \in CheckIds(dart_box[n]) \cup Ids(checked'[n]) : e \in DOMAIN ecs /\ e # id
    BY <1>1, <1>4, <2>1 DEF Flow, ChecksKnown
  <2>3. \A e \in DOMAIN ecs : e # id => e \in DOMAIN epoch_contracts'[n]
    BY <1>6 DEF Without
  <2> QED BY <1>4, <2>2, <2>3 DEF ChecksKnown
<1>7. \A e \in 1..last_epoch_number[n] : e \in 1..last_epoch_number'[n]
  BY <1>4
<1>8. Disagreeing(votes[n]) \subseteq Disagreeing(vs)
  BY <1>4 DEF Disagreeing
<1> HIDE DEF F, lce
<1>9. CASE RecorderLost(n, ecs)
  <2>1. UNCHANGED <<running, commits>> /\ Disagreeing(votes'[n]) # {} /\ epoch_contracts'[n] = ecs
    BY <1>9 DEF RecorderLost
  <2>2. Waiting(n)' = Waiting(n)
    BY <1>4, <2>1 DEF Waiting, WorkingAt, Working
  <2>3. Opens(n)' = Opens(n)
    BY <2>2 DEF Opens
  <2>4. OpensOwnEpoch(n)' /\ OpensBeforeShutdown(n)'
    BY <1>1, <1>4, <1>7, <2>1, <2>2, <2>3 DEF Flow, OpensOwnEpoch, OpensBeforeShutdown
  <2>5. FinishedReachDART(n)' /\ StopsClean(n)'
    BY <1>4, <2>1 DEF FinishedReachDART, StopsClean
  <2> QED BY <1>2, <1>5, <1>6, <2>1, <2>4, <2>5 DEF Flow
<1>10. CASE \E r \in Recorder : Sent(n, id, absent, vs, ecs, r)
  <2> PICK r \in Recorder : Sent(n, id, absent, vs, ecs, r)
    BY <1>10
  <2> DEFINE x == [id |-> id, recorder |-> r]
  <2>1. /\ Disagreeing(votes[n]) = {} /\ r.final = F
        /\ Waiting(n)' = Waiting(n) \cup {x} /\ x.id = id /\ x.recorder = r
        /\ epoch_contracts'[n] = Without(ecs, {id})
        /\ ShutdownSent(n, r) \/ RecorderSent(n, id, absent, ecs, r)
    BY <1>8 DEF Sent, F, lce
  <2> HIDE DEF x
  <2>2. Opens(n)' = Opens(n) \cup r.open /\ Finals(n)' = Finals(n) \cup F
    BY <2>1 DEF Opens, Finals
  <2>3. /\ 1..lce \subseteq dart[n].final \cup Finals(n)
        /\ \A e \in dart[n].locked : e <= lce => e \in Finals(n)
    BY <1>1, <1>4, <2>1 DEF Flow, FinishedReachDART, lce
  <2>4. \A e \in 1..last_consensus_epoch'[n] : e \in 1..lce \/ e \in F
    BY <1>3
  <2>5. \A e \in dart[n].locked : e <= last_consensus_epoch'[n] => e \in Finals(n) \cup F
    <3> SUFFICES ASSUME NEW e \in dart[n].locked, e <= last_consensus_epoch'[n], ~(e <= lce)
                 PROVE  e \in F
      BY <2>3
    <3>1. e \in 1..last_epoch_number[n]
      BY <1>1 DEF Flow, OpensBeforeShutdown
    <3> QED BY <1>3, <3>1
  <2>6. CASE ShutdownSent(n, r)
    <3>1. /\ running' = [running EXCEPT ![n] = "stopping"]
          /\ shutdown[n] # 0 /\ shutdown[n] <= last_consensus_epoch'[n]
          /\ r.head = shutdown[n] /\ r.open = {}
      BY <2>6 DEF ShutdownSent
    <3>2. running'[n] # "up" /\ shutdown[n] \in Nat
      <4>1. shutdown[n] \in ShutdownEpoch \cup {0} /\ running \in [Node -> {"up", "stopping", "down"}]
        BY <1>1 DEF Invariant, TypeOK
      <4>2. ShutdownEpoch \subseteq Nat /\ 0 \in Nat
        BY ContractAssumption
      <4>3. shutdown[n] \in Nat
        BY <4>1, <4>2, Zenon
      <4>4. running'[n] = "stopping"
        BY <3>1, <4>1
      <4> QED BY <4>3, <4>4
    <3>3. \A e \in dart[n].locked \cup Opens(n) : e \in 1..last_epoch_number[n] /\ e < shutdown[n]
      BY <1>1, <3>1 DEF Flow, OpensBeforeShutdown
    <3>4. ASSUME NEW y \in Waiting(n) PROVE y.recorder.open = {} /\ y.recorder.head = 0
      <4>1. y.id \notin 1..lce /\ y.id \in DOMAIN votes[n] /\ votes[n][y.id].bullseye = None
        BY <1>1, <1>4, WaitingIsOpen DEF lce
      <4>2. ASSUME NEW e \in y.recorder.open PROVE FALSE
        <5>1. e = y.id
          BY <1>1 DEF Flow, OpensOwnEpoch
        <5>2. e \in 1..last_epoch_number[n] /\ e < shutdown[n]
          BY <3>3 DEF Opens
        <5>3. e \in F
          BY <1>3, <3>1, <3>2, <4>1, <5>1, <5>2
        <5> QED BY <1>3, <1>4, <4>1, <5>1, <5>3
      <4>3. y.recorder.open = {}
        BY <4>2
      <4> QED BY <1>1, <1>4, <4>3 DEF Flow, OpensOwnEpoch
    <3>5. OpensOwnEpoch(n)'
      BY <2>1, <3>1, <3>2, <3>4 DEF OpensOwnEpoch
    <3>6. OpensBeforeShutdown(n)'
      BY <1>4, <1>7, <2>2, <3>1, <3>3 DEF OpensBeforeShutdown
    <3>7. FinishedReachDART(n)'
      BY <3>2 DEF FinishedReachDART
    <3>8. StopsClean(n)'
      <4>1. 1..shutdown[n] \subseteq dart[n].final \cup Finals(n) \cup F
        <5> SUFFICES ASSUME NEW e \in 1..shutdown[n] PROVE e \in dart[n].final \cup Finals(n) \cup F
          OBVIOUS
        <5>1. e \in 1..last_consensus_epoch'[n]
          BY <1>3, <3>1, <3>2
        <5> QED BY <2>3, <2>4, <5>1
      <4>2. dart[n].locked \subseteq Finals(n) \cup F
        <5> SUFFICES ASSUME NEW e \in dart[n].locked PROVE e \in Finals(n) \cup F
          OBVIOUS
        <5>1. e <= last_consensus_epoch'[n]
          BY <1>3, <3>1, <3>2, <3>3
        <5> QED BY <2>5, <5>1
      <4> QED BY <1>4, <2>1, <2>2, <3>1, <3>4, <4>1, <4>2 DEF StopsClean
    <3> QED BY <1>2, <1>5, <1>6, <2>1, <3>5, <3>6, <3>7, <3>8 DEF Flow
  <2>7. CASE RecorderSent(n, id, absent, ecs, r)
    <3>1. /\ running'[n] = "up"
          /\ r.open \subseteq {id}
          /\ r.head # 0 => r.open # {}
          /\ r.open # {} => InChain(n, id)
      BY <1>4, <2>7 DEF RecorderSent
    <3>2. OpensOwnEpoch(n)'
      <4>1. ASSUME NEW y \in Waiting(n)
            PROVE  y.recorder.open \subseteq {y.id} /\ (y.recorder.head # 0 => y.recorder.open # {})
        BY <1>1, <1>4 DEF Flow, OpensOwnEpoch
      <4> QED BY <2>1, <3>1, <4>1 DEF OpensOwnEpoch
    <3>3. OpensBeforeShutdown(n)'
      <4>1. \A e \in r.open : e \in 1..last_epoch_number'[n] /\ (shutdown[n] # 0 => e < shutdown[n])
        BY <1>4, <3>1 DEF InChain
      <4>2. \A e \in dart[n].locked \cup Opens(n) :
                e \in 1..last_epoch_number[n] /\ (shutdown[n] # 0 => e < shutdown[n])
        BY <1>1 DEF Flow, OpensBeforeShutdown
      <4> QED BY <1>4, <1>7, <2>2, <4>1, <4>2 DEF OpensBeforeShutdown
    <3>4. FinishedReachDART(n)'
      <4>1. 1..last_consensus_epoch'[n] \subseteq dart[n].final \cup Finals(n) \cup F
        BY <2>3, <2>4
      <4> QED BY <1>4, <2>2, <2>5, <4>1 DEF FinishedReachDART
    <3>5. StopsClean(n)'
      BY <3>1 DEF StopsClean
    <3> QED BY <1>2, <1>5, <1>6, <2>1, <3>2, <3>3, <3>4, <3>5 DEF Flow
  <2> QED BY <2>1, <2>6, <2>7
<1> QED BY <1>2, <1>9, <1>10

\* A question to the DART keeps the contracts that its answer is for.
LEMMA FlowAsking ==
    ASSUME FlowInvariant, NEW n \in Node, NEW id, NEW vs, NEW ecs,
           EpochTaken(n, id, vs, ecs), Asking(n, id, vs, ecs)
    PROVE  Flow(n)'
<1> USE DEF storageVars
<1>1. Invariant /\ Flow(n)
  BY DEF FlowInvariant
<1>2. /\ DOMAIN vs = DOMAIN votes[n]
      /\ \A e \in DOMAIN votes[n] : /\ vs[e].bullseye = votes[n][e].bullseye
                                    /\ votes[n][e].votes \subseteq vs[e].votes
      /\ id \in Nat /\ last_epoch_number[n] \in Nat /\ id = last_epoch_number[n] + 1
      /\ DOMAIN ecs = DOMAIN epoch_contracts[n] \cup {id}
  BY <1>1, EpochVotes, Zenon
<1>3. /\ running[n] = "up" /\ last_epoch_number'[n] = id
      /\ votes'[n] = vs /\ epoch_contracts'[n] = ecs
      /\ Modifies(dart_box[n])' = Modifies(dart_box[n])
      /\ \A q \in Checks(dart_box[n])' : q \in Checks(dart_box[n]) \/ q.id = id
      /\ UNCHANGED <<running, shutdown, last_consensus_epoch, checked, commits, committing, dart>>
  BY DEF Asking
<1>4. Disagreeing(votes[n]) \subseteq Disagreeing(vs)
  BY <1>2 DEF Disagreeing
<1>5. Waiting(n)' = Waiting(n)
  BY <1>3 DEF Waiting, WorkingAt, Working
<1>6. Opens(n)' = Opens(n) /\ Finals(n)' = Finals(n)
  BY <1>5 DEF Opens, Finals
<1>7. ChecksKnown(n)'
  <2>1. \A e \in CheckIds(dart_box[n])' : e \in CheckIds(dart_box[n]) \/ e = id
    BY <1>3 DEF CheckIds, Checks
  <2> QED BY <1>1, <1>2, <1>3, <2>1 DEF Flow, ChecksKnown
<1>8. StoresCommitted(n)'
  BY <1>1, <1>3 DEF Flow, StoresCommitted
<1>9. OpensOwnEpoch(n)' /\ OpensBeforeShutdown(n)'
  <2>1. \A e \in 1..last_epoch_number[n] : e \in 1..last_epoch_number'[n]
    BY <1>2, <1>3
  <2> QED BY <1>1, <1>3, <1>5, <1>6, <2>1 DEF Flow, OpensOwnEpoch, OpensBeforeShutdown
<1>10. FinishedReachDART(n)' /\ StopsClean(n)'
  BY <1>1, <1>3, <1>4, <1>6 DEF Flow, FinishedReachDART, StopsClean
<1> QED BY <1>7, <1>8, <1>9, <1>10 DEF Flow

\* epoch and receiveChecked.
LEMMA FlowTranscript ==
    ASSUME FlowInvariant, NEW n \in Node, epoch(n) \/ receiveChecked(n)
    PROVE  Flow(n)' /\ OthersKept(n)
<1>1. Invariant /\ Flow(n) /\ ChecksKnown(n)
  BY DEF FlowInvariant, Flow
<1>2. CASE epoch(n)
  <2>1. PICK id, vs, ecs :
            /\ EpochTaken(n, id, vs, ecs)
            /\ \/ Recording(n, id, {}, vs, ecs) /\ InputsOf(ecs[id].contracts) = {}
               \/ Asking(n, id, vs, ecs) /\ OthersKept(n)
    BY <1>1, <1>2, EpochRecordsOrAsks
  <2>2. CASE Recording(n, id, {}, vs, ecs)
    BY <2>2, FlowRecording
  <2>3. CASE Asking(n, id, vs, ecs) /\ OthersKept(n)
    BY <2>1, <2>3, FlowAsking
  <2> QED BY <2>1, <2>2, <2>3
<1>3. CASE receiveChecked(n)
  <2>1. PICK a \in Range(checked[n]) :
            Recording(n, a.id, a.not_in_dart, votes[n], epoch_contracts[n])
    BY <1>1, <1>3, ReceiveCheckedRecords
  <2> QED BY <2>1, FlowRecording
<1> QED BY <1>2, <1>3

\* A bullseye of the node only adds to what may disagree.
LEMMA FlowReceiveBullseye ==
    ASSUME FlowInvariant, NEW n \in Node, receiveBullseye(n)
    PROVE  Flow(n)' /\ OthersKept(n)
<1> USE DEF executionVars, storageVars
<1> DEFINE res == Head(bullseyes[n])
           left == [votes[n] EXCEPT ![res.id].bullseye = res.bullseye,
                                    ![res.id].recorder_block = res.block]
<1>1. Invariant /\ Flow(n) /\ TypeOK /\ NodeInvariant(n) /\ running[n] = "up"
  BY DEF FlowInvariant, Invariant, receiveBullseye
<1>2. /\ UNCHANGED <<consensus, produced, running, shutdown, last_epoch_number,
                      last_consensus_epoch, previous_epoch, executionVars, dart_box,
                      checked, commits, storageVars>>
      /\ bullseyes[n] # <<>>
      /\ votes' = [votes EXCEPT ![n][res.id].bullseye = res.bullseye,
                                ![n][res.id].recorder_block = res.block]
  BY DEF receiveBullseye
<1>3. votes'[n] = left /\ \A m \in Node \ {n} : votes'[m] = votes[m]
  BY <1>1, <1>2 DEF TypeOK
<1>4. res.id \in DOMAIN votes[n] /\ votes[n][res.id].bullseye = None
  <2>1. bullseyes[n] \in Seq(CommitResponse)
    BY <1>1 DEF TypeOK
  <2>2. res.id \in Ids(bullseyes[n])
    BY <1>2, <2>1, IdsOfTail
  <2> QED BY <1>1, <2>2 DEF NodeInvariant, OpenVotes
<1>5. Disagreeing(votes[n]) \subseteq Disagreeing(votes'[n])
  <2> SUFFICES ASSUME NEW e \in Disagreeing(votes[n]) PROVE e \in Disagreeing(left)
    BY <1>3
  <2>1. e \in DOMAIN votes[n] /\ e # res.id
    BY <1>4 DEF Disagreeing
  <2>2. e \in DOMAIN left /\ left[e] = votes[n][e]
    BY <2>1
  <2> HIDE DEF left
  <2> QED BY <2>2 DEF Disagreeing
<1>6. OthersKept(n)
  BY <1>2, <1>3 DEF OthersKept, NodeView
<1>7. Waiting(n)' = Waiting(n)
  BY <1>2 DEF Waiting, WorkingAt, Working
<1>8. Opens(n)' = Opens(n) /\ Finals(n)' = Finals(n)
  BY <1>7 DEF Opens, Finals
<1>9. ChecksKnown(n)' /\ StoresCommitted(n)' /\ OpensOwnEpoch(n)' /\ OpensBeforeShutdown(n)'
  BY <1>1, <1>2, <1>7, <1>8
     DEF Flow, ChecksKnown, StoresCommitted, OpensOwnEpoch, OpensBeforeShutdown
<1>10. FinishedReachDART(n)' /\ StopsClean(n)'
  BY <1>1, <1>2, <1>5, <1>8 DEF Flow, FinishedReachDART, StopsClean
<1> QED BY <1>6, <1>9, <1>10 DEF Flow

\* The shutdown is scheduled ahead of every epoch that is open.
LEMMA FlowShutdown ==
    ASSUME FlowInvariant, NEW n \in Node, scheduleShutdown(n) \/ stopServices(n)
    PROVE  Flow(n)' /\ OthersKept(n)
<1> USE DEF networkVars, votingVars, executionVars, storageVars, boxVars
<1>1. Invariant /\ Flow(n) /\ TypeOK
  BY DEF FlowInvariant, Invariant
<1>2. UNCHANGED <<networkVars, last_epoch_number, votingVars, executionVars, boxVars, storageVars>>
  BY DEF scheduleShutdown, epoch_shutdown, stopServices
<1>3. Waiting(n)' = Waiting(n)
  BY <1>2 DEF Waiting, WorkingAt, Working
<1>4. Opens(n)' = Opens(n) /\ Finals(n)' = Finals(n)
  BY <1>3 DEF Opens, Finals
<1>5. ChecksKnown(n)' /\ StoresCommitted(n)'
  BY <1>1, <1>2 DEF Flow, ChecksKnown, StoresCommitted
<1>6. CASE stopServices(n)
  <2>1. /\ running[n] # "up" /\ running'[n] # "up" /\ UNCHANGED shutdown
        /\ \A m \in Node \ {n} : running'[m] = running[m]
    BY <1>1, <1>6 DEF stopServices, TypeOK
  <2>2. OthersKept(n)
    BY <1>2, <2>1 DEF OthersKept, NodeView
  <2>3. OpensOwnEpoch(n)' /\ OpensBeforeShutdown(n)'
    BY <1>1, <1>2, <1>3, <1>4, <2>1 DEF Flow, OpensOwnEpoch, OpensBeforeShutdown
  <2>4. FinishedReachDART(n)' /\ StopsClean(n)'
    BY <1>1, <1>2, <1>3, <1>4, <2>1 DEF Flow, FinishedReachDART, StopsClean
  <2> QED BY <1>5, <2>2, <2>3, <2>4 DEF Flow
<1>7. CASE scheduleShutdown(n)
  <2>1. PICK s \in ShutdownEpoch : /\ shutdown[n] = 0 /\ Len(consensus) < s
                                   /\ epoch_shutdown(n, s)
    BY <1>7 DEF scheduleShutdown
  <2>2. /\ running[n] = "up" /\ UNCHANGED running /\ shutdown'[n] = s
        /\ \A m \in Node \ {n} : shutdown'[m] = shutdown[m]
    BY <1>1, <2>1 DEF epoch_shutdown, TypeOK
  <2>3. OthersKept(n)
    BY <1>2, <2>2 DEF OthersKept, NodeView
  <2>4. /\ last_epoch_number[n] <= Len(consensus) /\ Len(consensus) \in Nat
        /\ last_epoch_number[n] \in Nat /\ s \in Nat
    BY <1>1, ContractAssumption DEF TypeOK, NodeTypeOK
  <2>5. \A e \in 1..last_epoch_number[n] : e < s
    BY <2>1, <2>4
  <2>6. OpensOwnEpoch(n)' /\ OpensBeforeShutdown(n)'
    BY <1>1, <1>2, <1>3, <1>4, <2>2, <2>5 DEF Flow, OpensOwnEpoch, OpensBeforeShutdown
  <2>7. FinishedReachDART(n)' /\ StopsClean(n)'
    BY <1>1, <1>2, <1>4, <2>2 DEF Flow, FinishedReachDART, StopsClean
  <2> QED BY <1>5, <2>3, <2>6, <2>7 DEF Flow
<1> QED BY <1>6, <1>7

\* A product does not touch the recorders.
LEMMA FlowProduceContract ==
    ASSUME FlowInvariant, NEW n \in Node, NEW c \in Contract, produceContract(n, c)
    PROVE  Flow(n)' /\ OthersKept(n)
<1> USE DEF networkVars, votingVars, executionVars, storageVars, boxVars
<1>1. Flow(n) /\ TypeOK
  BY DEF FlowInvariant, Invariant
<1>2. /\ UNCHANGED <<running, shutdown, last_epoch_number, votingVars, epoch_contracts,
                      last_globals, boxVars, storageVars>>
      /\ \A m \in Node \ {n} : produced'[m] = produced[m] /\ products'[m] = products[m]
  BY <1>1 DEF produceContract, TypeOK
<1>3. OthersKept(n)
  BY <1>2 DEF OthersKept, NodeView
<1>4. Waiting(n)' = Waiting(n)
  BY <1>2 DEF Waiting, WorkingAt, Working
<1>5. ChecksKnown(n)' /\ StoresCommitted(n)'
  BY <1>1, <1>2 DEF Flow, ChecksKnown, StoresCommitted
<1> QED BY <1>1, <1>2, <1>3, <1>4, <1>5, FlowBehind

(* The steps of one node that its recorders are concerned with. *)
NodeStep(n) ==
    \/ (epoch(n) /\ Timely(n)) \/ receiveChecked(n)
    \/ receiveBullseye(n)
    \/ epoch_commit(n) \/ receiveRecorder(n)
    \/ checkRead(n)
    \/ modifyDART(n)
    \/ \E c \in Contract : produceContract(n, c)
    \/ scheduleShutdown(n) \/ stopServices(n)

\* Every step is one of a node, or leaves the state of all nodes alone.
LEMMA NextIsNodeStep ==
    ASSUME [Next]_vars
    PROVE  (\E n \in Node : NodeStep(n)) \/ \A m \in Node : UNCHANGED NodeView(m)
<1> USE DEF networkVars, votingVars, executionVars, storageVars, boxVars
<1>1. CASE decideEpoch
  BY <1>1 DEF decideEpoch, NodeView
<1>2. CASE UNCHANGED vars
  BY <1>2 DEF vars, NodeView
<1> QED BY <1>1, <1>2 DEF Next, Transcript, DARTService, TVM, NodeStep

\* A step of a node keeps what holds of it, and leaves the others alone.
LEMMA FlowOfNode ==
    ASSUME FlowInvariant, NEW n \in Node, NodeStep(n)
    PROVE  Flow(n)' /\ OthersKept(n)
<1>1. CASE epoch(n) \/ receiveChecked(n)
  BY <1>1, FlowTranscript
<1>2. CASE receiveBullseye(n)
  BY <1>2, FlowReceiveBullseye
<1>3. CASE epoch_commit(n) \/ receiveRecorder(n)
  BY <1>3, FlowCommitting
<1>4. CASE checkRead(n)
  BY <1>4, FlowCheckRead
<1>5. CASE modifyDART(n)
  BY <1>5, FlowModifyDART
<1>6. CASE \E c \in Contract : produceContract(n, c)
  BY <1>6, FlowProduceContract
<1>7. CASE scheduleShutdown(n) \/ stopServices(n)
  BY <1>7, FlowShutdown
<1> QED BY <1>1, <1>2, <1>3, <1>4, <1>5, <1>6, <1>7 DEF NodeStep

\* Nothing waits and nothing is finished when a node has booted.
LEMMA InitFlow ==
    ASSUME Init
    PROVE  FlowInvariant
<1> USE DEF Init
<1>1. ASSUME NEW n \in Node PROVE Flow(n)
  <2>1. /\ CheckIds(<<>>) = {} /\ Ids(<<>>) = {} /\ Modifies(<<>>) = {} /\ Range(<<>>) = {}
        /\ Disagreeing(<<>>) = {}
    BY DEF CheckIds, ChecksIn, Ids, Modifies, ModifiesIn, Range, Disagreeing
  <2>2. Waiting(n) = {}
    BY <2>1 DEF Waiting, WorkingAt
  <2>3. Opens(n) = {} /\ Finals(n) = {} /\ dart[n].locked = {}
    BY <2>2 DEF Opens, Finals, GenesisDART
  <2>4. ChecksKnown(n) /\ StoresCommitted(n) /\ OpensOwnEpoch(n) /\ OpensBeforeShutdown(n)
    BY <2>1, <2>2, <2>3 DEF ChecksKnown, StoresCommitted, OpensOwnEpoch, OpensBeforeShutdown
  <2>5. FinishedReachDART(n) /\ StopsClean(n)
    BY <2>3 DEF FinishedReachDART, StopsClean
  <2> QED BY <2>4, <2>5 DEF Flow
<1> QED BY <1>1, InitInvariant DEF FlowInvariant

\* Every step preserves FlowInvariant.
LEMMA NextFlow ==
    ASSUME FlowInvariant, [Next]_vars
    PROVE  FlowInvariant'
<1>1. Invariant'
  BY NextInvariant DEF FlowInvariant
<1>2. ASSUME NEW m \in Node PROVE Flow(m)'
  <2>1. CASE UNCHANGED NodeView(m)
    BY <2>1, FlowKept DEF FlowInvariant
  <2>2. CASE \E n \in Node : NodeStep(n)
    BY <2>1, <2>2, FlowOfNode DEF OthersKept
  <2> QED BY <2>1, <2>2, NextIsNodeStep
<1> QED BY <1>1, <1>2 DEF FlowInvariant

\* The recorders of a node open and finish epochs in step with the transcript, always.
THEOREM FlowHolds == Spec => []FlowInvariant
<1>1. Init => FlowInvariant
  BY InitFlow
<1>2. FlowInvariant /\ [Next]_vars => FlowInvariant'
  BY NextFlow
<1> QED BY <1>1, <1>2, PTL DEF Spec

(***************************************************************************)
(* A node whose transcript stopped and whose last recorder was stored is   *)
(* clean (createRecorder, epoch_commit, dartModifyRR): no recorder that    *)
(* waits when the transcript stops opens an epoch, and all that is         *)
(* finished up to the scheduled epoch is in the DART or waits to be.       *)
(***************************************************************************)
THEOREM ShutdownIsClean == Spec => []CleanShutdown
<1>1. FlowInvariant => CleanShutdown
  <2> SUFFICES ASSUME FlowInvariant, NEW n \in Node, running[n] # "up", Stored(n)
               PROVE  /\ dart[n].head = shutdown[n]
                      /\ 1..shutdown[n] \subseteq dart[n].final
                      /\ dart[n].locked = {}
    BY DEF CleanShutdown
  <2>1. Waiting(n) = {}
    BY DEF Stored, Waiting, WorkingAt, Range
  <2>2. Finals(n) = {}
    BY <2>1 DEF Finals
  <2> QED BY <2>1, <2>2 DEF FlowInvariant, Flow, StopsClean
<1> QED BY <1>1, FlowHolds, PTL

(* What LogReplaysDART says of node n. *)
LogReplays(n) ==
    dart[n] = IF committing[n] # None /\ committing[n].at = "replicator"
              THEN modify(Replay(last_block[n]), committing[n].recorder)
              ELSE Replay(last_block[n])

\* A step of a node keeps its log and its DART together.
LEMMA LogReplaysStep ==
    ASSUME FlowInvariant, NEW n \in Node, NodeStep(n), LogReplays(n)
    PROVE  LogReplays(n)'
<1> USE DEF networkVars, votingVars, executionVars, storageVars, boxVars
<1>1. Invariant /\ StoresCommitted(n) /\ TypeOK
  BY DEF FlowInvariant, Flow, Invariant
<1>2. CASE modifyDART(n)
  <2>1. /\ WorkingAt(n, "replicator") = {} /\ WorkingAt(n, "replicator")' = {Working(n)}
        /\ committing'[n].recorder = Working(n).recorder
        /\ dart'[n] = modify(dart[n], Working(n).recorder)
    BY <1>1, <1>2, ModifyDARTEffect
  <2>2. UNCHANGED last_block
    BY <1>2 DEF modifyDART
  <2>3. dart[n] = Replay(last_block[n])
    BY <2>1 DEF LogReplays, WorkingAt
  <2>4. committing'[n] # None /\ committing'[n].at = "replicator"
    BY <2>1 DEF WorkingAt
  <2> QED BY <2>1, <2>2, <2>3, <2>4 DEF LogReplays
<1>3. CASE receiveRecorder(n)
  <2>1. PICK block \in RecorderBlock :
            /\ last_block'[n] = Append(last_block[n], block)
            /\ block.recorder = committing[n].recorder
    BY <1>1, <1>3, ReceiveRecorderEffect
  <2>2. committing[n] # None /\ committing[n].at = "replicator" /\ committing'[n] = None
    BY <1>1, <1>3, ReceiveRecorderEffect
  <2>3. dart'[n] = dart[n] /\ last_block[n] \in Seq(RecorderBlock)
    BY <1>1, <1>3 DEF receiveRecorder, TypeOK
  <2>4. Replay(Append(last_block[n], block)) = modify(Replay(last_block[n]), block.recorder)
    BY <2>3, ReplayAppend
  <2> QED BY <2>1, <2>2, <2>3, <2>4 DEF LogReplays
<1>4. CASE epoch_commit(n)
  <2>1. /\ committing[n] = None /\ committing'[n].at # "replicator" /\ UNCHANGED <<dart, last_block>>
    BY <1>1, <1>4 DEF epoch_commit, TypeOK
  <2> QED BY <2>1 DEF LogReplays
<1>5. CASE UNCHANGED <<committing, dart, last_block>>
  BY <1>5 DEF LogReplays
<1> QED BY <1>2, <1>3, <1>4, <1>5
        DEF NodeStep, epoch, receiveChecked, receiveBullseye, checkRead, produceContract,
            scheduleShutdown, epoch_shutdown, stopServices

(***************************************************************************)
(* The log of the replicator replays the DART of its node: a recorder is   *)
(* stored once and replicated before the next one is taken (epoch_commit,  *)
(* dartModifyRR, Replicate).                                               *)
(***************************************************************************)
THEOREM LogIsJournal == Spec => []LogReplaysDART
<1>1. LogReplaysDART <=> \A n \in Node : LogReplays(n)
  BY DEF LogReplaysDART, LogReplays
<1>2. Init => LogReplaysDART
  BY ReplayEmpty DEF Init, LogReplaysDART
<1>3. FlowInvariant /\ LogReplaysDART /\ [Next]_vars => LogReplaysDART'
  <2> SUFFICES ASSUME FlowInvariant, \A n \in Node : LogReplays(n), [Next]_vars,
                      NEW m \in Node
               PROVE  LogReplays(m)'
    BY <1>1 DEF LogReplaysDART, LogReplays
  <2>1. CASE UNCHANGED NodeView(m)
    BY <2>1 DEF LogReplays, NodeView
  <2>2. CASE \E n \in Node : NodeStep(n)
    BY <2>1, <2>2, FlowOfNode, LogReplaysStep DEF OthersKept
  <2> QED BY <2>1, <2>2, NextIsNodeStep
<1> QED BY <1>2, <1>3, FlowHolds, PTL DEF Spec
================================================================================
