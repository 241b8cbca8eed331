--------------------------- MODULE RestartInvariant ---------------------------
(***************************************************************************)
(* The inductive invariant of PipelineRestart.  In every life of the       *)
(* network the nodes are in step (InStepInvariant), from the DART and the  *)
(* epoch of the head that the life started from.  What is on disk is tied  *)
(* to the recorders a node stored in all its lives: the DART is what they  *)
(* make, the finished epochs have the bullseyes that they gave, the blocks *)
(* in the files miss the last two before each start.                       *)
(***************************************************************************)
EXTENDS PipelineRestart, InStepInvariant

\* The DART after the first i of the recorders that were stored.
DartAfter(recorders, i) == Replay([j \in 1..i |-> [recorder |-> recorders[j]]])

\* The epoch of the head that the process started from.
Booted == IF boots = <<>> THEN 0 ELSE Last(boots)

LifeOf(n) == LifeFrom(Booted, DartAfter(stored[n], Booted))

\* The recorders of epochs 1, 2, ..., of which the order determines the ones of this life.
History(life, n, s) ==
    /\ s \in Seq(Recorder) /\ life.epoch <= Len(s)
    /\ \A i \in DOMAIN s : s[i].open = {i}
    /\ \A i \in (life.epoch + 1)..Len(s) : s[i] = RecorderAt(life, n, i)
    /\ \A i \in life.epoch..Len(s) : DartAt(life, n, i) = DartAfter(s, i)

\* They are what a node stored, up to the head of its DART.
HistoryHeld(life, n) ==
    History(life, n, stored[n]) /\ Len(stored[n]) = dart[n].head

\* All nodes started from the same recorders, but for the WitnessHeads.
HistoryShared(life) ==
    \A n, m \in Node : \A i \in 1..life.epoch :
        ButWitnesses(stored[n][i]) = ButWitnesses(stored[m][i])

Removed(recorders) == UNION {recorders[i].removes : i \in DOMAIN recorders}

Added(recorders) == UNION {recorders[i].adds : i \in DOMAIN recorders}

\* What was removed was there, is not there, and was removed for one contract only.
SpentForGood(recorders, bills) ==
    /\ Removed(recorders) \cap bills = {}
    /\ bills \subseteq Bill \cup Added(recorders)
    /\ Removed(recorders) \subseteq Bill \cup Added(recorders)
    /\ \A i \in DOMAIN recorders :
           /\ \A c \in recorders[i].adds : Inputs[c] \subseteq recorders[i].removes
           /\ \A c, d \in recorders[i].adds : c # d => Inputs[c] \cap Inputs[d] = {}
    /\ \A i, j \in DOMAIN recorders :
           i # j => recorders[i].removes \cap recorders[j].removes = {}

\* The last epoch whose recorder was made.
MadeEpoch(n) ==
    IF commits[n] # <<>> \/ (committing[n] # None /\ committing[n].at = "dart")
    THEN dart[n].head + 1
    ELSE dart[n].head

BillsAt(life, i) == Cardinality(Determined(life)[i].dart.bills)

\* The statistics are those of the DART with the last recorder that was made, and an
\* Epoch record has those of the DART with its own recorder.
StatisticsHeld(life, n) ==
    /\ last_globals[n] = BillsAt(life, MadeEpoch(n))
    /\ \A i \in {dart[n].head, MadeEpoch(n)} \ {0} :
           i \in DOMAIN doc_globals[n] /\ doc_globals[n][i] = BillsAt(life, i)

\* A finished epoch was stored by all nodes, with its bullseye.
FinishedHeld ==
    \A f \in finished, n \in Node :
        f.epoch \in DOMAIN stored[n] /\ f.bullseye = DartAfter(stored[n], f.epoch)

LoggedTo(life, n) == life.epoch + Len(last_block[n])

\* A file is named after an epoch that was logged or lost by now.
FilesHeld(life, n) == \A f \in file_names[n] : f \in Nat /\ f <= LoggedTo(life, n)

\* A block of this life is written, or it is the last one and about to be.
JournalHeld(life, n) ==
    /\ journal[n] \in Seq(RecorderBlock)
    /\ unwritten[n] # None =>
           last_block[n] # <<>> /\ unwritten[n] = Last(last_block[n])
    /\ \A i \in 1..LoggedTo(life, n) :
           \/ \E j \in DOMAIN journal[n] : journal[n][j].epoch = i
           \/ \E j \in DOMAIN boots : i \in {boots[j], boots[j] - 1}
           \/ unwritten[n] # None /\ i = LoggedTo(life, n)

DiskPerNode ==
    /\ boots \in Seq(Nat)
    /\ DOMAIN stored = Node /\ DOMAIN doc_globals = Node /\ DOMAIN unwritten = Node
    /\ DOMAIN journal = Node /\ DOMAIN file_names = Node

DiskHeld(life, n) ==
    /\ HistoryHeld(life, n) /\ SpentForGood(stored[n], dart[n].bills)
    /\ StatisticsHeld(life, n)
    /\ FilesHeld(life, n) /\ JournalHeld(life, n)

Held(life) ==
    /\ life.epoch = Booted /\ InStep(life)
    /\ DiskPerNode /\ HistoryShared(life) /\ FinishedHeld
    /\ \A n \in Node : DiskHeld(life, n)

RestartInvariant == \E life \in {LifeOf(n) : n \in Node} : Held(life)
================================================================================
