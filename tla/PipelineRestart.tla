---------------------------- MODULE PipelineRestart ----------------------------
(***************************************************************************)
(* Crashes of a network in mode 0, where the nodes are threads of one      *)
(* process (neuewelle.d): all die at once, and what they had in memory or  *)
(* in a mailbox is gone, as is the hashgraph with the epochs and votes     *)
(* that were on their way.  What survives is on disk: the DART and the     *)
(* files of the replicator.  The process starts again only when the DARTs  *)
(* have the same bullseye, and every transcript reads where it was from    *)
(* the head (transcript.d).  Nothing happens between crash and start, so   *)
(* they are one step; a process that is not started again takes none.      *)
(*                                                                         *)
(* Simplifications, besides those of EpochPipeline:                        *)
(*  - the DART is stored as a whole or not at all;                         *)
(*  - the new hashgraph, in which any contract may come again, starts with *)
(*    empty epochs up to the one of the head, so that its next epoch has   *)
(*    the number that the transcript gives it;                             *)
(*  - a scheduled shutdown, and new_file_interval, are left out.           *)
(***************************************************************************)
EXTENDS EpochPipeline

CONSTANT MaxBoots   \* bound: times that the process starts again

ASSUME BootAssumption == MaxBoots \in Nat

\* None also says that the replicator has written every block.
ASSUME UnwrittenAssumption == None \notin RecorderBlock

VARIABLES
    boots,        \* the epochs of the heads that it started again from
    stored,       \* per node: the recorders that went to the DART, in order
    doc_globals,  \* per node and epoch: number_of_bills in the Epoch record made for it
    unwritten,    \* the block the replicator has answered and not written, or None
    journal,      \* the blocks in the files of the replicator
    file_names,   \* the epochs that these files are named after
    finished      \* every finished epoch, of any node and before any crash

diskVars == <<stored, doc_globals, unwritten, journal, file_names, finished>>
restartVars == <<vars, boots, diskVars>>

Last(s) == s[Len(s)]

(***************************************************************************)
(* The steps of EpochPipeline, with what they leave on disk                *)
(***************************************************************************)
Memory(n) ==
    /\ TVM(n) \/ epoch_commit(n) \/ checkRead(n) \/ receiveBullseye(n)
    /\ UNCHANGED diskVars

Decide == decideEpoch /\ UNCHANGED diskVars

\* A recorder is made: the Epoch record in it has the statistics of that moment.
MakeRecorder(n) ==
    /\ (epoch(n) /\ Timely(n)) \/ receiveChecked(n)
    /\ doc_globals' =
           IF Len(commits'[n]) > Len(commits[n])
           THEN [doc_globals EXCEPT ![n] = With(@, Last(commits'[n]).id, last_globals'[n])]
           ELSE doc_globals
    /\ finished' = finished \cup
           {[epoch |-> previous_epoch'[n][i].epoch, bullseye |-> previous_epoch'[n][i].bullseye] :
               i \in DOMAIN previous_epoch'[n]}
    /\ UNCHANGED <<stored, unwritten, journal, file_names>>

Store(n) ==
    /\ modifyDART(n)
    /\ stored' = [stored EXCEPT ![n] = Append(@, Head(dart_box[n]).recorder)]
    /\ UNCHANGED <<doc_globals, unwritten, journal, file_names, finished>>

\* Seeded fault: files are numbered from one in every life.
FileNameInLife(n, id) == id - last_consensus_epoch[n]

\* The first epoch after the start names the file.
FileName(n, id) == id

\* A file is created, and it must not be there yet: otherwise the replicator throws
\* and epoch_commit waits for its answer for ever.
FileReady(n) ==
    last_block[n] # <<>> \/ FileName(n, committing[n].id) \notin file_names[n]

\* Seeded fault: the next block may come before the last is written.
ReplicatorReady(n) == TRUE

ReplicatorIdle(n) == unwritten[n] = None

\* The replicator answers, and only then writes the block.
Replicate(n) ==
    /\ ReplicatorIdle(n)
    /\ receiveRecorder(n)
    /\ FileReady(n)
    /\ unwritten' = [unwritten EXCEPT ![n] = Last(last_block'[n])]
    /\ file_names' = IF last_block[n] = <<>>
                     THEN [file_names EXCEPT ![n] = @ \cup {FileName(n, committing[n].id)}]
                     ELSE file_names
    /\ UNCHANGED <<stored, doc_globals, journal, finished>>

WriteBlock(n) ==
    /\ unwritten[n] # None
    /\ journal' = [journal EXCEPT ![n] = Append(@, unwritten[n])]
    /\ unwritten' = [unwritten EXCEPT ![n] = None]
    /\ UNCHANGED <<vars, stored, doc_globals, file_names, finished>>

(***************************************************************************)
(* Crash and start                                                         *)
(***************************************************************************)
\* Seeded fault: DARTs with different bullseyes are not refused.
BootsAnyway == TRUE

\* "DATABASES must be booted with same bullseye".
SameBullseyes == \A n, m \in Node : dart[n] = dart[m]

\* The epoch of the head counts as the last one, and as the last finished one.
BootEpoch(n) == dart[n].head

\* Seeded fault: the statistics start from the genesis.
GenesisGlobals(n) == Cardinality(Bill)

\* The statistics in the Epoch record, or GenesisEpoch, of the head.
BootGlobals(n) ==
    IF dart[n].head = 0 THEN Cardinality(Bill) ELSE doc_globals[n][dart[n].head]

\* Seeded fault: the replicator goes on with the blocks in its files.
BlocksOfFiles(n) == journal[n]

\* An epoch before the first that the transcript takes.
EmptyEpoch ==
    [contracts |-> <<>>, votes |-> {}, witnesses |-> CHOOSE w \in Witnesses : TRUE]

\* The chain of blocks begins anew.
BootBlocks(n) == <<>>

\* The process has died, at any moment, and is started again.
Boot ==
    /\ Len(boots) < MaxBoots
    /\ SameBullseyes
    /\ \E n \in Node :
        /\ boots' = Append(boots, dart[n].head)
        /\ consensus' = [i \in 1 .. BootEpoch(n) |-> EmptyEpoch]
    /\ ballots' = {}
    /\ produced' = [n \in Node |-> {}]
    /\ last_epoch_number' = [n \in Node |-> BootEpoch(n)]
    /\ last_consensus_epoch' = [n \in Node |-> BootEpoch(n)]
    /\ previous_epoch' = [n \in Node |-> <<>>]
    /\ votes' = [n \in Node |-> <<>>]
    /\ products' = [n \in Node |-> {}]
    /\ epoch_contracts' = [n \in Node |-> <<>>]
    /\ last_globals' = [n \in Node |-> BootGlobals(n)]
    /\ dart_box' = [n \in Node |-> <<>>]
    /\ checked' = [n \in Node |-> <<>>]
    /\ commits' = [n \in Node |-> <<>>]
    /\ bullseyes' = [n \in Node |-> <<>>]
    /\ committing' = [n \in Node |-> None]
    /\ last_block' = [n \in Node |-> BootBlocks(n)]
    /\ unwritten' = [n \in Node |-> None]
    /\ UNCHANGED <<running, shutdown, dart, stored, doc_globals, journal, file_names,
                   finished>>

RestartInit ==
    /\ Init
    /\ boots = <<>>
    /\ stored = [n \in Node |-> <<>>]
    /\ doc_globals = [n \in Node |-> <<>>]
    /\ unwritten = [n \in Node |-> None]
    /\ journal = [n \in Node |-> <<>>]
    /\ file_names = [n \in Node |-> {}]
    /\ finished = {}

Running ==
    /\ Decide \/ \E n \in Node : Memory(n) \/ MakeRecorder(n) \/ Store(n) \/ Replicate(n)
                                    \/ WriteBlock(n)
    /\ UNCHANGED boots

RestartNext == Running \/ Boot

RestartSpec == RestartInit /\ [][RestartNext]_restartVars

--------------------------------------------------------------------------------
(***************************************************************************)
(* Properties                                                              *)
(***************************************************************************)
\* An epoch that a node finished stays as it is: no epoch of the same number, with
\* another bullseye, is finished after a crash.
FinishedForGood ==
    \A f, g \in finished : f.epoch = g.epoch => f.bullseye = g.bullseye

\* No archive is spent twice, before and after a crash together.
NoDoubleSpendEver ==
    \A n \in Node : \A i, j \in DOMAIN stored[n] :
        \A c \in stored[n][i].adds, d \in stored[n][j].adds :
            i # j \/ c # d => Inputs[c] \cap Inputs[d] = {}

\* The DARTs of all nodes are made by the same recorders, crashes or not, but for the
\* WitnessHeads: nodes with different ones are not started again before an epoch of which
\* they have the same.
HistoryButWitnesses(n) == [i \in DOMAIN stored[n] |-> ButWitnesses(stored[n][i])]

SameHistory ==
    \A n, m \in Node : Chain!Compatible(HistoryButWitnesses(n), HistoryButWitnesses(m))

\* The Epoch records are the same on all nodes, with the recorder blocks in them,
\* although a chain of blocks begins anew with every start.
SameEpochs ==
    \A n, m \in Node : Chain!Compatible(previous_epoch[n], previous_epoch[m])

\* What the files of the replicator miss is the recorder in hand and the block that is
\* answered and not written, and so at most the last two recorders before each crash.
EpochsOf(recorders) == UNION {recorders[i].open : i \in DOMAIN recorders}

JournalMissesLast ==
    \A n \in Node :
        LET written == {journal[n][i].epoch : i \in DOMAIN journal[n]}
            heads == {boots[i] : i \in DOMAIN boots} \cup {dart[n].head}
        IN  EpochsOf(stored[n]) \ written \subseteq heads \cup {h - 1 : h \in heads}

\* The replicator never finds the file that it wants to create.
FileIsNew ==
    \A n \in Node : committing[n] # None /\ committing[n].at = "replicator" => FileReady(n)
================================================================================
