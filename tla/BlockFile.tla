------------------------------- MODULE BlockFile -------------------------------
(***************************************************************************)
(* The file that a DART is kept in (BlockFile.d), used as DARTFile.d uses  *)
(* it: a transaction disposes documents of the tree and saves new ones,    *)
(* and ends with store (modify) or is taken back (futureEye).              *)
(*                                                                         *)
(* Simplifications:                                                        *)
(*  - a document is the segment that it takes;                             *)
(*  - of what is on disk the masterblock and the free segments are         *)
(*    modelled, and the documents as what the masterblock leads to;        *)
(*  - store succeeds or does not happen: a crash in the middle of it is    *)
(*    left out.                                                            *)
(***************************************************************************)
EXTENDS Recycler

CONSTANTS
    Size,   \* the sizes of documents, in blocks
    None    \* no segment

ASSUME SizeAssumption == Size \subseteq Nat \ {0}

\* The documents with the statistics that every store writes anew.
Statistic == {"block_s", "recycle_s"}

NoStatistics == [block_s |-> None, recycle_s |-> None]

Segment == [index : 1 .. MaxBlock, size : Size]

ASSUME NoneAssumption == None \notin Segment

VARIABLES
    recycler,
    block_chains,   \* the cache: documents saved and not yet stored
    tree,           \* the stored documents that the tree, in memory, still uses
    statistics,     \* per statistic: its segment, or None
    lost,           \* blocks that nothing uses and that are not free
    disk,           \* the free segments written on disk and not written over
    masterblock,    \* the masterblock on disk: where it is, the list of free segments,
                    \* and the documents that it leads to
    lost_on_disk    \* the blocks that were lost when it was written

memoryVars == <<recycler, block_chains, tree, statistics, lost>>
diskVars == <<disk, masterblock, lost_on_disk>>
vars == <<memoryVars, diskVars>>

Empty == [indices |-> {}, to_be_recycled |-> <<>>, last_block_index |-> 1]

\* BlockFile.create
Init ==
    /\ recycler = Empty
    /\ block_chains = {}
    /\ tree = {}
    /\ statistics = NoStatistics
    /\ lost = {}
    /\ disk = {}
    /\ masterblock = [at |-> 1, head |-> 0, tree |-> {},
                      statistics |-> NoStatistics]
    /\ lost_on_disk = {}

(***************************************************************************)
(* A transaction                                                           *)
(***************************************************************************)
save(size) ==
    /\ \E c \in Claims(recycler, size) :
        /\ recycler' = c.recycler
        /\ block_chains' = block_chains \cup {[index |-> c.index, size |-> size]}
    /\ UNCHANGED <<tree, statistics, lost, diskVars>>

\* The size is read from the file.
disposeDocument(s) ==
    /\ s \in tree
    /\ recycler' = dispose(recycler, s)
    /\ tree' = tree \ {s}
    /\ UNCHANGED <<block_chains, statistics, lost, diskVars>>

\* A branch below the sectors is replaced by another, and not disposed.
forgetBranch(s) ==
    /\ s \in tree
    /\ tree' = tree \ {s}
    /\ lost' = lost \cup BlocksOf(s)
    /\ UNCHANGED <<recycler, block_chains, statistics, diskVars>>

(***************************************************************************)
(* store                                                                   *)
(***************************************************************************)
\* writeStatistic and writeRecyclerStatistic: the old one is disposed, then the new one
\* is saved.
Rewrites(r, s, stats) ==
    LET disposed == IF stats[s] = None THEN r ELSE dispose(r, stats[s])
    IN  UNION {{[recycler |-> c.recycler,
                 statistics |-> [stats EXCEPT ![s] = [index |-> c.index, size |-> size]]] :
                    c \in Claims(disposed, size)} : size \in Size}

\* What a store of the file (r, stats) with the documents docs leads to: the new
\* documents and statistics go to disk, over the free segments that were on it, then the
\* list of free segments, then the masterblock.
Store(r, stats, docs, new, written) ==
    \E a \in Rewrites(r, "block_s", stats) :
    \E b \in Rewrites(a.recycler, "recycle_s", a.statistics) :
        LET free == recycle(b.recycler.indices, b.recycler.to_be_recycled)
            overwritten == Blocks(new \cup Elements(b.statistics))
            outdated == {s.index : s \in Outdated(free)}
        IN  /\ recycler' = [b.recycler EXCEPT !.indices = Chained(free),
                                              !.to_be_recycled = <<>>]
            /\ statistics' = b.statistics
            /\ tree' = docs
            /\ block_chains' = {}
            /\ disk' = {s \in written : s.index \notin overwritten \cup outdated}
                           \cup {s \in Chained(free) : s.index \in outdated}
            /\ masterblock' = [at |-> b.recycler.last_block_index,
                               head |-> HeaderIndex(free),
                               tree |-> docs, statistics |-> b.statistics]

\* modify: the root of the new tree is one of the documents saved.
store ==
    /\ block_chains # {}
    /\ Store(recycler, statistics, tree \cup block_chains, block_chains, disk)
    /\ lost_on_disk' = lost
    /\ UNCHANGED lost

\* modify when nothing is left in the tree: a new file.
reset ==
    /\ tree = {} /\ block_chains = {}
    /\ Store(Empty, NoStatistics, {}, {}, {})
    /\ lost' = {}
    /\ lost_on_disk' = {}

(***************************************************************************)
(* What ends a transaction otherwise                                       *)
(***************************************************************************)
\* Seeded fault: what was disposed stays disposed.
KeepDisposed(r) == r

ClearToBeRecycled(r) == [r EXCEPT !.to_be_recycled = <<>>]

\* futureEye: the tree is as before, but what was claimed for it is not given back.
remove_disposed_and_added ==
    /\ block_chains' = {}
    /\ recycler' = ClearToBeRecycled(recycler)
    /\ tree' = masterblock.tree
    /\ lost' = (lost \cup Blocks(block_chains)) \ Blocks(masterblock.tree)
    /\ UNCHANGED <<statistics, diskVars>>

\* The file is closed, by modify that failed or by a crash, and opened again.
open ==
    /\ recycler' = [indices |-> ReadFrom(disk, masterblock.head), to_be_recycled |-> <<>>,
                    last_block_index |-> masterblock.at]
    /\ block_chains' = {}
    /\ tree' = masterblock.tree
    /\ statistics' = masterblock.statistics
    /\ lost' = lost_on_disk
    /\ UNCHANGED diskVars

Next ==
    \/ \E size \in Size : save(size)
    \/ \E s \in tree : disposeDocument(s) \/ forgetBranch(s)
    \/ store \/ reset \/ remove_disposed_and_added \/ open

Spec == Init /\ [][Next]_vars

--------------------------------------------------------------------------------
(***************************************************************************)
(* Properties                                                              *)
(***************************************************************************)
FileTypeOK ==
    /\ \A s \in recycler.indices \cup Elements(recycler.to_be_recycled) :
          s.index \in 1 .. MaxBlock /\ s.size \in 1 .. MaxBlock /\ s.next \in 0 .. MaxBlock
    /\ recycler.last_block_index \in 1 .. MaxBlock + 1
    /\ tree \cup block_chains \subseteq Segment
    /\ statistics \in [Statistic -> Segment \cup {None}]
    /\ \A s \in disk : s.index \in 1 .. MaxBlock
    /\ lost \cup lost_on_disk \subseteq 1 .. MaxBlock

\* Pieces of the file, each named for what it is, take every block up to the end of the
\* file that is not lost, and no block twice.
Partition(pieces, missing, end) ==
    /\ \A p, q \in pieces : p # q => BlocksOf(p[2]) \cap BlocksOf(q[2]) = {}
    /\ Blocks({p[2] : p \in pieces}) = (1 .. end - 1) \ missing

Pieces(docs, stats, free) ==
    {<<"tree", s>> : s \in docs}
        \cup {<<x, stats[x]>> : x \in {y \in Statistic : stats[y] # None}}
        \cup {<<"free", s>> : s \in free}

\* In a transaction no block is handed out, or free, while something else uses it, and
\* none gets lost but those of branches that are not disposed and those that were
\* claimed for a futureEye.
EachBlockOnce ==
    Partition(Pieces(tree, statistics, recycler.indices)
                  \cup {<<"saved", s>> : s \in block_chains}
                  \cup {<<"disposed", recycler.to_be_recycled[i], i>> :
                           i \in DOMAIN recycler.to_be_recycled},
              lost, recycler.last_block_index)

\* The same holds of the file on disk: whenever it is opened, by another process or
\* after a crash between two stores, the list of free segments that starts in the
\* masterblock is complete and holds nothing that is used.
WholeOnDisk ==
    Partition(Pieces(masterblock.tree, masterblock.statistics,
                     ReadFrom(disk, masterblock.head)),
              lost_on_disk, masterblock.at)

\* Free segments that touch are one: a document finds room where there is room in one
\* place.
FreeInOnePiece ==
    \A s, t \in recycler.indices : EndOf(s) # t.index
================================================================================
