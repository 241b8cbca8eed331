-------------------------- MODULE BlockFileInvariant --------------------------
(***************************************************************************)
(* The inductive invariant of BlockFile. The blocks of the file are those  *)
(* of five parts: documents, saved documents, statistics, what is lost and *)
(* what the recycler holds, free or disposed. They share no block and      *)
(* leave none out, in memory (with the recycler) and on disk (with what    *)
(* the list of free segments leads to).                                    *)
(***************************************************************************)
EXTENDS BlockFile

FreeSegment == [index : 1 .. MaxBlock, size : 1 .. MaxBlock, next : 0 .. MaxBlock]

Recyclers == [indices : SUBSET FreeSegment, to_be_recycled : Seq(FreeSegment),
              last_block_index : 1 .. MaxBlock + 1]

\* No two of the segments share a block.
Apart(S) == \A s, t \in S : s # t => BlocksOf(s) \cap BlocksOf(t) = {}

DisposedBlocks(r) == Blocks(Elements(r.to_be_recycled))

RecyclerBlocks(r) == Blocks(r.indices) \cup DisposedBlocks(r)

\* The segments of a recycler are apart, and the free ones do not touch.
RecyclerOK(r) ==
    /\ r \in Recyclers
    /\ Apart(r.indices)
    /\ \A s, t \in r.indices : EndOf(s) # t.index
    /\ \A i, j \in DOMAIN r.to_be_recycled :
          i # j => BlocksOf(r.to_be_recycled[i]) \cap BlocksOf(r.to_be_recycled[j]) = {}
    /\ Blocks(r.indices) \cap DisposedBlocks(r) = {}

StatisticBlocks(stats) == Blocks({stats[x] : x \in {y \in Statistic : stats[y] # None}})

\* No block is in two of the parts, and every block is in one.
PartsOf(A, B, C, D, E, all) ==
    /\ A \cap (B \cup C \cup D \cup E) = {}
    /\ B \cap (C \cup D \cup E) = {}
    /\ C \cap (D \cup E) = {}
    /\ D \cap E = {}
    /\ A \cup B \cup C \cup D \cup E = all

Whole(r, docs, saved, stats, missing) ==
    /\ RecyclerOK(r)
    /\ docs \subseteq Segment /\ Apart(docs)
    /\ saved \subseteq Segment /\ Apart(saved)
    /\ stats \in [Statistic -> Segment \cup {None}]
    /\ \A x, y \in Statistic :
          x # y /\ stats[x] # None /\ stats[y] # None =>
              BlocksOf(stats[x]) \cap BlocksOf(stats[y]) = {}
    /\ PartsOf(Blocks(docs), Blocks(saved), StatisticBlocks(stats), missing,
               RecyclerBlocks(r), 1 .. r.last_block_index - 1)

\* What open makes of the file.
OnDisk ==
    [indices |-> ReadFrom(disk, masterblock.head), to_be_recycled |-> <<>>,
     last_block_index |-> masterblock.at]

\* A block says on disk one thing of a free segment that begins there.
DiskOK(written) ==
    /\ written \subseteq FreeSegment
    /\ \A s, t \in written : s.index = t.index => s = t

\* A free segment that names the next one is on disk as it is.
NamedOnDisk(r, written) == \A s \in r.indices : s.next # 0 => s \in written

\* What the transaction did to the stored documents.
Transaction ==
    /\ statistics = masterblock.statistics
    /\ tree \subseteq masterblock.tree
    /\ DisposedBlocks(recycler) \subseteq Blocks(masterblock.tree)
    /\ Blocks(masterblock.tree) \subseteq
          Blocks(tree) \cup DisposedBlocks(recycler) \cup Blocks(block_chains) \cup lost

FileInvariant ==
    /\ Whole(recycler, tree, block_chains, statistics, lost)
    /\ Whole(OnDisk, masterblock.tree, {}, masterblock.statistics, lost_on_disk)
    /\ DiskOK(disk) /\ NamedOnDisk(recycler, disk)
    /\ Transaction
================================================================================
