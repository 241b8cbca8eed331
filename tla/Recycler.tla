-------------------------------- MODULE Recycler --------------------------------
(***************************************************************************)
(* The recycler of a block file (Recycler.d): which segments are free.     *)
(*                                                                         *)
(* A recycler is a record of                                               *)
(*  - indices: the free segments; the code keeps them in a tree by index   *)
(*    and in an array by size;                                             *)
(*  - to_be_recycled: the segments that the transaction has disposed;      *)
(*  - last_block_index: the end of the file, where the masterblock goes    *)
(*    (a field of the block file that owns the recycler).                  *)
(***************************************************************************)
EXTENDS Integers, Sequences, FiniteSets

CONSTANT MaxBlock   \* bound: blocks of the file, besides header and masterblock

ASSUME BlockAssumption == MaxBlock \in Nat \ {0}

\* RecycleSegment: next is what the segment says, in memory and on disk, of the segment
\* that follows it in the list of free ones; 0 (Index.init) is none.
RecycleSegment(index, size) == [index |-> index, size |-> size, next |-> 0]

EndOf(s) == s.index + s.size

BlocksOf(s) == s.index .. EndOf(s) - 1

Blocks(S) == UNION {BlocksOf(s) : s \in S}

Elements(list) == {list[i] : i \in DOMAIN list}

--------------------------------------------------------------------------------
(***************************************************************************)
(* recycle                                                                 *)
(***************************************************************************)
Below(free, s) == {t \in free : EndOf(t) = s.index}

\* Seeded fault: a segment is not joined to the one after it.
AboveIgnored(free, s) == {}

Above(free, s) == {t \in free : t.index = EndOf(s)}

\* Segment s becomes free, in one piece with the free segments before and after it.
RecycleOne(free, s) ==
    LET start == IF Below(free, s) = {} THEN s.index
                 ELSE (CHOOSE t \in Below(free, s) : TRUE).index
        end == IF Above(free, s) = {} THEN EndOf(s)
               ELSE EndOf(CHOOSE t \in Above(free, s) : TRUE)
    IN  (free \ (Below(free, s) \cup Above(free, s)))
            \cup {RecycleSegment(start, end - start)}

recycle(free, segments) ==
    LET after[i \in 0 .. Len(segments)] ==
            IF i = 0 THEN free ELSE RecycleOne(after[i - 1], segments[i])
    IN  after[Len(segments)]

--------------------------------------------------------------------------------
(***************************************************************************)
(* claim and dispose                                                       *)
(***************************************************************************)
\* The first segment of that size that was disposed, if there is one.
FirstDisposed(r, size) ==
    {i \in DOMAIN r.to_be_recycled :
        /\ r.to_be_recycled[i].size = size
        /\ \A j \in 1 .. i - 1 : r.to_be_recycled[j].size # size}

RemoveAt(list, i) == SubSeq(list, 1, i - 1) \o SubSeq(list, i + 1, Len(list))

\* The smallest free segments that are large enough: which of several the sorted array
\* has in front is not determined.
BestFits(r, size) ==
    {s \in r.indices :
        s.size >= size /\ \A t \in r.indices : t.size >= size => s.size <= t.size}

\* What is left of a free segment when its first blocks are claimed.
Rest(s, size) ==
    IF s.size = size THEN {} ELSE {RecycleSegment(s.index + size, s.size - size)}

\* The ways that claim(size) can end: the recycler after it, and the index it returns.
Claims(r, size) ==
    IF FirstDisposed(r, size) # {}
    THEN {[recycler |-> [r EXCEPT !.to_be_recycled = RemoveAt(@, i)],
           index |-> r.to_be_recycled[i].index] : i \in FirstDisposed(r, size)}
    ELSE IF BestFits(r, size) # {}
    THEN {[recycler |-> [r EXCEPT !.indices = (@ \ {s}) \cup Rest(s, size)],
           index |-> s.index] : s \in BestFits(r, size)}
    ELSE IF r.last_block_index + size <= MaxBlock + 1
    THEN {[recycler |-> [r EXCEPT !.last_block_index = @ + size],
           index |-> r.last_block_index]}
    ELSE {}

dispose(r, s) ==
    [r EXCEPT !.to_be_recycled = Append(@, RecycleSegment(s.index, s.size))]

--------------------------------------------------------------------------------
(***************************************************************************)
(* write and read                                                          *)
(***************************************************************************)
\* The index of the free segment that follows s, or 0.
NextOf(free, s) ==
    LET above == {t.index : t \in {u \in free : s.index < u.index}}
    IN  IF above = {} THEN 0 ELSE CHOOSE i \in above : \A j \in above : i <= j

\* Seeded fault: the last segment is written only if it was not the last before.
OutdatedOnly(free) == {s \in free : s.next # NextOf(free, s)}

\* The segments that write writes again: the others say on disk what they should.
Outdated(free) == {s \in free : s.next # NextOf(free, s) \/ NextOf(free, s) = 0}

\* The list after write: every segment points to the one that follows it.
Chained(free) == {[s EXCEPT !.next = NextOf(free, s)] : s \in free}

\* The index that write returns for the masterblock.
HeaderIndex(free) ==
    IF free = {} THEN 0
    ELSE CHOOSE i \in {s.index : s \in free} : \A s \in free : i <= s.index

\* read follows the list from the index in the masterblock through the segments that
\* are on disk.
ReadFrom(disk, header) ==
    LET at(i) == {s \in disk : s.index = i}
        after[n \in 0 .. Cardinality(disk)] ==
            IF n = 0 THEN at(header)
            ELSE UNION {at(s.next) : s \in after[n - 1]}
    IN  UNION {after[n] : n \in DOMAIN after}
================================================================================
