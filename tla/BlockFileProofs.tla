---------------------------- MODULE BlockFileProofs ----------------------------
(***************************************************************************)
(* Proofs about BlockFile, for every length of the file and every set of   *)
(* sizes: the file is whole, in memory and on disk, and what is free is in *)
(* one piece.                                                              *)
(***************************************************************************)
EXTENDS BlockFileInvariant, FiniteSetTheorems, SequenceTheorems, WellFoundedInduction, TLAPS

\* A set of natural numbers that is not empty has a least element.
LEMMA LeastNumber ==
    ASSUME NEW T \in SUBSET Nat, T # {}
    PROVE  \E x \in T : \A y \in T : x <= y
<1> DEFINE R == {ss \in Nat \X Nat : ss[1] < ss[2]}
<1>1. IsWellFoundedOn(R, Nat)
  BY NatLessThanWellFounded DEF OpToRel
<1>2. \A x, y \in Nat : <<x, y>> \in R <=> x < y
  OBVIOUS
<1> HIDE DEF R
<1>3. PICK x \in T : \A y \in T : <<y, x>> \notin R
  BY <1>1, WFMin
<1>4. ASSUME NEW y \in T PROVE x <= y
  <2>1. x \in Nat /\ y \in Nat /\ ~(y < x)
    BY <1>2, <1>3
  <2> QED BY <2>1
<1> QED BY <1>4

(***************************************************************************)
(* Blocks                                                                  *)
(***************************************************************************)
(* A segment of the file, used or free. *)
IsPiece(s) == s.index \in Nat \ {0} /\ s.size \in Nat \ {0}

\* Used and free segments are pieces of the file.
LEMMA SegmentsArePieces ==
    /\ \A s \in Segment : IsPiece(s)
    /\ \A s \in FreeSegment : IsPiece(s)
<1>1. ASSUME NEW s \in Segment PROVE IsPiece(s)
  <2>1. s.index \in 1 .. MaxBlock /\ s.size \in Size
    BY DEF Segment
  <2>2. s.size \in Nat \ {0}
    BY <2>1, SizeAssumption
  <2>3. s.index \in Nat \ {0}
    BY <2>1, BlockAssumption
  <2> QED BY <2>2, <2>3 DEF IsPiece
<1>2. ASSUME NEW s \in FreeSegment PROVE IsPiece(s)
  <2>1. s.index \in 1 .. MaxBlock /\ s.size \in 1 .. MaxBlock
    BY DEF FreeSegment
  <2> QED BY <2>1, BlockAssumption DEF IsPiece
<1> QED BY <1>1, <1>2

\* The blocks of a piece are those from its index to its end.
LEMMA BlocksOfPiece ==
    ASSUME NEW s, IsPiece(s)
    PROVE  /\ \A x : x \in BlocksOf(s) <=> x \in Nat \ {0} /\ s.index <= x /\ x < s.index + s.size
           /\ s.index \in BlocksOf(s)
           /\ EndOf(s) \in Nat \ {0} /\ EndOf(s) = s.index + s.size
           /\ EndOf(s) - 1 \in BlocksOf(s)
BY DEF IsPiece, BlocksOf, EndOf

\* The blocks of segments.
LEMMA BlocksOfUnion ==
    ASSUME NEW S, NEW T
    PROVE  /\ Blocks(S \cup T) = Blocks(S) \cup Blocks(T)
           /\ \A s \in S : BlocksOf(s) \subseteq Blocks(S)
           /\ \A x \in Blocks(S) : \E s \in S : x \in BlocksOf(s)
           /\ Blocks({}) = {}
BY DEF Blocks

\* The blocks of one segment, and of the others.
LEMMA BlocksWithout ==
    ASSUME NEW S, NEW s \in S, Apart(S)
    PROVE  /\ Blocks(S \ {s}) \cup BlocksOf(s) = Blocks(S)
           /\ Blocks(S \ {s}) \cap BlocksOf(s) = {}
           /\ Apart(S \ {s})
BY DEF Blocks, Apart

\* Segments that are apart begin at different blocks and end at different blocks.
LEMMA ApartEnds ==
    ASSUME NEW S, Apart(S), \A s \in S : IsPiece(s), NEW s \in S, NEW t \in S
    PROVE  /\ s.index = t.index => s = t
           /\ EndOf(s) = EndOf(t) => s = t
<1>1. s.index \in BlocksOf(s) /\ t.index \in BlocksOf(t)
  BY BlocksOfPiece
<1>2. EndOf(s) - 1 \in BlocksOf(s) /\ EndOf(t) - 1 \in BlocksOf(t)
  BY BlocksOfPiece
<1> QED BY <1>1, <1>2 DEF Apart

\* A segment is added that shares no block with the others.
LEMMA ApartWith ==
    ASSUME NEW S, Apart(S), NEW s, BlocksOf(s) \cap Blocks(S) = {}
    PROVE  Apart(S \cup {s})
BY DEF Apart, Blocks

(***************************************************************************)
(* Claim and dispose                                                       *)
(***************************************************************************)
\* The parts of a recycler.
LEMMA RecyclerParts ==
    ASSUME NEW r, RecyclerOK(r)
    PROVE  /\ r = [indices |-> r.indices, to_be_recycled |-> r.to_be_recycled,
                   last_block_index |-> r.last_block_index]
           /\ r.indices \in SUBSET FreeSegment
           /\ r.to_be_recycled \in Seq(FreeSegment)
           /\ r.last_block_index \in Nat \ {0} /\ r.last_block_index <= MaxBlock + 1
           /\ \A s \in r.indices : IsPiece(s)
           /\ \A i \in DOMAIN r.to_be_recycled : IsPiece(r.to_be_recycled[i])
<1>1. /\ r.indices \in SUBSET FreeSegment
      /\ r.to_be_recycled \in Seq(FreeSegment)
      /\ r.last_block_index \in 1 .. MaxBlock + 1
      /\ r = [indices |-> r.indices, to_be_recycled |-> r.to_be_recycled,
              last_block_index |-> r.last_block_index]
  BY DEF RecyclerOK, Recyclers
<1>2. r.last_block_index \in Nat \ {0} /\ r.last_block_index <= MaxBlock + 1
  BY <1>1, BlockAssumption
<1>3. \A i \in DOMAIN r.to_be_recycled : r.to_be_recycled[i] \in FreeSegment
  BY <1>1
<1> QED BY <1>1, <1>2, <1>3, SegmentsArePieces

\* A list without one of its elements.
LEMMA RemoveAtEffect ==
    ASSUME NEW S, NEW list \in Seq(S), NEW i \in DOMAIN list
    PROVE  /\ RemoveAt(list, i) \in Seq(S)
           /\ \A j \in DOMAIN RemoveAt(list, i) :
                 /\ (IF j < i THEN j ELSE j + 1) \in DOMAIN list \ {i}
                 /\ RemoveAt(list, i)[j] = list[IF j < i THEN j ELSE j + 1]
           /\ \A k \in DOMAIN list \ {i} :
                 \E j \in DOMAIN RemoveAt(list, i) : RemoveAt(list, i)[j] = list[k]
           /\ DOMAIN RemoveAt(list, i) \subseteq Nat
<1> DEFINE front == SubSeq(list, 1, i - 1)
           back == SubSeq(list, i + 1, Len(list))
<1>1. Len(list) \in Nat /\ DOMAIN list = 1 .. Len(list) /\ i \in 1 .. Len(list)
  OBVIOUS
<1>2. /\ front \in Seq(S) /\ Len(front) = i - 1
      /\ \A j \in 1 .. i - 1 : front[j] = list[j]
  BY <1>1
<1>3. /\ back \in Seq(S) /\ Len(back) = Len(list) - i
      /\ \A j \in 1 .. Len(list) - i : back[j] = list[j + i]
  BY <1>1
<1>4. RemoveAt(list, i) = front \o back
  BY DEF RemoveAt
<1> HIDE DEF front, back
<1>5. /\ RemoveAt(list, i) \in Seq(S)
      /\ Len(RemoveAt(list, i)) = Len(list) - 1
      /\ \A j \in 1 .. Len(list) - 1 :
            RemoveAt(list, i)[j] = IF j < i THEN front[j] ELSE back[j - (i - 1)]
  <2>1. /\ front \o back \in Seq(S)
        /\ Len(front \o back) = Len(front) + Len(back)
        /\ \A j \in 1 .. Len(front) + Len(back) :
              (front \o back)[j] = IF j <= Len(front) THEN front[j] ELSE back[j - Len(front)]
    BY <1>2, <1>3, ConcatProperties
  <2>2. Len(front) + Len(back) = Len(list) - 1
    BY <1>1, <1>2, <1>3
  <2>3. \A j \in 1 .. Len(list) - 1 : j <= i - 1 <=> j < i
    BY <1>1
  <2> QED BY <1>2, <1>4, <2>1, <2>2, <2>3
<1>6. DOMAIN RemoveAt(list, i) = 1 .. Len(list) - 1
  BY <1>5
<1>7. ASSUME NEW j \in 1 .. Len(list) - 1
      PROVE  /\ (IF j < i THEN j ELSE j + 1) \in DOMAIN list \ {i}
             /\ RemoveAt(list, i)[j] = list[IF j < i THEN j ELSE j + 1]
  <2>1. CASE j < i
    BY <1>1, <1>2, <1>5, <2>1
  <2>2. CASE ~(j < i)
    <3>1. j - (i - 1) \in 1 .. Len(list) - i /\ (j - (i - 1)) + i = j + 1
      BY <1>1, <2>2
    <3>2. RemoveAt(list, i)[j] = back[j - (i - 1)]
      BY <1>5, <2>2
    <3>3. back[j - (i - 1)] = list[j + 1]
      BY <1>3, <3>1
    <3>4. j + 1 \in 1 .. Len(list) /\ j + 1 # i
      BY <1>1, <2>2
    <3> QED BY <1>1, <2>2, <3>2, <3>3, <3>4
  <2> QED BY <2>1, <2>2
<1>8. ASSUME NEW k \in DOMAIN list \ {i}
      PROVE  \E j \in 1 .. Len(list) - 1 : RemoveAt(list, i)[j] = list[k]
  <2>1. CASE k < i
    <3>1. k \in 1 .. Len(list) - 1
      BY <1>1, <2>1
    <3> QED BY <1>7, <2>1, <3>1
  <2>2. CASE ~(k < i)
    <3>1. k - 1 \in 1 .. Len(list) - 1 /\ ~(k - 1 < i) /\ (k - 1) + 1 = k
      BY <1>1, <2>2
    <3> QED BY <1>7, <3>1
  <2> QED BY <2>1, <2>2
<1>9. 1 .. Len(list) - 1 \subseteq Nat
  BY <1>1
<1> QED BY <1>5, <1>6, <1>7, <1>8, <1>9

(* Segment x was claimed of recycler r, which left q: the blocks of x come from those of *)
(* r, or from the end of the file. *)
Claimed(r, q, x) ==
    /\ RecyclerOK(q) /\ x \in Segment
    /\ RecyclerBlocks(q) \cup BlocksOf(x) =
          RecyclerBlocks(r) \cup (r.last_block_index .. q.last_block_index - 1)
    /\ BlocksOf(x) \cap RecyclerBlocks(q) = {}
    /\ DisposedBlocks(q) \subseteq DisposedBlocks(r)
    /\ DisposedBlocks(r) \subseteq DisposedBlocks(q) \cup BlocksOf(x)
    /\ NamedOnDisk(q, r.indices)
    /\ r.last_block_index <= q.last_block_index

InFile(r) == RecyclerBlocks(r) \subseteq 1 .. r.last_block_index - 1

\* A segment that was disposed is used again.
LEMMA ClaimDisposed ==
    ASSUME NEW r, RecyclerOK(r), InFile(r), NEW size \in Size,
           NEW i \in DOMAIN r.to_be_recycled, r.to_be_recycled[i].size = size
    PROVE  Claimed(r, [r EXCEPT !.to_be_recycled = RemoveAt(@, i)],
                   [index |-> r.to_be_recycled[i].index, size |-> size])
<1> DEFINE list == r.to_be_recycled
           rest == RemoveAt(list, i)
           q == [r EXCEPT !.to_be_recycled = RemoveAt(@, i)]
           x == [index |-> list[i].index, size |-> size]
<1>1. /\ list \in Seq(FreeSegment) /\ i \in DOMAIN list
      /\ r = [indices |-> r.indices, to_be_recycled |-> list,
              last_block_index |-> r.last_block_index]
      /\ list[i] \in FreeSegment
  BY RecyclerParts
<1>2. q = [indices |-> r.indices, to_be_recycled |-> rest,
           last_block_index |-> r.last_block_index]
  BY <1>1
<1>3. /\ rest \in Seq(FreeSegment)
      /\ \A j \in DOMAIN rest :
            /\ (IF j < i THEN j ELSE j + 1) \in DOMAIN list \ {i}
            /\ rest[j] = list[IF j < i THEN j ELSE j + 1]
      /\ \A k \in DOMAIN list \ {i} : \E j \in DOMAIN rest : rest[j] = list[k]
      /\ DOMAIN rest \subseteq Nat
  BY <1>1, RemoveAtEffect
<1>4. x \in Segment
  BY <1>1 DEF Segment, FreeSegment
<1>5. BlocksOf(x) = BlocksOf(list[i])
  BY DEF BlocksOf, EndOf
<1>6. /\ q.indices = r.indices /\ q.to_be_recycled = rest
      /\ q.last_block_index = r.last_block_index
  BY <1>2
<1> HIDE DEF q, x, rest
<1>7. DisposedBlocks(r) = DisposedBlocks(q) \cup BlocksOf(x)
  <2>1. \A j \in DOMAIN list : j = i \/ \E k \in DOMAIN rest : rest[k] = list[j]
    BY <1>3
  <2> QED BY <1>3, <1>5, <1>6, <2>1 DEF DisposedBlocks, Blocks, Elements
<1>8. DisposedBlocks(q) \cap BlocksOf(x) = {}
  <2>1. \A j \in DOMAIN list \ {i} : BlocksOf(list[j]) \cap BlocksOf(list[i]) = {}
    BY DEF RecyclerOK
  <2> QED BY <1>3, <1>5, <1>6, <2>1 DEF DisposedBlocks, Blocks, Elements
<1>9. RecyclerOK(q)
  <2>1. q \in Recyclers
    <3>1. r.indices \in SUBSET FreeSegment /\ r.last_block_index \in 1 .. MaxBlock + 1
      BY DEF RecyclerOK, Recyclers
    <3> QED BY <1>2, <1>3, <3>1 DEF Recyclers
  <2>2. ASSUME NEW j \in DOMAIN rest, NEW k \in DOMAIN rest, j # k
        PROVE  BlocksOf(rest[j]) \cap BlocksOf(rest[k]) = {}
    <3>1. j \in Nat /\ k \in Nat /\ i \in Nat
      BY <1>1, <1>3
    <3>2. (IF j < i THEN j ELSE j + 1) # (IF k < i THEN k ELSE k + 1)
      BY <2>2, <3>1
    <3>3. \A m, n \in DOMAIN list : m # n => BlocksOf(list[m]) \cap BlocksOf(list[n]) = {}
      BY DEF RecyclerOK
    <3>4. PICK m \in DOMAIN list : m = (IF j < i THEN j ELSE j + 1) /\ rest[j] = list[m]
      BY <1>3
    <3>5. PICK n \in DOMAIN list : n = (IF k < i THEN k ELSE k + 1) /\ rest[k] = list[n]
      BY <1>3
    <3> QED BY <3>2, <3>3, <3>4, <3>5
  <2>3. Blocks(q.indices) \cap DisposedBlocks(q) = {}
    BY <1>6, <1>7 DEF RecyclerOK
  <2> QED BY <1>6, <2>1, <2>2, <2>3 DEF RecyclerOK
<1>10. RecyclerBlocks(q) \cup BlocksOf(x) = RecyclerBlocks(r)
  BY <1>6, <1>7 DEF RecyclerBlocks
<1>11. BlocksOf(x) \cap RecyclerBlocks(q) = {}
  <2>1. Blocks(r.indices) \cap DisposedBlocks(r) = {}
    BY DEF RecyclerOK
  <2> QED BY <1>6, <1>7, <1>8, <2>1 DEF RecyclerBlocks
<1>12. r.last_block_index \in Nat /\ r.last_block_index .. r.last_block_index - 1 = {}
  BY RecyclerParts
<1>13. Claimed(r, q, x)
  BY <1>4, <1>6, <1>7, <1>9, <1>10, <1>11, <1>12 DEF Claimed, NamedOnDisk
<1> QED BY <1>13 DEF q, x

\* What is left of a free segment.
LEMMA RestEffect ==
    ASSUME NEW s \in FreeSegment, BlocksOf(s) \subseteq 1 .. MaxBlock,
           NEW size \in Size, size <= s.size
    PROVE  /\ [index |-> s.index, size |-> size] \in Segment
           /\ Rest(s, size) \subseteq FreeSegment
           /\ Blocks(Rest(s, size)) \cup BlocksOf([index |-> s.index, size |-> size]) = BlocksOf(s)
           /\ Blocks(Rest(s, size)) \cap BlocksOf([index |-> s.index, size |-> size]) = {}
           /\ \A t \in Rest(s, size) :
                 /\ t.next = 0 /\ EndOf(t) = EndOf(s) /\ t.index - 1 \in BlocksOf(s)
                 /\ Rest(s, size) = {t}
<1> DEFINE x == [index |-> s.index, size |-> size]
           t == [index |-> s.index + size, size |-> s.size - size, next |-> 0]
<1>1. size \in Nat \ {0}
  BY SizeAssumption
<1>2. /\ IsPiece(s) /\ s.index \in Nat \ {0} /\ s.size \in Nat \ {0}
      /\ s.index \in 1 .. MaxBlock
  BY SegmentsArePieces DEF IsPiece, FreeSegment
<1>3. x \in Segment /\ IsPiece(x) /\ x.index = s.index /\ x.size = size
  BY <1>1, <1>2 DEF Segment, IsPiece
<1>4. /\ t.index = s.index + size /\ t.size = s.size - size /\ t.next = 0
      /\ t = RecycleSegment(s.index + size, s.size - size)
      /\ EndOf(t) = EndOf(s)
  BY <1>1, <1>2 DEF RecycleSegment, EndOf
<1>5. \A b : b \in BlocksOf(s) <=> b \in Nat \ {0} /\ s.index <= b /\ b < s.index + s.size
  BY <1>2, BlocksOfPiece
<1>6. \A b : b \in BlocksOf(x) <=> b \in Nat \ {0} /\ s.index <= b /\ b < s.index + size
  BY <1>3, BlocksOfPiece
<1>7. CASE s.size = size
  <2>1. Rest(s, size) = {}
    BY <1>7 DEF Rest
  <2>2. BlocksOf(x) = BlocksOf(s)
    BY <1>5, <1>6, <1>7
  <2>3. Blocks({}) = {}
    BY DEF Blocks
  <2> HIDE DEF x
  <2>4. Rest(s, size) \subseteq FreeSegment /\ \A u \in Rest(s, size) : FALSE
    BY <2>1
  <2>5. Blocks(Rest(s, size)) = {}
    BY <2>1, <2>3
  <2>6. x \in Segment /\ BlocksOf(x) = BlocksOf(s)
    BY <1>3, <2>2
  <2> QED BY <2>4, <2>5, <2>6 DEF x
<1>8. CASE s.size # size
  <2>1. Rest(s, size) = {t}
    BY <1>4, <1>8 DEF Rest
  <2>2. s.size - size \in Nat \ {0} /\ s.index + size \in Nat \ {0}
    BY <1>1, <1>2, <1>8
  <2>3. IsPiece(t)
    BY <1>4, <2>2 DEF IsPiece
  <2>4. \A b : b \in BlocksOf(t) <=> b \in Nat \ {0} /\ s.index + size <= b /\ b < s.index + s.size
    <3>1. (s.index + size) + (s.size - size) = s.index + s.size
      BY <1>1, <1>2
    <3> HIDE DEF t
    <3> QED BY <1>4, <2>3, <3>1, BlocksOfPiece
  <2>5. s.index + size \in BlocksOf(s) /\ (s.index + size) - 1 \in BlocksOf(s)
    BY <1>1, <1>2, <1>5, <2>2
  <2>6. t \in FreeSegment
    <3>1. s.index + size \in 1 .. MaxBlock
      BY <2>5
    <3>2. s.size - size \in 1 .. MaxBlock
      <4>1. s.size \in 1 .. MaxBlock
        BY DEF FreeSegment
      <4> QED BY <1>1, <2>2, <4>1, BlockAssumption
    <3>3. 0 \in 0 .. MaxBlock
      BY BlockAssumption
    <3> QED BY <3>1, <3>2, <3>3 DEF FreeSegment
  <2>7. Blocks({t}) = BlocksOf(t)
    BY DEF Blocks
  <2> HIDE DEF x, t
  <2>8. \A b : b \in BlocksOf(s) <=> b \in BlocksOf(t) \/ b \in BlocksOf(x)
    BY <1>1, <1>2, <1>5, <1>6, <2>4
  <2>9. \A b : ~(b \in BlocksOf(t) /\ b \in BlocksOf(x))
    BY <1>1, <1>2, <1>6, <2>4
  <2>10. Blocks(Rest(s, size)) = BlocksOf(t)
    BY <2>1, <2>7
  <2>11. /\ Blocks(Rest(s, size)) \cup BlocksOf(x) = BlocksOf(s)
         /\ Blocks(Rest(s, size)) \cap BlocksOf(x) = {}
    BY <2>8, <2>9, <2>10
  <2>12. \A u \in Rest(s, size) :
            /\ u.next = 0 /\ EndOf(u) = EndOf(s) /\ u.index - 1 \in BlocksOf(s)
            /\ Rest(s, size) = {u}
    BY <1>4, <2>1, <2>5
  <2> QED BY <1>3, <2>1, <2>6, <2>11, <2>12 DEF x
<1> QED BY <1>7, <1>8

\* The first blocks of a free segment are used.
LEMMA ClaimFree ==
    ASSUME NEW r, RecyclerOK(r), InFile(r), NEW size \in Size,
           NEW s \in r.indices, size <= s.size
    PROVE  Claimed(r, [r EXCEPT !.indices = (@ \ {s}) \cup Rest(s, size)],
                   [index |-> s.index, size |-> size])
<1> DEFINE rest == Rest(s, size)
           free == r.indices
           kept == free \ {s}
           q == [r EXCEPT !.indices = (@ \ {s}) \cup Rest(s, size)]
           x == [index |-> s.index, size |-> size]
<1>1. /\ free \in SUBSET FreeSegment /\ \A t \in free : IsPiece(t)
      /\ r = [indices |-> free, to_be_recycled |-> r.to_be_recycled,
              last_block_index |-> r.last_block_index]
      /\ r.last_block_index \in Nat \ {0} /\ r.last_block_index <= MaxBlock + 1
  BY RecyclerParts
<1>2. q = [indices |-> kept \cup rest, to_be_recycled |-> r.to_be_recycled,
           last_block_index |-> r.last_block_index]
  BY <1>1
<1>3. BlocksOf(s) \subseteq 1 .. MaxBlock
  <2>1. BlocksOf(s) \subseteq 1 .. r.last_block_index - 1
    BY DEF InFile, RecyclerBlocks, Blocks
  <2> QED BY <1>1, <2>1, BlockAssumption
<1>4. /\ x \in Segment
      /\ rest \subseteq FreeSegment
      /\ Blocks(rest) \cup BlocksOf(x) = BlocksOf(s)
      /\ Blocks(rest) \cap BlocksOf(x) = {}
      /\ \A t \in rest : /\ t.next = 0 /\ EndOf(t) = EndOf(s) /\ t.index - 1 \in BlocksOf(s)
                         /\ rest = {t}
  BY <1>1, <1>3, RestEffect
<1>5. /\ q.indices = kept \cup rest /\ q.to_be_recycled = r.to_be_recycled
      /\ q.last_block_index = r.last_block_index
  BY <1>2
<1> HIDE DEF q, x, rest
<1>6. /\ Apart(free) /\ \A t, u \in free : EndOf(t) # u.index
      /\ Blocks(free) \cap DisposedBlocks(r) = {}
  BY DEF RecyclerOK
<1>7. /\ Blocks(kept) \cup BlocksOf(s) = Blocks(free)
      /\ Blocks(kept) \cap BlocksOf(s) = {}
      /\ Apart(kept)
  BY <1>6, BlocksWithout
<1>8. DisposedBlocks(q) = DisposedBlocks(r)
  BY <1>5 DEF DisposedBlocks
<1>9. Blocks(q.indices) = Blocks(kept) \cup Blocks(rest)
  BY <1>5, BlocksOfUnion
<1>10. \A t, u \in kept \cup rest : EndOf(t) # u.index
  <2>1. ASSUME NEW t \in kept \cup rest, NEW u \in rest PROVE EndOf(t) # u.index
    <3>1. CASE t \in rest
      <4>1. t = u /\ IsPiece(t)
        BY <1>4, <3>1, <2>1, SegmentsArePieces
      <4> QED BY <4>1 DEF IsPiece, EndOf
    <3>2. CASE t \in kept
      <4>1. EndOf(t) - 1 \in BlocksOf(t)
        BY <1>1, <3>2, BlocksOfPiece
      <4>2. EndOf(t) - 1 \notin BlocksOf(s)
        BY <1>7, <3>2, <4>1 DEF Blocks
      <4> QED BY <1>4, <2>1, <4>2
    <3> QED BY <2>1, <3>1, <3>2
  <2>2. ASSUME NEW t \in rest, NEW u \in kept PROVE EndOf(t) # u.index
    BY <1>4, <1>6, <2>2
  <2>3. ASSUME NEW t \in kept, NEW u \in kept PROVE EndOf(t) # u.index
    BY <1>6
  <2> QED BY <2>1, <2>2, <2>3
<1>11. Apart(kept \cup rest)
  <2>1. ASSUME NEW t \in kept, NEW u \in rest PROVE BlocksOf(t) \cap BlocksOf(u) = {}
    <3>1. BlocksOf(u) \subseteq BlocksOf(s)
      BY <1>4, <2>1 DEF Blocks
    <3>2. BlocksOf(t) \subseteq Blocks(kept)
      BY <2>1 DEF Blocks
    <3> QED BY <1>7, <3>1, <3>2
  <2>2. ASSUME NEW t \in kept \cup rest, NEW u \in kept \cup rest, t # u
        PROVE  BlocksOf(t) \cap BlocksOf(u) = {}
    <3>1. CASE t \in rest /\ u \in rest
      BY <1>4, <2>2, <3>1
    <3>2. CASE t \in kept /\ u \in kept
      BY <1>7, <2>2, <3>2 DEF Apart
    <3> QED BY <2>1, <2>2, <3>1, <3>2
  <2> QED BY <2>2 DEF Apart
<1>12. RecyclerOK(q)
  <2>1. q \in Recyclers
    <3>1. r.to_be_recycled \in Seq(FreeSegment) /\ r.last_block_index \in 1 .. MaxBlock + 1
      BY DEF RecyclerOK, Recyclers
    <3>2. kept \cup rest \in SUBSET FreeSegment
      BY <1>1, <1>4
    <3> QED BY <1>2, <3>1, <3>2 DEF Recyclers
  <2>2. Blocks(q.indices) \subseteq Blocks(free)
    BY <1>4, <1>7, <1>9
  <2>3. Blocks(q.indices) \cap DisposedBlocks(q) = {}
    BY <1>6, <1>8, <2>2
  <2>4. \A i, j \in DOMAIN r.to_be_recycled :
           i # j => BlocksOf(r.to_be_recycled[i]) \cap BlocksOf(r.to_be_recycled[j]) = {}
    BY DEF RecyclerOK
  <2> QED BY <1>5, <1>10, <1>11, <2>1, <2>3, <2>4 DEF RecyclerOK
<1>13. RecyclerBlocks(q) \cup BlocksOf(x) = RecyclerBlocks(r)
  BY <1>4, <1>7, <1>8, <1>9 DEF RecyclerBlocks
<1>14. BlocksOf(x) \cap RecyclerBlocks(q) = {}
  BY <1>4, <1>6, <1>7, <1>8, <1>9 DEF RecyclerBlocks
<1>15. r.last_block_index .. r.last_block_index - 1 = {}
  BY <1>1
<1>16. NamedOnDisk(q, r.indices)
  BY <1>4, <1>5 DEF NamedOnDisk
<1>17. Claimed(r, q, x)
  BY <1>1, <1>4, <1>5, <1>8, <1>12, <1>13, <1>14, <1>15, <1>16 DEF Claimed
<1> QED BY <1>17 DEF q, x

\* The file is made longer.
LEMMA ClaimEnd ==
    ASSUME NEW r, RecyclerOK(r), InFile(r), NEW size \in Size,
           r.last_block_index + size <= MaxBlock + 1
    PROVE  Claimed(r, [r EXCEPT !.last_block_index = @ + size],
                   [index |-> r.last_block_index, size |-> size])
<1> DEFINE q == [r EXCEPT !.last_block_index = @ + size]
           x == [index |-> r.last_block_index, size |-> size]
           last == r.last_block_index
<1>1. /\ r = [indices |-> r.indices, to_be_recycled |-> r.to_be_recycled,
              last_block_index |-> last]
      /\ last \in Nat \ {0} /\ last <= MaxBlock + 1
  BY RecyclerParts
<1>2. size \in Nat \ {0}
  BY SizeAssumption
<1>3. q = [indices |-> r.indices, to_be_recycled |-> r.to_be_recycled,
           last_block_index |-> last + size]
  BY <1>1
<1>4. last \in 1 .. MaxBlock /\ last + size \in 1 .. MaxBlock + 1
  BY <1>1, <1>2, BlockAssumption
<1>5. x \in Segment
  BY <1>4 DEF Segment
<1>6. BlocksOf(x) = last .. (last + size) - 1
  BY DEF BlocksOf, EndOf
<1>7. /\ q.indices = r.indices /\ q.to_be_recycled = r.to_be_recycled
      /\ q.last_block_index = last + size
  BY <1>3
<1> HIDE DEF q, x
<1>8. RecyclerBlocks(q) = RecyclerBlocks(r) /\ DisposedBlocks(q) = DisposedBlocks(r)
  BY <1>7 DEF RecyclerBlocks, DisposedBlocks
<1>9. RecyclerOK(q)
  <2>1. q \in Recyclers
    <3>1. r.indices \in SUBSET FreeSegment /\ r.to_be_recycled \in Seq(FreeSegment)
      BY DEF RecyclerOK, Recyclers
    <3> QED BY <1>3, <1>4, <3>1 DEF Recyclers
  <2>2. /\ Apart(q.indices)
        /\ \A s, t \in q.indices : EndOf(s) # t.index
        /\ \A i, j \in DOMAIN q.to_be_recycled :
              i # j => BlocksOf(q.to_be_recycled[i]) \cap BlocksOf(q.to_be_recycled[j]) = {}
        /\ Blocks(q.indices) \cap DisposedBlocks(q) = {}
    BY <1>7, <1>8 DEF RecyclerOK
  <2> QED BY <2>1, <2>2 DEF RecyclerOK
<1>10. BlocksOf(x) \cap RecyclerBlocks(q) = {}
  <2>1. (1 .. last - 1) \cap (last .. (last + size) - 1) = {}
    BY <1>1, <1>2
  <2> QED BY <1>6, <1>8, <2>1 DEF InFile
<1>11. NamedOnDisk(q, r.indices)
  BY <1>7 DEF NamedOnDisk
<1>12. Claimed(r, q, x)
  BY <1>1, <1>2, <1>5, <1>6, <1>7, <1>8, <1>9, <1>10, <1>11 DEF Claimed
<1> QED BY <1>12 DEF q, x

\* However a claim ends, the blocks that it returns were free or new.
LEMMA ClaimEffect ==
    ASSUME NEW r, RecyclerOK(r), InFile(r), NEW size \in Size, NEW c \in Claims(r, size)
    PROVE  Claimed(r, c.recycler, [index |-> c.index, size |-> size])
<1>1. CASE FirstDisposed(r, size) # {}
  <2>1. PICK i \in FirstDisposed(r, size) :
            c = [recycler |-> [r EXCEPT !.to_be_recycled = RemoveAt(@, i)],
                 index |-> r.to_be_recycled[i].index]
    BY <1>1 DEF Claims
  <2>2. i \in DOMAIN r.to_be_recycled /\ r.to_be_recycled[i].size = size
    BY DEF FirstDisposed
  <2>3. Claimed(r, [r EXCEPT !.to_be_recycled = RemoveAt(@, i)],
                [index |-> r.to_be_recycled[i].index, size |-> size])
    BY <2>2, ClaimDisposed
  <2> QED BY <2>1, <2>3, Zenon
<1>2. CASE FirstDisposed(r, size) = {} /\ BestFits(r, size) # {}
  <2>1. PICK s \in BestFits(r, size) :
            c = [recycler |-> [r EXCEPT !.indices = (@ \ {s}) \cup Rest(s, size)],
                 index |-> s.index]
    BY <1>2 DEF Claims
  <2>2. s \in r.indices /\ s.size >= size
    BY DEF BestFits
  <2>3. size <= s.size
    <3>1. size \in Nat /\ s.size \in Nat
      <4>1. IsPiece(s)
        BY <2>2, RecyclerParts
      <4> QED BY <4>1, SizeAssumption DEF IsPiece
    <3> QED BY <2>2, <3>1
  <2>4. Claimed(r, [r EXCEPT !.indices = (@ \ {s}) \cup Rest(s, size)],
                [index |-> s.index, size |-> size])
    BY <2>2, <2>3, ClaimFree
  <2> QED BY <2>1, <2>4, Zenon
<1>3. CASE FirstDisposed(r, size) = {} /\ BestFits(r, size) = {}
  <2>1. /\ r.last_block_index + size <= MaxBlock + 1
        /\ c = [recycler |-> [r EXCEPT !.last_block_index = @ + size],
                index |-> r.last_block_index]
    BY <1>3 DEF Claims
  <2>2. Claimed(r, [r EXCEPT !.last_block_index = @ + size],
                [index |-> r.last_block_index, size |-> size])
    BY <2>1, ClaimEnd
  <2> QED BY <2>1, <2>2, Zenon
<1> QED BY <1>1, <1>2, <1>3

\* What is disposed waits in the recycler.
LEMMA DisposeEffect ==
    ASSUME NEW r, RecyclerOK(r), NEW s \in Segment, BlocksOf(s) \subseteq 1 .. MaxBlock,
           BlocksOf(s) \cap RecyclerBlocks(r) = {}
    PROVE  /\ RecyclerOK(dispose(r, s))
           /\ RecyclerBlocks(dispose(r, s)) = RecyclerBlocks(r) \cup BlocksOf(s)
           /\ DisposedBlocks(dispose(r, s)) = DisposedBlocks(r) \cup BlocksOf(s)
           /\ dispose(r, s).indices = r.indices
           /\ dispose(r, s).last_block_index = r.last_block_index
<1> DEFINE list == r.to_be_recycled
           u == RecycleSegment(s.index, s.size)
           longer == Append(list, u)
           q == dispose(r, s)
<1>1. /\ list \in Seq(FreeSegment) /\ r.indices \in SUBSET FreeSegment
      /\ r.last_block_index \in 1 .. MaxBlock + 1
      /\ r = [indices |-> r.indices, to_be_recycled |-> list,
              last_block_index |-> r.last_block_index]
  BY DEF RecyclerOK, Recyclers
<1>2. q = [indices |-> r.indices, to_be_recycled |-> longer,
           last_block_index |-> r.last_block_index]
  <2>1. q = [r EXCEPT !.to_be_recycled = Append(list, u)]
    BY DEF dispose
  <2> HIDE DEF q, u, list
  <2>2. q = [r EXCEPT !.to_be_recycled = longer]
    BY <2>1
  <2> HIDE DEF longer
  <2> QED BY <1>1, <2>2
<1>3. u \in FreeSegment /\ BlocksOf(u) = BlocksOf(s)
  <2>1. IsPiece(s) /\ s.index \in 1 .. MaxBlock
    BY SegmentsArePieces DEF Segment
  <2>2. EndOf(s) - 1 \in 1 .. MaxBlock /\ EndOf(s) = s.index + s.size
    BY <2>1, BlocksOfPiece
  <2>3. s.size \in 1 .. MaxBlock
    BY <2>1, <2>2, BlockAssumption DEF IsPiece
  <2>4. 0 \in 0 .. MaxBlock
    BY BlockAssumption
  <2>5. u = [index |-> s.index, size |-> s.size, next |-> 0]
    BY DEF RecycleSegment
  <2>6. u \in FreeSegment
    BY <2>1, <2>3, <2>4, <2>5 DEF FreeSegment
  <2>7. BlocksOf(u) = BlocksOf(s)
    BY <2>5 DEF BlocksOf, EndOf
  <2> QED BY <2>6, <2>7
<1> HIDE DEF u
<1>4. /\ longer \in Seq(FreeSegment)
      /\ DOMAIN longer = DOMAIN list \cup {Len(list) + 1}
      /\ DOMAIN list = 1 .. Len(list) /\ Len(list) \in Nat
      /\ longer[Len(list) + 1] = u
      /\ \A i \in DOMAIN list : longer[i] = list[i]
  BY <1>1, <1>3
<1>5. /\ q.indices = r.indices /\ q.to_be_recycled = longer
      /\ q.last_block_index = r.last_block_index
  BY <1>2
<1> HIDE DEF longer, q, list
<1>6. DisposedBlocks(q) = DisposedBlocks(r) \cup BlocksOf(s)
  BY <1>3, <1>4, <1>5 DEF DisposedBlocks, Blocks, Elements, list
<1>7. RecyclerBlocks(q) = RecyclerBlocks(r) \cup BlocksOf(s)
  BY <1>5, <1>6 DEF RecyclerBlocks
<1>8. RecyclerOK(q)
  <2>1. q \in Recyclers
    BY <1>1, <1>2, <1>4 DEF Recyclers
  <2>2. \A i \in DOMAIN list : BlocksOf(list[i]) \subseteq DisposedBlocks(r)
    BY DEF DisposedBlocks, Blocks, Elements, list
  <2>3. BlocksOf(s) \cap DisposedBlocks(r) = {} /\ BlocksOf(s) \cap Blocks(r.indices) = {}
    BY DEF RecyclerBlocks
  <2>4. \A i, j \in DOMAIN list : i # j => BlocksOf(list[i]) \cap BlocksOf(list[j]) = {}
    BY DEF RecyclerOK, list
  <2>5. ASSUME NEW i \in DOMAIN longer, NEW j \in DOMAIN longer, i # j
        PROVE  BlocksOf(longer[i]) \cap BlocksOf(longer[j]) = {}
    <3>1. CASE i \in DOMAIN list /\ j \in DOMAIN list
      BY <1>4, <2>4, <2>5, <3>1
    <3>2. CASE i = Len(list) + 1 /\ j \in DOMAIN list
      BY <1>3, <1>4, <2>2, <2>3, <3>2
    <3>3. CASE j = Len(list) + 1 /\ i \in DOMAIN list
      BY <1>3, <1>4, <2>2, <2>3, <3>3
    <3> QED BY <1>4, <2>5, <3>1, <3>2, <3>3
  <2>6. Blocks(r.indices) \cap DisposedBlocks(q) = {}
    <3>1. Blocks(r.indices) \cap DisposedBlocks(r) = {}
      BY DEF RecyclerOK
    <3> QED BY <1>6, <2>3, <3>1
  <2>7. Apart(r.indices) /\ \A t, v \in r.indices : EndOf(t) # v.index
    BY DEF RecyclerOK
  <2> QED BY <1>5, <2>1, <2>5, <2>6, <2>7 DEF RecyclerOK
<1> QED BY <1>5, <1>6, <1>7, <1>8 DEF q

(***************************************************************************)
(* Recycle                                                                 *)
(***************************************************************************)
(* Free segments that are apart and do not touch. *)
FreeOK(free) ==
    /\ free \subseteq FreeSegment
    /\ Apart(free)
    /\ \A s, t \in free : EndOf(s) # t.index
    /\ Blocks(free) \subseteq 1 .. MaxBlock

\* The segments before and after a segment that becomes free, if there are such, join it.
LEMMA RecycleOneEffect ==
    ASSUME NEW free, FreeOK(free), NEW s \in FreeSegment, BlocksOf(s) \subseteq 1 .. MaxBlock,
           BlocksOf(s) \cap Blocks(free) = {}
    PROVE  /\ FreeOK(RecycleOne(free, s))
           /\ Blocks(RecycleOne(free, s)) = Blocks(free) \cup BlocksOf(s)
           /\ \A t \in RecycleOne(free, s) : t.next # 0 => t \in free
<1> DEFINE below == Below(free, s)
           above == Above(free, s)
           start == IF below = {} THEN s.index ELSE (CHOOSE t \in below : TRUE).index
           end == IF above = {} THEN EndOf(s) ELSE EndOf(CHOOSE t \in above : TRUE)
           kept == free \ (below \cup above)
           u == [index |-> start, size |-> end - start, next |-> 0]
<1>1. RecycleOne(free, s) = kept \cup {u}
  BY DEF RecycleOne, RecycleSegment
<1>2. \A t \in free \cup {s} : IsPiece(t)
  BY SegmentsArePieces DEF FreeOK
<1>3. /\ Apart(free) /\ \A t, v \in free : EndOf(t) # v.index
      /\ free \subseteq FreeSegment /\ Blocks(free) \subseteq 1 .. MaxBlock
  BY DEF FreeOK
<1>4. /\ \A t \in below : t \in free /\ EndOf(t) = s.index /\ below = {t}
      /\ \A t \in free : EndOf(t) = s.index => t \in below
  <2>1. ASSUME NEW t \in below, NEW v \in below PROVE t = v
    <3>1. t \in free /\ v \in free /\ EndOf(t) = EndOf(v)
      BY <2>1 DEF Below
    <3>2. \A w \in free : IsPiece(w)
      BY <1>2
    <3> QED BY <1>3, <3>1, <3>2, ApartEnds
  <2>2. \A t \in below : below = {t}
    BY <2>1
  <2> QED BY <2>2 DEF Below
<1>5. /\ \A t \in above : t \in free /\ t.index = EndOf(s) /\ above = {t}
      /\ \A t \in free : t.index = EndOf(s) => t \in above
  <2>1. ASSUME NEW t \in above, NEW v \in above PROVE t = v
    <3>1. t \in free /\ v \in free /\ t.index = v.index
      BY <2>1 DEF Above
    <3>2. \A w \in free : IsPiece(w)
      BY <1>2
    <3> QED BY <1>3, <3>1, <3>2, ApartEnds
  <2>2. \A t \in above : above = {t}
    BY <2>1
  <2> QED BY <2>2 DEF Above
<1> HIDE DEF below, above
<1>6. /\ s.index \in Nat \ {0} /\ EndOf(s) \in Nat \ {0} /\ s.index < EndOf(s)
      /\ \A b : b \in BlocksOf(s) <=> b \in Nat \ {0} /\ s.index <= b /\ b < EndOf(s)
  BY <1>2, BlocksOfPiece DEF IsPiece
<1>7. ASSUME NEW t \in free
      PROVE  /\ t.index \in Nat \ {0} /\ EndOf(t) \in Nat \ {0} /\ t.index < EndOf(t)
             /\ \A b : b \in BlocksOf(t) <=> b \in Nat \ {0} /\ t.index <= b /\ b < EndOf(t)
  BY <1>2, BlocksOfPiece DEF IsPiece
<1>8. below = {} \/ \E t \in below : below = {t} /\ start = t.index
  <2>1. ASSUME NEW t \in below PROVE below = {t} /\ start = t.index
    <3>1. below = {t}
      BY <1>4
    <3>2. (CHOOSE v \in below : TRUE) \in below
      BY <2>1
    <3>3. (CHOOSE v \in below : TRUE) = t
      BY <3>1, <3>2
    <3> QED BY <3>1, <3>3
  <2> QED BY <2>1
<1>9. above = {} \/ \E t \in above : above = {t} /\ end = EndOf(t)
  <2>1. ASSUME NEW t \in above PROVE above = {t} /\ end = EndOf(t)
    <3>1. above = {t}
      BY <1>5
    <3>2. (CHOOSE v \in above : TRUE) \in above
      BY <2>1
    <3>3. (CHOOSE v \in above : TRUE) = t
      BY <3>1, <3>2
    <3> QED BY <3>1, <3>3
  <2> QED BY <2>1
<1>10. (below = {} => start = s.index) /\ (above = {} => end = EndOf(s))
  OBVIOUS
<1> HIDE DEF start, end
<1>11. /\ start \in Nat \ {0} /\ start <= s.index
       /\ end \in Nat \ {0} /\ EndOf(s) <= end
  <2>1. start \in Nat \ {0} /\ start <= s.index
    BY <1>4, <1>6, <1>7, <1>8, <1>10
  <2>2. end \in Nat \ {0} /\ EndOf(s) <= end
    BY <1>5, <1>6, <1>7, <1>9, <1>10
  <2> QED BY <2>1, <2>2
<1>12. \A b : b \in Blocks(below) <=> b \in Nat \ {0} /\ start <= b /\ b < s.index
  <2>1. CASE below = {}
    BY <1>6, <1>10, <2>1 DEF Blocks
  <2>2. CASE below # {}
    <3>1. PICK t \in below : below = {t} /\ start = t.index
      BY <1>8, <2>2
    <3>2. t \in free /\ EndOf(t) = s.index
      BY <1>4, <3>1
    <3>3. Blocks(below) = BlocksOf(t)
      BY <3>1 DEF Blocks
    <3> QED BY <1>7, <3>1, <3>2, <3>3
  <2> QED BY <2>1, <2>2
<1>13. \A b : b \in Blocks(above) <=> b \in Nat \ {0} /\ EndOf(s) <= b /\ b < end
  <2>1. CASE above = {}
    BY <1>6, <1>10, <2>1 DEF Blocks
  <2>2. CASE above # {}
    <3>1. PICK t \in above : above = {t} /\ end = EndOf(t)
      BY <1>9, <2>2
    <3>2. t \in free /\ t.index = EndOf(s)
      BY <1>5, <3>1
    <3>3. Blocks(above) = BlocksOf(t)
      BY <3>1 DEF Blocks
    <3> QED BY <1>7, <3>1, <3>2, <3>3
  <2> QED BY <2>1, <2>2
<1>14. /\ u.index = start /\ u.size = end - start /\ u.next = 0
       /\ IsPiece(u) /\ EndOf(u) = end
       /\ \A b : b \in BlocksOf(u) <=> b \in Nat \ {0} /\ start <= b /\ b < end
  <2>1. u.index = start /\ u.size = end - start /\ u.next = 0
    OBVIOUS
  <2>2. end - start \in Nat \ {0} /\ start + (end - start) = end
    BY <1>6, <1>11
  <2>3. IsPiece(u)
    BY <1>11, <2>1, <2>2 DEF IsPiece
  <2> HIDE DEF u
  <2> QED BY <2>1, <2>2, <2>3, BlocksOfPiece
<1>15. \A b : b \in BlocksOf(u) <=> b \in Blocks(below) \/ b \in BlocksOf(s) \/ b \in Blocks(above)
  <2> HIDE DEF u
  <2> QED BY <1>6, <1>11, <1>12, <1>13, <1>14
<1>16. below \subseteq free /\ above \subseteq free
  BY <1>4, <1>5
<1>17. Blocks(free) = Blocks(kept) \cup Blocks(below) \cup Blocks(above)
  <2>1. free = (kept \cup below) \cup above
    BY <1>16
  <2> HIDE DEF kept
  <2> QED BY <2>1, BlocksOfUnion
<1>18. Blocks(kept \cup {u}) = Blocks(free) \cup BlocksOf(s)
  <2>1. Blocks({u}) = BlocksOf(u)
    BY DEF Blocks
  <2>2. Blocks(kept \cup {u}) = Blocks(kept) \cup BlocksOf(u)
    BY <2>1, BlocksOfUnion
  <2> HIDE DEF kept, u
  <2> QED BY <1>15, <1>17, <2>2
<1>19. BlocksOf(u) \subseteq 1 .. MaxBlock
  <2> HIDE DEF u
  <2> QED BY <1>3, <1>15, <1>17
<1>20. u \in FreeSegment
  <2>1. start \in 1 .. MaxBlock /\ end - 1 \in 1 .. MaxBlock
    <3>1. u.index \in BlocksOf(u) /\ EndOf(u) - 1 \in BlocksOf(u)
      BY <1>14, BlocksOfPiece
    <3> QED BY <1>14, <1>19, <3>1
  <2>2. end - start \in 1 .. MaxBlock
    BY <1>6, <1>11, <2>1, BlockAssumption
  <2>3. 0 \in 0 .. MaxBlock
    BY BlockAssumption
  <2> QED BY <2>1, <2>2, <2>3 DEF FreeSegment
<1>21. Blocks(kept) \cap BlocksOf(u) = {}
  <2>1. ASSUME NEW t \in kept, NEW v \in below \cup above PROVE BlocksOf(t) \cap BlocksOf(v) = {}
    BY <1>3, <1>16, <2>1 DEF Apart
  <2>2. Blocks(kept) \cap Blocks(below) = {} /\ Blocks(kept) \cap Blocks(above) = {}
    BY <2>1 DEF Blocks
  <2>3. Blocks(kept) \subseteq Blocks(free)
    BY <1>17
  <2> HIDE DEF kept, u
  <2> QED BY <1>15, <2>2, <2>3
<1>22. Apart(kept \cup {u})
  <2>1. Apart(kept)
    BY <1>3 DEF Apart
  <2> HIDE DEF kept, u
  <2> QED BY <1>21, <2>1, ApartWith
<1>23. ASSUME NEW t \in kept PROVE EndOf(t) # u.index /\ EndOf(u) # t.index
  <2>1. t \in free /\ t \notin below /\ t \notin above
    BY <1>23
  <2>2. EndOf(t) # start
    <3>1. CASE below = {}
      BY <1>4, <1>10, <2>1, <3>1
    <3>2. CASE below # {}
      BY <1>3, <1>4, <1>8, <2>1, <3>2
    <3> QED BY <3>1, <3>2
  <2>3. end # t.index
    <3>1. CASE above = {}
      BY <1>5, <1>10, <2>1, <3>1
    <3>2. CASE above # {}
      BY <1>3, <1>5, <1>9, <2>1, <3>2
    <3> QED BY <3>1, <3>2
  <2> QED BY <1>14, <2>2, <2>3
<1>24. EndOf(u) # u.index
  BY <1>6, <1>11, <1>14
<1>25. /\ \A t, v \in kept \cup {u} : EndOf(t) # v.index
       /\ kept \cup {u} \subseteq FreeSegment
       /\ \A t \in kept \cup {u} : t.next # 0 => t \in free
  <2>1. \A t, v \in kept : EndOf(t) # v.index
    BY <1>3
  <2>2. kept \subseteq FreeSegment /\ \A t \in kept : t \in free
    BY <1>3
  <2> HIDE DEF kept, u
  <2> QED BY <1>14, <1>20, <1>23, <1>24, <2>1, <2>2
<1>26. Blocks(kept \cup {u}) \subseteq 1 .. MaxBlock
  BY <1>3, <1>18
<1> QED BY <1>1, <1>18, <1>22, <1>25, <1>26 DEF FreeOK

(* f holds what is free after each of the first k segments of the list. *)
Recycled(f, free, list, k) ==
    /\ f = [i \in 0 .. k |-> f[i]]
    /\ f[0] = free
    /\ \A i \in 1 .. k : f[i] = RecycleOne(f[i - 1], list[i])

\* The segments of a list can be recycled one after the other.
LEMMA RecycledExists ==
    ASSUME NEW free, NEW list, NEW n \in Nat
    PROVE  \E f : Recycled(f, free, list, n)
<1> DEFINE Bad == {k \in Nat : ~\E f : Recycled(f, free, list, k)}
<1> SUFFICES ASSUME Bad # {} PROVE FALSE
  OBVIOUS
<1>1. PICK k \in Bad : \A y \in Bad : k <= y
  BY LeastNumber
<1>2. k # 0
  <2>1. Recycled([i \in 0 .. 0 |-> free], free, list, 0)
    BY DEF Recycled
  <2> QED BY <2>1
<1>3. k \in Nat /\ k - 1 \in Nat /\ ~(k <= k - 1)
  BY <1>2
<1>4. PICK f : Recycled(f, free, list, k - 1)
  BY <1>1, <1>3
<1> DEFINE g == [i \in 0 .. k |-> IF i = k THEN RecycleOne(f[k - 1], list[k]) ELSE f[i]]
<1>5. Recycled(g, free, list, k)
  <2>1. g = [i \in 0 .. k |-> g[i]] /\ g[0] = free
    BY <1>2, <1>3, <1>4 DEF Recycled
  <2>2. ASSUME NEW i \in 1 .. k PROVE g[i] = RecycleOne(g[i - 1], list[i])
    <3>1. i - 1 \in 0 .. k /\ i - 1 # k /\ i \in 0 .. k /\ g[i - 1] = f[i - 1]
      BY <1>3
    <3>2. CASE i = k
      BY <3>1, <3>2
    <3>3. CASE i # k
      <4>1. i \in 1 .. k - 1 /\ g[i] = f[i]
        BY <1>3, <3>3
      <4> QED BY <1>4, <3>1, <4>1 DEF Recycled
    <3> QED BY <3>2, <3>3
  <2> HIDE DEF g
  <2> QED BY <2>1, <2>2 DEF Recycled
<1> QED BY <1>5

\* recycle goes through the list in that way.
LEMMA RecycleIs ==
    ASSUME NEW free, NEW S, NEW list \in Seq(S)
    PROVE  \E f : Recycled(f, free, list, Len(list)) /\ recycle(free, list) = f[Len(list)]
<1> DEFINE Step(g, i) == IF i = 0 THEN free ELSE RecycleOne(g[i - 1], list[i])
           after == CHOOSE g : g = [i \in 0 .. Len(list) |-> Step(g, i)]
<1>1. Len(list) \in Nat
  OBVIOUS
<1>2. \E f : f = [i \in 0 .. Len(list) |-> Step(f, i)]
  <2>1. PICK f : Recycled(f, free, list, Len(list))
    BY <1>1, RecycledExists
  <2>2. \A i \in 0 .. Len(list) : i # 0 => i \in 1 .. Len(list)
    BY <1>1
  <2>3. \A i \in 0 .. Len(list) : f[i] = Step(f, i)
    BY <2>1, <2>2 DEF Recycled
  <2>4. f = [i \in 0 .. Len(list) |-> f[i]]
    BY <2>1 DEF Recycled
  <2>5. f = [i \in 0 .. Len(list) |-> Step(f, i)]
    <3> HIDE DEF Step
    <3> QED BY <2>3, <2>4
  <2> QED BY <2>5
<1>3. after = [i \in 0 .. Len(list) |-> Step(after, i)]
  BY <1>2
<1>4. recycle(free, list) = after[Len(list)]
  BY DEF recycle
<1> HIDE DEF after
<1>5. Recycled(after, free, list, Len(list))
  <2>1. \A i \in 0 .. Len(list) : after[i] = Step(after, i)
    BY <1>3
  <2>2. after = [i \in 0 .. Len(list) |-> after[i]]
    <3> HIDE DEF Step
    <3> QED BY <1>3, <2>1
  <2>3. \A i \in 1 .. Len(list) : i # 0 /\ i \in 0 .. Len(list)
    BY <1>1
  <2>4. 0 \in 0 .. Len(list)
    BY <1>1
  <2> QED BY <2>1, <2>2, <2>3, <2>4 DEF Recycled
<1> QED BY <1>4, <1>5

\* What was disposed becomes free, and the free segments stay in one piece.
LEMMA RecycleEffect ==
    ASSUME NEW free, FreeOK(free), NEW list \in Seq(FreeSegment),
           Blocks(Elements(list)) \subseteq 1 .. MaxBlock,
           \A i, j \in DOMAIN list : i # j => BlocksOf(list[i]) \cap BlocksOf(list[j]) = {},
           Blocks(free) \cap Blocks(Elements(list)) = {}
    PROVE  /\ FreeOK(recycle(free, list))
           /\ Blocks(recycle(free, list)) = Blocks(free) \cup Blocks(Elements(list))
           /\ \A t \in recycle(free, list) : t.next # 0 => t \in free
<1> DEFINE n == Len(list)
           Taken(k) == UNION {BlocksOf(list[i]) : i \in 1 .. k}
<1>1. n \in Nat /\ DOMAIN list = 1 .. n /\ \A i \in 1 .. n : list[i] \in FreeSegment
  OBVIOUS
<1>2. PICK f : Recycled(f, free, list, n) /\ recycle(free, list) = f[n]
  BY RecycleIs
<1> DEFINE Done(k) == /\ FreeOK(f[k])
                      /\ Blocks(f[k]) = Blocks(free) \cup Taken(k)
                      /\ \A t \in f[k] : t.next # 0 => t \in free
           Bad == {k \in 0 .. n : ~Done(k)}
<1>3. Bad = {}
  <2> SUFFICES ASSUME Bad # {} PROVE FALSE
    OBVIOUS
  <2>1. PICK k \in Bad : \A y \in Bad : k <= y
    <3>1. Bad \in SUBSET Nat
      OBVIOUS
    <3> HIDE DEF Bad
    <3> QED BY <3>1, LeastNumber
  <2>2. k \in 0 .. n /\ ~Done(k)
    OBVIOUS
  <2>3. k # 0
    <3>1. Taken(0) = {}
      OBVIOUS
    <3>2. f[0] = free
      BY <1>2 DEF Recycled
    <3>3. Done(0)
      BY <3>1, <3>2
    <3> QED BY <2>2, <3>3
  <2>4. k \in 1 .. n /\ k - 1 \in 0 .. n /\ ~(k <= k - 1)
    BY <1>1, <2>2, <2>3
  <2>5. Done(k - 1)
    BY <2>1, <2>4
  <2>6. f[k] = RecycleOne(f[k - 1], list[k])
    BY <1>2, <2>4 DEF Recycled
  <2>7. \A i \in 1 .. n : BlocksOf(list[i]) \subseteq Blocks(Elements(list))
    BY <1>1 DEF Blocks, Elements
  <2>8. BlocksOf(list[k]) \cap Taken(k - 1) = {}
    <3>1. \A i \in 1 .. k - 1 : i \in 1 .. n /\ i # k
      BY <1>1, <2>4
    <3> QED BY <1>1, <2>4, <3>1
  <2>9. BlocksOf(list[k]) \cap Blocks(f[k - 1]) = {}
    <3>1. BlocksOf(list[k]) \cap Blocks(free) = {}
      BY <2>4, <2>7
    <3> HIDE DEF Taken, Bad, n
    <3> QED BY <2>5, <2>8, <3>1
  <2>10. Taken(k) = Taken(k - 1) \cup BlocksOf(list[k])
    <3>1. \A i : i \in 1 .. k <=> i \in 1 .. k - 1 \/ i = k
      BY <2>4
    <3> QED BY <3>1
  <2>11. /\ FreeOK(f[k])
         /\ Blocks(f[k]) = Blocks(f[k - 1]) \cup BlocksOf(list[k])
         /\ \A t \in f[k] : t.next # 0 => t \in f[k - 1]
    <3>1. list[k] \in FreeSegment /\ BlocksOf(list[k]) \subseteq 1 .. MaxBlock
      BY <1>1, <2>4, <2>7
    <3> HIDE DEF Taken, Bad, n
    <3>2. FreeOK(f[k - 1])
      BY <2>5
    <3> QED BY <2>6, <2>9, <3>1, <3>2, RecycleOneEffect
  <2>12. Done(k)
    <3> HIDE DEF Taken, Bad, n
    <3> QED BY <2>5, <2>10, <2>11
  <2> QED BY <2>2, <2>12
<1>4. Done(n)
  BY <1>1, <1>3
<1>5. Taken(n) = Blocks(Elements(list))
  BY <1>1 DEF Blocks, Elements
<1> HIDE DEF Taken, Bad, n
<1> QED BY <1>2, <1>4, <1>5

(***************************************************************************)
(* The list on disk                                                        *)
(***************************************************************************)
\* The segment that follows is the one with the least index above, if there is one.
LEMMA NextIs ==
    ASSUME NEW C \in SUBSET FreeSegment, NEW s
    PROVE  \/ NextOf(C, s) = 0 /\ \A u \in C : ~(s.index < u.index)
           \/ \E t \in C : /\ NextOf(C, s) = t.index /\ s.index < t.index
                           /\ \A u \in C : s.index < u.index => t.index <= u.index
<1> DEFINE over == {t.index : t \in {u \in C : s.index < u.index}}
<1>1. NextOf(C, s) = IF over = {} THEN 0 ELSE CHOOSE i \in over : \A j \in over : i <= j
  BY DEF NextOf
<1>2. CASE over = {}
  BY <1>1, <1>2
<1>3. CASE over # {}
  <2>1. over \in SUBSET Nat
    BY SegmentsArePieces DEF IsPiece
  <2>2. \E i \in over : \A j \in over : i <= j
    <3> HIDE DEF over
    <3> QED BY <1>3, <2>1, LeastNumber
  <2>3. NextOf(C, s) \in over /\ \A j \in over : NextOf(C, s) <= j
    <3> HIDE DEF over
    <3> QED BY <1>1, <1>3, <2>2
  <2>4. PICK t \in C : NextOf(C, s) = t.index /\ s.index < t.index
    BY <2>3
  <2> QED BY <2>3, <2>4
<1> QED BY <1>2, <1>3

\* The masterblock has the first segment of the list.
LEMMA HeaderIs ==
    ASSUME NEW C \in SUBSET FreeSegment
    PROVE  \/ C = {} /\ HeaderIndex(C) = 0
           \/ \E t \in C : HeaderIndex(C) = t.index /\ \A u \in C : t.index <= u.index
<1> DEFINE all == {s.index : s \in C}
<1>1. CASE C = {}
  BY <1>1 DEF HeaderIndex
<1>2. CASE C # {}
  <2>1. all \in SUBSET Nat /\ all # {}
    BY <1>2, SegmentsArePieces DEF IsPiece
  <2>2. \E i \in all : \A j \in all : i <= j
    <3> HIDE DEF all
    <3> QED BY <2>1, LeastNumber
  <2>3. \E i \in all : \A s \in C : i <= s.index
    BY <2>2
  <2>4. HeaderIndex(C) = CHOOSE i \in all : \A s \in C : i <= s.index
    BY <1>2 DEF HeaderIndex
  <2>5. HeaderIndex(C) \in all /\ \A s \in C : HeaderIndex(C) <= s.index
    <3> HIDE DEF all
    <3> QED BY <2>3, <2>4
  <2> QED BY <2>5
<1> QED BY <1>1, <1>2

(* f holds the segments that reading comes to, step by step. *)
Reads(f, written, header, k) ==
    /\ f = [i \in 0 .. k |-> f[i]]
    /\ f[0] = {s \in written : s.index = header}
    /\ \A i \in 1 .. k : f[i] = UNION {{s \in written : s.index = t.next} : t \in f[i - 1]}

\* The list can be followed for any number of steps.
LEMMA ReadsExists ==
    ASSUME NEW written, NEW header, NEW n \in Nat
    PROVE  \E f : Reads(f, written, header, n)
<1> DEFINE Bad == {k \in Nat : ~\E f : Reads(f, written, header, k)}
           Follow(S) == UNION {{s \in written : s.index = t.next} : t \in S}
<1> SUFFICES ASSUME Bad # {} PROVE FALSE
  OBVIOUS
<1>1. PICK k \in Bad : \A y \in Bad : k <= y
  BY LeastNumber
<1>2. k # 0
  <2> DEFINE first == {s \in written : s.index = header}
             g == [i \in 0 .. 0 |-> first]
  <2>1. g = [i \in 0 .. 0 |-> g[i]] /\ g[0] = first /\ 1 .. 0 = {}
    OBVIOUS
  <2> HIDE DEF g
  <2>2. Reads(g, written, header, 0)
    BY <2>1 DEF Reads
  <2> QED BY <2>2
<1>3. k \in Nat /\ k - 1 \in Nat /\ ~(k <= k - 1)
  BY <1>2
<1>4. PICK f : Reads(f, written, header, k - 1)
  BY <1>1, <1>3
<1> DEFINE g == [i \in 0 .. k |-> IF i = k THEN Follow(f[k - 1]) ELSE f[i]]
<1>5. Reads(g, written, header, k)
  <2>1. g = [i \in 0 .. k |-> g[i]] /\ g[0] = f[0]
    BY <1>2, <1>3
  <2>2. ASSUME NEW i \in 1 .. k PROVE g[i] = Follow(g[i - 1])
    <3>1. i - 1 \in 0 .. k /\ i - 1 # k /\ i \in 0 .. k /\ g[i - 1] = f[i - 1]
      BY <1>3
    <3>2. CASE i = k
      <4>1. g[k] = Follow(f[k - 1])
        <5> HIDE DEF Follow
        <5> QED BY <1>3
      <4> QED BY <3>1, <3>2, <4>1
    <3>3. CASE i # k
      <4>1. i \in 1 .. k - 1 /\ g[i] = f[i]
        BY <1>3, <3>3
      <4>2. f[i] = Follow(f[i - 1])
        BY <1>4, <4>1 DEF Reads
      <4> HIDE DEF Follow, g
      <4> QED BY <3>1, <4>1, <4>2
    <3> QED BY <3>2, <3>3
  <2>3. f[0] = {s \in written : s.index = header}
    BY <1>4 DEF Reads
  <2> HIDE DEF g
  <2> QED BY <2>1, <2>2, <2>3 DEF Reads
<1> QED BY <1>5

\* ReadFrom follows the list for as many steps as there are segments on disk.
LEMMA ReadFromIs ==
    ASSUME NEW written, NEW header, Cardinality(written) \in Nat
    PROVE  \E f : /\ Reads(f, written, header, Cardinality(written))
                  /\ ReadFrom(written, header) = UNION {f[k] : k \in 0 .. Cardinality(written)}
<1> DEFINE n == Cardinality(written)
           Follow(S) == UNION {{s \in written : s.index = t.next} : t \in S}
           first == {s \in written : s.index = header}
           Step(g, i) == IF i = 0 THEN first ELSE Follow(g[i - 1])
           after == CHOOSE g : g = [i \in 0 .. n |-> Step(g, i)]
<1>1. \E f : f = [i \in 0 .. n |-> Step(f, i)]
  <2>1. PICK f : Reads(f, written, header, n)
    BY ReadsExists
  <2>2. \A i \in 0 .. n : i # 0 => i \in 1 .. n
    OBVIOUS
  <2>3. \A i \in 1 .. n : f[i] = Follow(f[i - 1])
    BY <2>1 DEF Reads
  <2>4. f[0] = first /\ f = [i \in 0 .. n |-> f[i]]
    BY <2>1 DEF Reads
  <2>5. \A i \in 0 .. n : f[i] = Step(f, i)
    <3> HIDE DEF Follow, first, n
    <3> QED BY <2>2, <2>3, <2>4
  <2>6. f = [i \in 0 .. n |-> Step(f, i)]
    <3> HIDE DEF Step
    <3> QED BY <2>4, <2>5
  <2> QED BY <2>6
<1>2. after = [i \in 0 .. n |-> Step(after, i)]
  BY <1>1
<1>3. ReadFrom(written, header) = UNION {after[k] : k \in DOMAIN after}
  BY DEF ReadFrom
<1> HIDE DEF after
<1>4. DOMAIN after = 0 .. n /\ \A i \in 0 .. n : after[i] = Step(after, i)
  <2> HIDE DEF Step
  <2> QED BY <1>2
<1>5. Reads(after, written, header, n)
  <2>1. after = [i \in 0 .. n |-> after[i]]
    <3> HIDE DEF Step
    <3> QED BY <1>2, <1>4
  <2>2. \A i \in 1 .. n : i # 0 /\ i \in 0 .. n
    OBVIOUS
  <2>3. 0 \in 0 .. n
    OBVIOUS
  <2>4. after[0] = first
    <3> HIDE DEF Follow, first
    <3> QED BY <1>4, <2>3
  <2>5. \A i \in 1 .. n : after[i] = Follow(after[i - 1])
    <3> HIDE DEF Follow, first
    <3> QED BY <1>4, <2>2
  <2> QED BY <2>1, <2>4, <2>5 DEF Reads
<1>6. ReadFrom(written, header) = UNION {after[k] : k \in 0 .. n}
  BY <1>3, <1>4
<1> QED BY <1>5, <1>6

\* Segments that begin at different blocks are finitely many.
LEMMA FinitelyMany ==
    ASSUME NEW S \in SUBSET FreeSegment, \A s, t \in S : s.index = t.index => s = t
    PROVE  IsFiniteSet(S)
<1> DEFINE f == [s \in S |-> s.index]
<1>1. f \in [S -> 1 .. MaxBlock]
  <2>1. \A s \in S : s.index \in 1 .. MaxBlock
    BY DEF FreeSegment
  <2> QED BY <2>1
<1>2. f \in Injection(S, 1 .. MaxBlock)
  BY <1>1 DEF Injection, IsInjective
<1>3. IsFiniteSet(1 .. MaxBlock)
  BY BlockAssumption, FS_Interval
<1> QED BY <1>2, <1>3, FS_Injection

(* Every segment of the chain says which one follows it. *)
IsChain(C) == \A s \in C : s.next = NextOf(C, s)

\* A list of free segments that is on disk is read whole, and nothing else is read.
LEMMA ChainIsRead ==
    ASSUME NEW written, DiskOK(written), NEW C \in SUBSET written, IsChain(C)
    PROVE  ReadFrom(written, HeaderIndex(C)) = C
<1> DEFINE header == HeaderIndex(C)
           n == Cardinality(written)
           Under(s) == {t \in C : t.index < s.index}
<1>1. /\ written \in SUBSET FreeSegment /\ C \in SUBSET FreeSegment
      /\ \A s, t \in written : s.index = t.index => s = t
  BY DEF DiskOK
<1>2. \A s \in written : s.index \in Nat \ {0}
  BY <1>1, SegmentsArePieces DEF IsPiece
<1>3. IsFiniteSet(written) /\ IsFiniteSet(C) /\ n \in Nat /\ Cardinality(C) <= n
  <2>1. IsFiniteSet(written)
    BY <1>1, FinitelyMany
  <2> QED BY <2>1, FS_Subset, FS_CardinalityType
<1>4. PICK f : /\ Reads(f, written, header, n)
               /\ ReadFrom(written, header) = UNION {f[k] : k \in 0 .. n}
  BY <1>3, ReadFromIs
<1>5. /\ f[0] = {s \in written : s.index = header}
      /\ \A i \in 1 .. n : f[i] = UNION {{s \in written : s.index = t.next} : t \in f[i - 1]}
  BY <1>4 DEF Reads
<1>6. \A k \in 0 .. n : f[k] \subseteq C
  <2> DEFINE Bad == {k \in 0 .. n : ~(f[k] \subseteq C)}
  <2> SUFFICES ASSUME Bad # {} PROVE FALSE
    OBVIOUS
  <2>1. PICK k \in Bad : \A y \in Bad : k <= y
    <3>1. Bad \in SUBSET Nat
      OBVIOUS
    <3> HIDE DEF Bad
    <3> QED BY <3>1, LeastNumber
  <2>2. k \in 0 .. n /\ ~(f[k] \subseteq C)
    OBVIOUS
  <2>3. PICK s \in f[k] : s \notin C
    BY <2>2
  <2>4. CASE k = 0
    <3>1. s \in written /\ s.index = header
      BY <1>5, <2>3, <2>4
    <3>2. header # 0
      BY <1>2, <3>1
    <3>3. PICK t \in C : header = t.index
      BY <1>1, <3>2, HeaderIs
    <3> QED BY <1>1, <2>3, <3>1, <3>3
  <2>5. CASE k # 0
    <3>1. k \in 1 .. n /\ k - 1 \in 0 .. n /\ ~(k <= k - 1)
      BY <1>3, <2>2, <2>5
    <3>2. f[k - 1] \subseteq C
      BY <2>1, <3>1
    <3>3. PICK t \in f[k - 1] : s \in written /\ s.index = t.next
      BY <1>5, <2>3, <3>1
    <3>4. t \in C /\ t.next = NextOf(C, t)
      BY <3>2, <3>3 DEF IsChain
    <3>5. NextOf(C, t) # 0
      BY <1>2, <3>3, <3>4
    <3>6. PICK u \in C : NextOf(C, t) = u.index
      BY <1>1, <3>5, NextIs
    <3> QED BY <1>1, <2>3, <3>3, <3>4, <3>6
  <2> QED BY <2>4, <2>5
<1>7. \A s \in C : IsFiniteSet(Under(s)) /\ Cardinality(Under(s)) \in 0 .. n
  <2> SUFFICES ASSUME NEW s \in C
               PROVE  IsFiniteSet(Under(s)) /\ Cardinality(Under(s)) \in 0 .. n
    OBVIOUS
  <2>1. Under(s) \in SUBSET C
    OBVIOUS
  <2> HIDE DEF Under
  <2>2. /\ IsFiniteSet(Under(s)) /\ Cardinality(Under(s)) \in Nat
        /\ Cardinality(Under(s)) <= Cardinality(C) /\ Cardinality(C) \in Nat
    BY <1>3, <2>1, FS_Subset, FS_CardinalityType
  <2> QED BY <1>3, <2>2
<1>8. \A s \in C : s \in f[Cardinality(Under(s))]
  <2> DEFINE Missed == {s \in C : s \notin f[Cardinality(Under(s))]}
             Bad == {s.index : s \in Missed}
  <2> SUFFICES ASSUME Missed # {} PROVE FALSE
    OBVIOUS
  <2>1. PICK i \in Bad : \A y \in Bad : i <= y
    <3>1. Bad \in SUBSET Nat /\ Bad # {}
      BY <1>2
    <3> HIDE DEF Bad
    <3> QED BY <3>1, LeastNumber
  <2>2. PICK s \in Missed : i = s.index
    OBVIOUS
  <2>3. s \in C /\ s \notin f[Cardinality(Under(s))] /\ s.index \in Nat \ {0}
    BY <1>2
  <2>4. ASSUME NEW t \in C, t.index < s.index PROVE t \in f[Cardinality(Under(t))]
    <3>1. t.index \in Nat /\ ~(s.index <= t.index)
      BY <1>2, <2>3, <2>4
    <3> QED BY <2>1, <2>2, <3>1
  <2> HIDE DEF Missed, Bad
  <2>5. CASE Under(s) = {}
    <3>1. header = s.index
      <4>1. PICK t \in C : header = t.index /\ t.index <= s.index
        BY <1>1, <2>3, HeaderIs
      <4>2. ~(t.index < s.index) /\ t.index \in Nat /\ s.index \in Nat
        BY <1>2, <2>3, <2>5
      <4> QED BY <4>1, <4>2
    <3>2. s \in f[0]
      BY <1>5, <2>3, <3>1
    <3>3. Cardinality(Under(s)) = 0
      BY <2>5, FS_EmptySet
    <3> QED BY <2>3, <3>2, <3>3
  <2>6. CASE Under(s) # {}
    <3> DEFINE Far == {s.index - t.index : t \in Under(s)}
    <3>1. Far \in SUBSET Nat /\ Far # {}
      BY <1>2, <2>3, <2>6
    <3>2. PICK d \in Far : \A y \in Far : d <= y
      <4> HIDE DEF Far
      <4> QED BY <3>1, LeastNumber
    <3>3. PICK p \in Under(s) : d = s.index - p.index
      BY <3>2
    <3>4. p \in C /\ p.index < s.index /\ p.index \in Nat \ {0}
      BY <1>2
    <3>5. ASSUME NEW t \in Under(s) PROVE t.index <= p.index
      <4>1. s.index - p.index <= s.index - t.index
        BY <3>2, <3>3
      <4>2. t.index \in Nat
        BY <1>2
      <4> QED BY <2>3, <3>4, <4>1, <4>2
    <3>6. Under(s) = Under(p) \cup {p} /\ p \notin Under(p)
      <4>1. ASSUME NEW t \in Under(s) PROVE t \in Under(p) \/ t = p
        <5>1. t.index \in Nat /\ t \in C
          BY <1>2
        <5>2. t.index < p.index \/ t.index = p.index
          BY <3>4, <3>5, <5>1
        <5> QED BY <1>1, <3>4, <5>1, <5>2
      <4>2. ASSUME NEW t \in Under(p) PROVE t \in Under(s)
        BY <1>2, <2>3, <3>4
      <4> QED BY <3>4, <4>1, <4>2
    <3>7. p \in f[Cardinality(Under(p))]
      BY <2>4, <3>4
    <3>8. Cardinality(Under(s)) = Cardinality(Under(p)) + 1
      <4>1. IsFiniteSet(Under(p))
        BY <1>7, <3>4
      <4> HIDE DEF Under
      <4> QED BY <3>6, <4>1, FS_AddElement
    <3>9. p.next = s.index
      <4>1. p.next = NextOf(C, p)
        BY <3>4 DEF IsChain
      <4>2. PICK t \in C : /\ NextOf(C, p) = t.index /\ p.index < t.index
                           /\ \A u \in C : p.index < u.index => t.index <= u.index
        BY <1>1, <2>3, <3>4, NextIs
      <4>3. t.index <= s.index /\ t.index \in Nat
        BY <1>2, <2>3, <3>4, <4>2
      <4>4. ~(t.index < s.index)
        <5>1. ASSUME t.index < s.index PROVE FALSE
          <6>1. t.index <= p.index
            BY <3>5, <5>1
          <6> QED BY <3>4, <4>2, <4>3, <6>1
        <5> QED BY <5>1
      <4> QED BY <2>3, <4>1, <4>2, <4>3, <4>4
    <3>10. Cardinality(Under(s)) \in 1 .. n /\ Cardinality(Under(s)) - 1 = Cardinality(Under(p))
      <4>1. Cardinality(Under(s)) \in 0 .. n /\ Cardinality(Under(p)) \in 0 .. n
        BY <1>7, <2>3, <3>4
      <4> HIDE DEF Under
      <4> QED BY <1>3, <3>8, <4>1
    <3>11. s \in f[Cardinality(Under(s))]
      <4> DEFINE k == Cardinality(Under(s))
      <4>1. f[k] = UNION {{u \in written : u.index = t.next} : t \in f[k - 1]}
        BY <1>5, <3>10
      <4>2. p \in f[k - 1] /\ s \in written
        BY <2>3, <3>7, <3>10
      <4> HIDE DEF k, Under
      <4>3. s \in f[k]
        BY <3>9, <4>1, <4>2
      <4> QED BY <4>3 DEF k
    <3> QED BY <2>3, <3>11
  <2> QED BY <2>5, <2>6
<1>9. C \subseteq UNION {f[k] : k \in 0 .. n}
  <2> HIDE DEF Under
  <2> QED BY <1>7, <1>8
<1> QED BY <1>4, <1>6, <1>9

(***************************************************************************)
(* The parts of the file                                                   *)
(***************************************************************************)
\* The blocks of the statistics.
LEMMA StatisticBlocksAre ==
    ASSUME NEW stats
    PROVE  \A b : b \in StatisticBlocks(stats) <=>
                      \E x \in Statistic : stats[x] # None /\ b \in BlocksOf(stats[x])
BY DEF StatisticBlocks, Blocks

\* The parts of a whole file are in the file.
LEMMA WholeInFile ==
    ASSUME NEW r, NEW docs, NEW saved, NEW stats, NEW missing,
           Whole(r, docs, saved, stats, missing)
    PROVE  /\ InFile(r)
           /\ 1 .. r.last_block_index - 1 \subseteq 1 .. MaxBlock
           /\ Blocks(docs) \cup Blocks(saved) \cup StatisticBlocks(stats) \cup missing
                \cup RecyclerBlocks(r) \subseteq 1 .. MaxBlock
<1>1. r.last_block_index \in Nat /\ r.last_block_index <= MaxBlock + 1
  BY RecyclerParts DEF Whole
<1>2. 1 .. r.last_block_index - 1 \subseteq 1 .. MaxBlock
  BY <1>1, BlockAssumption
<1> QED BY <1>2 DEF Whole, PartsOf, InFile

\* The blocks of a claimed segment were those of the recycler, or are new.
LEMMA ClaimedParts ==
    ASSUME NEW r, NEW docs, NEW saved, NEW stats, NEW missing,
           Whole(r, docs, saved, stats, missing), NEW q, NEW x, Claimed(r, q, x)
    PROVE  /\ BlocksOf(x) \cap (Blocks(docs) \cup Blocks(saved) \cup StatisticBlocks(stats)
                                    \cup missing \cup RecyclerBlocks(q)) = {}
           /\ RecyclerBlocks(q) \cap (Blocks(docs) \cup Blocks(saved) \cup StatisticBlocks(stats)
                                    \cup missing) = {}
           /\ Blocks(docs) \cup Blocks(saved) \cup StatisticBlocks(stats) \cup missing
                  \cup BlocksOf(x) \cup RecyclerBlocks(q) = 1 .. q.last_block_index - 1
<1> DEFINE old == 1 .. r.last_block_index - 1
           new == r.last_block_index .. q.last_block_index - 1
           all == 1 .. q.last_block_index - 1
<1>1. old \cup new = all /\ old \cap new = {}
  <2>1. /\ r.last_block_index \in Nat \ {0} /\ q.last_block_index \in Nat \ {0}
        /\ r.last_block_index <= q.last_block_index
    BY RecyclerParts DEF Claimed, Whole
  <2> QED BY <2>1
<1>2. /\ RecyclerBlocks(q) \cup BlocksOf(x) = RecyclerBlocks(r) \cup new
      /\ BlocksOf(x) \cap RecyclerBlocks(q) = {}
  BY DEF Claimed
<1>3. PartsOf(Blocks(docs), Blocks(saved), StatisticBlocks(stats), missing,
              RecyclerBlocks(r), old)
  BY DEF Whole
<1> HIDE DEF old, new, all
<1> QED BY <1>1, <1>2, <1>3 DEF PartsOf, all

\* A document is saved where the recycler says.
LEMMA ClaimForDocument ==
    ASSUME NEW r, NEW docs, NEW saved, NEW stats, NEW missing,
           Whole(r, docs, saved, stats, missing), NEW q, NEW x, Claimed(r, q, x)
    PROVE  Whole(q, docs, saved \cup {x}, stats, missing)
<1>1. /\ RecyclerOK(r)
      /\ docs \subseteq Segment /\ Apart(docs) /\ saved \subseteq Segment /\ Apart(saved)
      /\ PartsOf(Blocks(docs), Blocks(saved), StatisticBlocks(stats), missing,
                 RecyclerBlocks(r), 1 .. r.last_block_index - 1)
  BY DEF Whole
<1>2. RecyclerOK(q) /\ x \in Segment
  BY DEF Claimed
<1>3. /\ BlocksOf(x) \cap (Blocks(docs) \cup Blocks(saved) \cup StatisticBlocks(stats)
                               \cup missing \cup RecyclerBlocks(q)) = {}
      /\ RecyclerBlocks(q) \cap (Blocks(docs) \cup Blocks(saved) \cup StatisticBlocks(stats)
                               \cup missing) = {}
      /\ Blocks(docs) \cup Blocks(saved) \cup StatisticBlocks(stats) \cup missing
             \cup BlocksOf(x) \cup RecyclerBlocks(q) = 1 .. q.last_block_index - 1
  BY ClaimedParts
<1>4. Blocks(saved \cup {x}) = Blocks(saved) \cup BlocksOf(x)
  BY DEF Blocks
<1>5. Apart(saved \cup {x})
  BY <1>1, <1>3, ApartWith
<1>6. PartsOf(Blocks(docs), Blocks(saved \cup {x}), StatisticBlocks(stats), missing,
              RecyclerBlocks(q), 1 .. q.last_block_index - 1)
  <2> DEFINE all == 1 .. q.last_block_index - 1
  <2>1. /\ PartsOf(Blocks(docs), Blocks(saved), StatisticBlocks(stats), missing,
                   RecyclerBlocks(r), 1 .. r.last_block_index - 1)
        /\ Blocks(docs) \cup Blocks(saved) \cup StatisticBlocks(stats) \cup missing
             \cup BlocksOf(x) \cup RecyclerBlocks(q) = all
    BY <1>1, <1>3
  <2> HIDE DEF all
  <2>2. PartsOf(Blocks(docs), Blocks(saved \cup {x}), StatisticBlocks(stats), missing,
                RecyclerBlocks(q), all)
    BY <1>3, <1>4, <2>1 DEF PartsOf
  <2> QED BY <2>2 DEF all
<1>7. saved \cup {x} \subseteq Segment
  BY <1>1, <1>2
<1>8. /\ stats \in [Statistic -> Segment \cup {None}]
      /\ \A y, z \in Statistic :
            y # z /\ stats[y] # None /\ stats[z] # None =>
                BlocksOf(stats[y]) \cap BlocksOf(stats[z]) = {}
  BY DEF Whole
<1> QED BY <1>1, <1>2, <1>5, <1>6, <1>7, <1>8 DEF Whole

\* A statistic is saved where the recycler says.
LEMMA ClaimForStatistic ==
    ASSUME NEW r, NEW docs, NEW saved, NEW stats, NEW missing,
           Whole(r, docs, saved, stats, missing), NEW q, NEW x, Claimed(r, q, x),
           NEW y \in Statistic, stats[y] = None
    PROVE  Whole(q, docs, saved, [stats EXCEPT ![y] = x], missing)
<1> DEFINE after == [stats EXCEPT ![y] = x]
<1>1. /\ RecyclerOK(r)
      /\ docs \subseteq Segment /\ Apart(docs) /\ saved \subseteq Segment /\ Apart(saved)
      /\ PartsOf(Blocks(docs), Blocks(saved), StatisticBlocks(stats), missing,
                 RecyclerBlocks(r), 1 .. r.last_block_index - 1)
      /\ stats \in [Statistic -> Segment \cup {None}]
      /\ \A v, z \in Statistic :
            v # z /\ stats[v] # None /\ stats[z] # None =>
                BlocksOf(stats[v]) \cap BlocksOf(stats[z]) = {}
  BY DEF Whole
<1>2. RecyclerOK(q) /\ x \in Segment /\ x # None
  BY NoneAssumption DEF Claimed
<1>3. /\ BlocksOf(x) \cap (Blocks(docs) \cup Blocks(saved) \cup StatisticBlocks(stats)
                               \cup missing \cup RecyclerBlocks(q)) = {}
      /\ RecyclerBlocks(q) \cap (Blocks(docs) \cup Blocks(saved) \cup StatisticBlocks(stats)
                               \cup missing) = {}
      /\ Blocks(docs) \cup Blocks(saved) \cup StatisticBlocks(stats) \cup missing
             \cup BlocksOf(x) \cup RecyclerBlocks(q) = 1 .. q.last_block_index - 1
  BY ClaimedParts
<1>4. /\ after \in [Statistic -> Segment \cup {None}]
      /\ after[y] = x /\ \A z \in Statistic \ {y} : after[z] = stats[z]
  BY <1>1, <1>2
<1> HIDE DEF after
<1>5. StatisticBlocks(after) = StatisticBlocks(stats) \cup BlocksOf(x)
  <2>1. ASSUME NEW b
        PROVE  b \in StatisticBlocks(after) <=> b \in StatisticBlocks(stats) \/ b \in BlocksOf(x)
    <3>1. b \in StatisticBlocks(after) <=>
             \E z \in Statistic : after[z] # None /\ b \in BlocksOf(after[z])
      BY StatisticBlocksAre
    <3>2. b \in StatisticBlocks(stats) <=>
             \E z \in Statistic : stats[z] # None /\ b \in BlocksOf(stats[z])
      BY StatisticBlocksAre
    <3> QED BY <1>2, <1>4, <3>1, <3>2
  <2> QED BY <2>1
<1>6. \A z \in Statistic : stats[z] # None => BlocksOf(stats[z]) \subseteq StatisticBlocks(stats)
  BY StatisticBlocksAre
<1>7. ASSUME NEW v \in Statistic, NEW z \in Statistic, v # z, after[v] # None, after[z] # None
      PROVE  BlocksOf(after[v]) \cap BlocksOf(after[z]) = {}
  <2>1. CASE v = y
    BY <1>3, <1>4, <1>6, <1>7, <2>1
  <2>2. CASE z = y
    BY <1>3, <1>4, <1>6, <1>7, <2>2
  <2>3. CASE v # y /\ z # y
    BY <1>1, <1>4, <1>7, <2>3
  <2> QED BY <2>1, <2>2, <2>3
<1>8. PartsOf(Blocks(docs), Blocks(saved), StatisticBlocks(after), missing,
              RecyclerBlocks(q), 1 .. q.last_block_index - 1)
  <2> DEFINE all == 1 .. q.last_block_index - 1
  <2>1. /\ PartsOf(Blocks(docs), Blocks(saved), StatisticBlocks(stats), missing,
                   RecyclerBlocks(r), 1 .. r.last_block_index - 1)
        /\ Blocks(docs) \cup Blocks(saved) \cup StatisticBlocks(stats) \cup missing
             \cup BlocksOf(x) \cup RecyclerBlocks(q) = all
    BY <1>1, <1>3
  <2> HIDE DEF all
  <2>2. PartsOf(Blocks(docs), Blocks(saved), StatisticBlocks(after), missing,
                RecyclerBlocks(q), all)
    BY <1>3, <1>5, <2>1 DEF PartsOf
  <2> QED BY <2>2 DEF all
<1>9. Whole(q, docs, saved, after, missing)
  BY <1>1, <1>2, <1>4, <1>7, <1>8 DEF Whole
<1> QED BY <1>9 DEF after

\* A stored document is disposed.
LEMMA DisposeDocument ==
    ASSUME NEW r, NEW docs, NEW saved, NEW stats, NEW missing,
           Whole(r, docs, saved, stats, missing), NEW s \in docs
    PROVE  /\ Whole(dispose(r, s), docs \ {s}, saved, stats, missing)
           /\ DisposedBlocks(dispose(r, s)) = DisposedBlocks(r) \cup BlocksOf(s)
<1> DEFINE q == dispose(r, s)
<1>1. /\ RecyclerOK(r)
      /\ docs \subseteq Segment /\ Apart(docs) /\ saved \subseteq Segment /\ Apart(saved)
      /\ PartsOf(Blocks(docs), Blocks(saved), StatisticBlocks(stats), missing,
                 RecyclerBlocks(r), 1 .. r.last_block_index - 1)
      /\ stats \in [Statistic -> Segment \cup {None}]
      /\ \A v, z \in Statistic :
            v # z /\ stats[v] # None /\ stats[z] # None =>
                BlocksOf(stats[v]) \cap BlocksOf(stats[z]) = {}
  BY DEF Whole
<1>2. /\ Blocks(docs \ {s}) \cup BlocksOf(s) = Blocks(docs)
      /\ Blocks(docs \ {s}) \cap BlocksOf(s) = {}
      /\ Apart(docs \ {s})
  BY <1>1, BlocksWithout
<1>3. BlocksOf(s) \subseteq 1 .. MaxBlock
  BY <1>2, WholeInFile
<1>4. BlocksOf(s) \cap RecyclerBlocks(r) = {}
  BY <1>1, <1>2 DEF PartsOf
<1>5. /\ RecyclerOK(q)
      /\ RecyclerBlocks(q) = RecyclerBlocks(r) \cup BlocksOf(s)
      /\ DisposedBlocks(q) = DisposedBlocks(r) \cup BlocksOf(s)
      /\ q.last_block_index = r.last_block_index
  <2>1. s \in Segment
    BY <1>1
  <2> QED BY <1>1, <1>3, <1>4, <2>1, DisposeEffect
<1> HIDE DEF q
<1>6. PartsOf(Blocks(docs \ {s}), Blocks(saved), StatisticBlocks(stats), missing,
              RecyclerBlocks(q), 1 .. q.last_block_index - 1)
  <2> DEFINE all == 1 .. r.last_block_index - 1
  <2>1. /\ PartsOf(Blocks(docs), Blocks(saved), StatisticBlocks(stats), missing,
                   RecyclerBlocks(r), all)
        /\ 1 .. q.last_block_index - 1 = all
    BY <1>1, <1>5
  <2> HIDE DEF all
  <2> QED BY <1>2, <1>5, <2>1 DEF PartsOf
<1>7. docs \ {s} \subseteq Segment
  BY <1>1
<1>8. Whole(q, docs \ {s}, saved, stats, missing)
  BY <1>1, <1>2, <1>5, <1>6, <1>7 DEF Whole
<1> QED BY <1>5, <1>8 DEF q

\* The old segment of a statistic is disposed.
LEMMA DisposeStatistic ==
    ASSUME NEW r, NEW docs, NEW saved, NEW stats, NEW missing,
           Whole(r, docs, saved, stats, missing), NEW y \in Statistic, stats[y] # None
    PROVE  /\ Whole(dispose(r, stats[y]), docs, saved, [stats EXCEPT ![y] = None], missing)
           /\ dispose(r, stats[y]).indices = r.indices
<1> DEFINE s == stats[y]
           q == dispose(r, s)
           after == [stats EXCEPT ![y] = None]
<1>1. /\ RecyclerOK(r)
      /\ docs \subseteq Segment /\ Apart(docs) /\ saved \subseteq Segment /\ Apart(saved)
      /\ PartsOf(Blocks(docs), Blocks(saved), StatisticBlocks(stats), missing,
                 RecyclerBlocks(r), 1 .. r.last_block_index - 1)
      /\ stats \in [Statistic -> Segment \cup {None}]
      /\ \A v, z \in Statistic :
            v # z /\ stats[v] # None /\ stats[z] # None =>
                BlocksOf(stats[v]) \cap BlocksOf(stats[z]) = {}
  BY DEF Whole
<1>2. /\ after \in [Statistic -> Segment \cup {None}]
      /\ after[y] = None /\ \A z \in Statistic \ {y} : after[z] = stats[z]
  BY <1>1
<1> HIDE DEF after
<1>3. /\ StatisticBlocks(after) \cup BlocksOf(s) = StatisticBlocks(stats)
      /\ StatisticBlocks(after) \cap BlocksOf(s) = {}
  <2>1. ASSUME NEW b
        PROVE  /\ b \in StatisticBlocks(stats) <=> b \in StatisticBlocks(after) \/ b \in BlocksOf(s)
               /\ ~(b \in StatisticBlocks(after) /\ b \in BlocksOf(s))
    <3>1. b \in StatisticBlocks(after) <=>
             \E z \in Statistic : after[z] # None /\ b \in BlocksOf(after[z])
      BY StatisticBlocksAre
    <3>2. b \in StatisticBlocks(stats) <=>
             \E z \in Statistic : stats[z] # None /\ b \in BlocksOf(stats[z])
      BY StatisticBlocksAre
    <3>3. \A z \in Statistic \ {y} : stats[z] # None => b \notin BlocksOf(stats[z]) \cap BlocksOf(s)
      BY <1>1
    <3> QED BY <1>2, <3>1, <3>2, <3>3
  <2> QED BY <2>1
<1>4. BlocksOf(s) \subseteq 1 .. MaxBlock
  BY <1>3, WholeInFile
<1>5. BlocksOf(s) \cap RecyclerBlocks(r) = {}
  BY <1>1, <1>3 DEF PartsOf
<1>6. /\ RecyclerOK(q)
      /\ RecyclerBlocks(q) = RecyclerBlocks(r) \cup BlocksOf(s)
      /\ q.indices = r.indices
      /\ q.last_block_index = r.last_block_index
  <2>1. s \in Segment
    BY <1>1
  <2> QED BY <1>1, <1>4, <1>5, <2>1, DisposeEffect
<1> HIDE DEF q, s
<1>7. PartsOf(Blocks(docs), Blocks(saved), StatisticBlocks(after), missing,
              RecyclerBlocks(q), 1 .. q.last_block_index - 1)
  <2> DEFINE all == 1 .. r.last_block_index - 1
  <2>1. /\ PartsOf(Blocks(docs), Blocks(saved), StatisticBlocks(stats), missing,
                   RecyclerBlocks(r), all)
        /\ 1 .. q.last_block_index - 1 = all
    BY <1>1, <1>6
  <2> HIDE DEF all
  <2> QED BY <1>3, <1>6, <2>1 DEF PartsOf
<1>8. \A v, z \in Statistic :
          v # z /\ after[v] # None /\ after[z] # None =>
              BlocksOf(after[v]) \cap BlocksOf(after[z]) = {}
  BY <1>1, <1>2
<1>9. Whole(q, docs, saved, after, missing)
  BY <1>1, <1>2, <1>6, <1>7, <1>8 DEF Whole
<1> QED BY <1>6, <1>9 DEF q, s, after

\* A statistic is written anew.
LEMMA RewriteEffect ==
    ASSUME NEW r, NEW docs, NEW saved, NEW stats, NEW missing,
           Whole(r, docs, saved, stats, missing), NEW y \in Statistic,
           NEW e \in Rewrites(r, y, stats)
    PROVE  /\ Whole(e.recycler, docs, saved, e.statistics, missing)
           /\ NamedOnDisk(e.recycler, r.indices)
           /\ e.statistics[y] # None
           /\ \A z \in Statistic \ {y} : e.statistics[z] = stats[z]
<1> DEFINE p == IF stats[y] = None THEN r ELSE dispose(r, stats[y])
           cleared == [stats EXCEPT ![y] = None]
<1>1. stats \in [Statistic -> Segment \cup {None}]
  BY DEF Whole
<1>2. Whole(p, docs, saved, cleared, missing) /\ p.indices = r.indices
  <2>1. CASE stats[y] = None
    <3>1. cleared = stats
      BY <1>1, <2>1
    <3> QED BY <2>1, <3>1
  <2>2. CASE stats[y] # None
    BY <2>2, DisposeStatistic
  <2> QED BY <2>1, <2>2
<1>3. PICK size \in Size : \E c \in Claims(p, size) :
          e = [recycler |-> c.recycler,
               statistics |-> [stats EXCEPT ![y] = [index |-> c.index, size |-> size]]]
  BY DEF Rewrites
<1> HIDE DEF p
<1>4. PICK c \in Claims(p, size) :
          e = [recycler |-> c.recycler,
               statistics |-> [stats EXCEPT ![y] = [index |-> c.index, size |-> size]]]
  BY <1>3
<1> DEFINE x == [index |-> c.index, size |-> size]
<1>5. RecyclerOK(p) /\ InFile(p)
  BY <1>2, WholeInFile DEF Whole
<1>6. Claimed(p, c.recycler, x)
  BY <1>5, ClaimEffect
<1>7. e.recycler = c.recycler /\ e.statistics = [stats EXCEPT ![y] = x]
  BY <1>4
<1>8. cleared[y] = None /\ [cleared EXCEPT ![y] = x] = [stats EXCEPT ![y] = x]
  <2> HIDE DEF x
  <2> QED BY <1>1
<1> HIDE DEF x, cleared
<1>9. Whole(c.recycler, docs, saved, [cleared EXCEPT ![y] = x], missing)
  BY <1>2, <1>6, <1>8, ClaimForStatistic
<1>10. NamedOnDisk(c.recycler, r.indices)
  BY <1>2, <1>6 DEF Claimed
<1>11. x \in Segment /\ x # None
  BY <1>6, NoneAssumption DEF Claimed
<1>12. e.statistics[y] = x /\ \A z \in Statistic \ {y} : e.statistics[z] = stats[z]
  BY <1>1, <1>7
<1> QED BY <1>7, <1>8, <1>9, <1>10, <1>11, <1>12

(***************************************************************************)
(* Store                                                                   *)
(***************************************************************************)
\* write only changes what the free segments say of the next one.
LEMMA ChainedEffect ==
    ASSUME NEW free, FreeOK(free)
    PROVE  /\ FreeOK(Chained(free)) /\ Blocks(Chained(free)) = Blocks(free)
           /\ IsChain(Chained(free))
           /\ HeaderIndex(Chained(free)) = HeaderIndex(free)
           /\ \A s \in Chained(free) : \E t \in free :
                 /\ s.index = t.index /\ BlocksOf(s) = BlocksOf(t)
                 /\ t \notin Outdated(free) => s = t /\ s.next # 0
<1> DEFINE C == Chained(free)
           with(t) == [t EXCEPT !.next = NextOf(free, t)]
<1>1. /\ free \subseteq FreeSegment /\ Apart(free)
      /\ \A s, t \in free : EndOf(s) # t.index
      /\ Blocks(free) \subseteq 1 .. MaxBlock
  BY DEF FreeOK
<1>2. ASSUME NEW t \in free
      PROVE  /\ with(t) \in FreeSegment /\ with(t).index = t.index
             /\ with(t).next = NextOf(free, t)
             /\ EndOf(with(t)) = EndOf(t) /\ BlocksOf(with(t)) = BlocksOf(t)
             /\ t \notin Outdated(free) => with(t) = t /\ with(t).next # 0
  <2>1. NextOf(free, t) \in 0 .. MaxBlock
    <3>1. NextOf(free, t) = 0 \/ \E u \in free : NextOf(free, t) = u.index
      BY <1>1, NextIs
    <3>2. \A u \in free : u.index \in 1 .. MaxBlock
      BY <1>1 DEF FreeSegment
    <3> QED BY <3>1, <3>2, BlockAssumption
  <2>2. /\ t = [index |-> t.index, size |-> t.size, next |-> t.next]
        /\ t.index \in 1 .. MaxBlock /\ t.size \in 1 .. MaxBlock
    BY <1>1 DEF FreeSegment
  <2>3. with(t) = [index |-> t.index, size |-> t.size, next |-> NextOf(free, t)]
    BY <2>2
  <2>4. /\ with(t).index = t.index /\ with(t).size = t.size
        /\ with(t).next = NextOf(free, t)
    BY <2>3
  <2>5. with(t) \in FreeSegment
    BY <2>1, <2>2, <2>3 DEF FreeSegment
  <2>6. EndOf(with(t)) = EndOf(t) /\ BlocksOf(with(t)) = BlocksOf(t)
    BY <2>4 DEF EndOf, BlocksOf
  <2>7. t \notin Outdated(free) => with(t) = t /\ with(t).next # 0
    <3>1. t \notin Outdated(free) => t.next = NextOf(free, t) /\ NextOf(free, t) # 0
      BY DEF Outdated
    <3> HIDE DEF with
    <3> QED BY <2>2, <2>3, <2>4, <3>1
  <2> QED BY <2>4, <2>5, <2>6, <2>7
<1>3. C = {with(t) : t \in free}
  BY DEF Chained
<1> HIDE DEF C, with
<1>4. ASSUME NEW s \in C
      PROVE  \E t \in free : s = with(t) /\ s.index = t.index
  BY <1>2, <1>3
<1>5. \A t \in free : with(t) \in C
  BY <1>3
<1>6. Blocks(C) = Blocks(free)
  BY <1>2, <1>4, <1>5 DEF Blocks
<1>7. FreeOK(C)
  <2>1. C \subseteq FreeSegment
    BY <1>2, <1>4
  <2>2. ASSUME NEW s \in C, NEW u \in C
        PROVE  EndOf(s) # u.index /\ (s # u => BlocksOf(s) \cap BlocksOf(u) = {})
    <3>1. PICK t \in free : s = with(t)
      BY <1>4
    <3>2. PICK v \in free : u = with(v)
      BY <1>4
    <3> QED BY <1>1, <1>2, <3>1, <3>2 DEF Apart
  <2> QED BY <1>1, <1>6, <2>1, <2>2 DEF FreeOK, Apart
<1>8. IsChain(C)
  <2> SUFFICES ASSUME NEW s \in C PROVE s.next = NextOf(C, s)
    BY DEF IsChain
  <2>1. PICK t \in free : s = with(t)
    BY <1>4
  <2>2. s.index = t.index /\ s.next = NextOf(free, t)
    BY <1>2, <2>1
  <2> DEFINE over == {v.index : v \in {u \in C : s.index < u.index}}
             above == {v.index : v \in {u \in free : t.index < u.index}}
  <2>3. over = above
    <3>1. ASSUME NEW u \in C, s.index < u.index
          PROVE  \E v \in free : t.index < v.index /\ u.index = v.index
      BY <1>4, <2>2, <3>1
    <3>2. ASSUME NEW v \in free, t.index < v.index
          PROVE  \E u \in C : s.index < u.index /\ u.index = v.index
      BY <1>2, <1>5, <2>2, <3>2
    <3> QED BY <3>1, <3>2
  <2>4. NextOf(C, s) = NextOf(free, t)
    <3>1. NextOf(C, s) = IF over = {} THEN 0 ELSE CHOOSE i \in over : \A j \in over : i <= j
      BY DEF NextOf
    <3>2. NextOf(free, t) = IF above = {} THEN 0 ELSE CHOOSE i \in above : \A j \in above : i <= j
      BY DEF NextOf
    <3> HIDE DEF over, above
    <3> QED BY <2>3, <3>1, <3>2
  <2> QED BY <2>2, <2>4
<1>9. HeaderIndex(C) = HeaderIndex(free)
  <2>1. \A s \in free : s.index \in Nat
    BY <1>1, SegmentsArePieces DEF IsPiece
  <2>2. CASE free = {}
    BY <1>3, <2>2 DEF HeaderIndex
  <2>3. CASE free # {}
    <3>1. C # {}
      BY <1>5, <2>3
    <3>2. PICK s \in free : HeaderIndex(free) = s.index /\ \A u \in free : s.index <= u.index
      BY <1>1, <2>3, HeaderIs
    <3>3. PICK t \in C : HeaderIndex(C) = t.index /\ \A u \in C : t.index <= u.index
      BY <1>7, <3>1, HeaderIs DEF FreeOK
    <3>4. PICK v \in free : t.index = v.index
      BY <1>4
    <3>5. with(s) \in C /\ with(s).index = s.index
      BY <1>2, <1>5
    <3>6. s.index <= v.index /\ v.index <= s.index /\ s.index \in Nat /\ v.index \in Nat
      BY <2>1, <3>2, <3>3, <3>4, <3>5
    <3> QED BY <3>2, <3>3, <3>4, <3>6
  <2> QED BY <2>2, <2>3
<1>10. ASSUME NEW s \in C
       PROVE  \E t \in free : /\ s.index = t.index /\ BlocksOf(s) = BlocksOf(t)
                              /\ t \notin Outdated(free) => s = t /\ s.next # 0
  BY <1>2, <1>4
<1> QED BY <1>6, <1>7, <1>8, <1>9, <1>10 DEF C

(* What is free at the end of a transaction, and the recycler that write leaves. *)
FreeAfter(r) == recycle(r.indices, r.to_be_recycled)

Written(r) == [r EXCEPT !.indices = Chained(FreeAfter(r)), !.to_be_recycled = <<>>]

\* What was disposed becomes free.
LEMMA RecycleWhole ==
    ASSUME NEW r, NEW docs, NEW saved, NEW stats, NEW missing,
           Whole(r, docs, saved, stats, missing)
    PROVE  /\ Whole(Written(r), docs, saved, stats, missing)
           /\ FreeOK(FreeAfter(r))
           /\ \A t \in FreeAfter(r) : t.next # 0 => t \in r.indices
           /\ Written(r) = [indices |-> Chained(FreeAfter(r)), to_be_recycled |-> <<>>,
                            last_block_index |-> r.last_block_index]
           /\ RecyclerBlocks(Written(r)) = Blocks(FreeAfter(r))
<1> DEFINE free == FreeAfter(r)
           q == Written(r)
<1>1. /\ RecyclerOK(r)
      /\ PartsOf(Blocks(docs), Blocks(saved), StatisticBlocks(stats), missing,
                 RecyclerBlocks(r), 1 .. r.last_block_index - 1)
  BY DEF Whole
<1>2. /\ r.indices \in SUBSET FreeSegment /\ r.to_be_recycled \in Seq(FreeSegment)
      /\ r.last_block_index \in 1 .. MaxBlock + 1
      /\ r = [indices |-> r.indices, to_be_recycled |-> r.to_be_recycled,
              last_block_index |-> r.last_block_index]
  BY <1>1 DEF RecyclerOK, Recyclers
<1>3. RecyclerBlocks(r) \subseteq 1 .. MaxBlock
  BY WholeInFile
<1>4. FreeOK(r.indices)
  BY <1>1, <1>2, <1>3 DEF FreeOK, RecyclerOK, RecyclerBlocks
<1>5. /\ FreeOK(free)
      /\ Blocks(free) = RecyclerBlocks(r)
      /\ \A t \in free : t.next # 0 => t \in r.indices
  <2>1. /\ Blocks(Elements(r.to_be_recycled)) \subseteq 1 .. MaxBlock
        /\ \A i, j \in DOMAIN r.to_be_recycled :
              i # j => BlocksOf(r.to_be_recycled[i]) \cap BlocksOf(r.to_be_recycled[j]) = {}
        /\ Blocks(r.indices) \cap Blocks(Elements(r.to_be_recycled)) = {}
    BY <1>1, <1>3 DEF RecyclerOK, RecyclerBlocks, DisposedBlocks
  <2>2. /\ FreeOK(free)
        /\ Blocks(free) = Blocks(r.indices) \cup Blocks(Elements(r.to_be_recycled))
        /\ \A t \in free : t.next # 0 => t \in r.indices
    BY <1>2, <1>4, <2>1, RecycleEffect DEF FreeAfter
  <2> QED BY <2>2 DEF RecyclerBlocks, DisposedBlocks
<1>6. FreeOK(Chained(free)) /\ Blocks(Chained(free)) = Blocks(free)
  BY <1>5, ChainedEffect
<1>7. q = [indices |-> Chained(free), to_be_recycled |-> <<>>,
           last_block_index |-> r.last_block_index]
  <2> HIDE DEF free
  <2>1. q = [r EXCEPT !.indices = Chained(free), !.to_be_recycled = <<>>]
    BY DEF Written, free
  <2> HIDE DEF q
  <2> QED BY <1>2, <2>1
<1> HIDE DEF q, free
<1>8. /\ q.indices = Chained(free) /\ q.to_be_recycled = <<>>
      /\ q.last_block_index = r.last_block_index
  BY <1>7
<1>9. DisposedBlocks(q) = {} /\ DOMAIN q.to_be_recycled = {}
  BY <1>8 DEF DisposedBlocks, Blocks, Elements
<1>10. RecyclerBlocks(q) = Blocks(free) /\ RecyclerBlocks(q) = RecyclerBlocks(r)
  BY <1>5, <1>6, <1>8, <1>9 DEF RecyclerBlocks
<1>11. RecyclerOK(q)
  <2>1. q \in Recyclers
    <3>1. Chained(free) \in SUBSET FreeSegment
      BY <1>6 DEF FreeOK
    <3>2. <<>> \in Seq(FreeSegment)
      OBVIOUS
    <3> QED BY <1>2, <1>7, <3>1, <3>2 DEF Recyclers
  <2> QED BY <1>6, <1>8, <1>9, <2>1 DEF RecyclerOK, FreeOK
<1>12. Whole(q, docs, saved, stats, missing)
  BY <1>8, <1>10, <1>11 DEF Whole
<1> QED BY <1>5, <1>7, <1>10, <1>12 DEF q, free

\* The saved documents join those of the tree.
LEMMA SavedJoinTree ==
    ASSUME NEW r, NEW docs, NEW saved, NEW stats, NEW missing,
           Whole(r, docs, saved, stats, missing)
    PROVE  Whole(r, docs \cup saved, {}, stats, missing)
<1>1. /\ docs \subseteq Segment /\ Apart(docs) /\ saved \subseteq Segment /\ Apart(saved)
      /\ PartsOf(Blocks(docs), Blocks(saved), StatisticBlocks(stats), missing,
                 RecyclerBlocks(r), 1 .. r.last_block_index - 1)
  BY DEF Whole
<1>2. Blocks(docs \cup saved) = Blocks(docs) \cup Blocks(saved) /\ Blocks({}) = {}
  BY BlocksOfUnion
<1>3. Blocks(docs) \cap Blocks(saved) = {}
  BY <1>1 DEF PartsOf
<1>4. Apart(docs \cup saved)
  BY <1>1, <1>3 DEF Apart, Blocks
<1>5. PartsOf(Blocks(docs \cup saved), Blocks({}), StatisticBlocks(stats), missing,
              RecyclerBlocks(r), 1 .. r.last_block_index - 1)
  <2> DEFINE all == 1 .. r.last_block_index - 1
  <2>1. PartsOf(Blocks(docs), Blocks(saved), StatisticBlocks(stats), missing,
                RecyclerBlocks(r), all)
    BY <1>1
  <2> HIDE DEF all
  <2>2. PartsOf(Blocks(docs \cup saved), Blocks({}), StatisticBlocks(stats), missing,
                RecyclerBlocks(r), all)
    BY <1>2, <2>1 DEF PartsOf
  <2> QED BY <2>2 DEF all
<1>6. docs \cup saved \subseteq Segment /\ {} \subseteq Segment /\ Apart({})
  BY <1>1 DEF Apart
<1> QED BY <1>4, <1>5, <1>6 DEF Whole

\* A store leaves a whole file, on disk and in memory.
LEMMA StoreEffect ==
    ASSUME NEW r, NEW docs, NEW new, NEW stats, NEW missing, NEW written,
           Whole(r, docs, new, stats, missing),
           DiskOK(written), NamedOnDisk(r, written),
           Store(r, stats, docs \cup new, new, written)
    PROVE  /\ Whole(recycler', docs \cup new, {}, statistics', missing)
           /\ DisposedBlocks(recycler') = {}
           /\ DiskOK(disk') /\ NamedOnDisk(recycler', disk')
           /\ tree' = docs \cup new /\ block_chains' = {}
           /\ masterblock'.tree = tree' /\ masterblock'.statistics = statistics'
           /\ OnDisk' = recycler'
<1>1. PICK a \in Rewrites(r, "block_s", stats) :
      \E b \in Rewrites(a.recycler, "recycle_s", a.statistics) :
        LET free == recycle(b.recycler.indices, b.recycler.to_be_recycled)
            overwritten == Blocks(new \cup Elements(b.statistics))
            outdated == {s.index : s \in Outdated(free)}
        IN  /\ recycler' = [b.recycler EXCEPT !.indices = Chained(free),
                                              !.to_be_recycled = <<>>]
            /\ statistics' = b.statistics
            /\ tree' = docs \cup new
            /\ block_chains' = {}
            /\ disk' = {s \in written : s.index \notin overwritten \cup outdated}
                           \cup {s \in Chained(free) : s.index \in outdated}
            /\ masterblock' = [at |-> b.recycler.last_block_index,
                               head |-> HeaderIndex(free),
                               tree |-> docs \cup new, statistics |-> b.statistics]
  BY DEF Store
<1>2. PICK b \in Rewrites(a.recycler, "recycle_s", a.statistics) :
        LET free == recycle(b.recycler.indices, b.recycler.to_be_recycled)
            overwritten == Blocks(new \cup Elements(b.statistics))
            outdated == {s.index : s \in Outdated(free)}
        IN  /\ recycler' = [b.recycler EXCEPT !.indices = Chained(free),
                                              !.to_be_recycled = <<>>]
            /\ statistics' = b.statistics
            /\ tree' = docs \cup new
            /\ block_chains' = {}
            /\ disk' = {s \in written : s.index \notin overwritten \cup outdated}
                           \cup {s \in Chained(free) : s.index \in outdated}
            /\ masterblock' = [at |-> b.recycler.last_block_index,
                               head |-> HeaderIndex(free),
                               tree |-> docs \cup new, statistics |-> b.statistics]
  BY <1>1
<1> DEFINE freeNow == recycle(b.recycler.indices, b.recycler.to_be_recycled)
           overwrittenNow == Blocks(new \cup Elements(b.statistics))
           outdatedNow == {s.index : s \in Outdated(freeNow)}
           C == Chained(freeNow)
<1>3. /\ recycler' = [b.recycler EXCEPT !.indices = C, !.to_be_recycled = <<>>]
      /\ statistics' = b.statistics /\ tree' = docs \cup new /\ block_chains' = {}
      /\ disk' = {s \in written : s.index \notin overwrittenNow \cup outdatedNow}
                     \cup {s \in C : s.index \in outdatedNow}
      /\ masterblock' = [at |-> b.recycler.last_block_index, head |-> HeaderIndex(freeNow),
                         tree |-> docs \cup new, statistics |-> b.statistics]
  BY <1>2
<1>4. /\ Whole(a.recycler, docs, new, a.statistics, missing)
      /\ NamedOnDisk(a.recycler, r.indices) /\ a.statistics["block_s"] # None
  BY RewriteEffect DEF Statistic
<1>5. /\ Whole(b.recycler, docs, new, b.statistics, missing)
      /\ NamedOnDisk(b.recycler, a.recycler.indices) /\ b.statistics["recycle_s"] # None
      /\ b.statistics["block_s"] = a.statistics["block_s"]
  <2>1. "recycle_s" \in Statistic /\ "block_s" \in Statistic \ {"recycle_s"}
    BY DEF Statistic
  <2> QED BY <1>4, <2>1, RewriteEffect
<1>6. Elements(b.statistics) = {b.statistics[x] : x \in {y \in Statistic : b.statistics[y] # None}}
  <2>1. DOMAIN b.statistics = Statistic
    BY <1>5 DEF Whole
  <2>2. \A x \in Statistic : b.statistics[x] # None
    BY <1>4, <1>5 DEF Statistic
  <2> QED BY <2>1, <2>2 DEF Elements
<1>7. overwrittenNow = Blocks(new) \cup StatisticBlocks(b.statistics)
  BY <1>6, BlocksOfUnion DEF StatisticBlocks
<1> HIDE DEF overwrittenNow
<1>8. /\ Whole(recycler', docs, new, b.statistics, missing)
      /\ FreeOK(freeNow)
      /\ \A t \in freeNow : t.next # 0 => t \in b.recycler.indices
      /\ recycler' = [indices |-> C, to_be_recycled |-> <<>>,
                      last_block_index |-> b.recycler.last_block_index]
      /\ RecyclerBlocks(recycler') = Blocks(freeNow)
  <2>1. freeNow = FreeAfter(b.recycler) /\ recycler' = Written(b.recycler)
    BY <1>3 DEF FreeAfter, Written
  <2> HIDE DEF freeNow
  <2> QED BY <1>5, <2>1, RecycleWhole
<1> HIDE DEF freeNow, C
<1>9. /\ FreeOK(C) /\ Blocks(C) = Blocks(freeNow) /\ IsChain(C)
      /\ HeaderIndex(C) = HeaderIndex(freeNow)
      /\ \A s \in C : \E t \in freeNow :
            /\ s.index = t.index /\ BlocksOf(s) = BlocksOf(t)
            /\ t \notin Outdated(freeNow) => s = t /\ s.next # 0
  BY <1>8, ChainedEffect DEF C
<1>10. overwrittenNow \cap Blocks(C) = {}
  <2>1. PartsOf(Blocks(docs), Blocks(new), StatisticBlocks(b.statistics), missing,
                RecyclerBlocks(recycler'), 1 .. recycler'.last_block_index - 1)
    BY <1>8 DEF Whole
  <2>2. PICK all : PartsOf(Blocks(docs), Blocks(new), StatisticBlocks(b.statistics), missing,
                           RecyclerBlocks(recycler'), all)
    BY <2>1
  <2> QED BY <1>7, <1>8, <1>9, <2>2 DEF PartsOf
<1>11. /\ C \subseteq FreeSegment /\ Apart(C)
       /\ \A s \in C : IsPiece(s)
       /\ \A s, t \in C : s.index = t.index => s = t
  <2>1. C \subseteq FreeSegment /\ Apart(C)
    BY <1>9 DEF FreeOK
  <2>2. \A s \in C : IsPiece(s)
    BY <2>1, SegmentsArePieces
  <2> QED BY <2>1, <2>2, ApartEnds
<1>12. \A s \in C : s.index \notin overwrittenNow
  <2>1. \A s \in C : s.index \in Blocks(C)
    BY <1>11, BlocksOfPiece DEF Blocks
  <2> QED BY <1>10, <2>1
<1>13. C \subseteq disk'
  <2> SUFFICES ASSUME NEW s \in C, s.index \notin outdatedNow
               PROVE  s \in written
    BY <1>3, <1>12
  <2>1. PICK t \in freeNow :
            /\ s.index = t.index
            /\ t \notin Outdated(freeNow) => s = t /\ s.next # 0
    BY <1>9
  <2>2. t \notin Outdated(freeNow)
    BY <2>1
  <2>3. s = t /\ s.next # 0 /\ s \in b.recycler.indices
    BY <1>8, <2>1, <2>2
  <2>4. s \in a.recycler.indices
    BY <1>5, <2>3 DEF NamedOnDisk
  <2>5. s \in r.indices
    BY <1>4, <2>3, <2>4 DEF NamedOnDisk
  <2> QED BY <2>3, <2>5 DEF NamedOnDisk
<1> HIDE DEF outdatedNow
<1>14. DiskOK(disk')
  <2>1. written \subseteq FreeSegment /\ \A s, t \in written : s.index = t.index => s = t
    BY DEF DiskOK
  <2>2. disk' \subseteq FreeSegment
    BY <1>3, <1>11, <2>1
  <2>3. ASSUME NEW s \in disk', NEW t \in disk', s.index = t.index PROVE s = t
    <3>1. CASE s.index \in outdatedNow
      BY <1>3, <1>11, <2>3, <3>1
    <3>2. CASE s.index \notin outdatedNow
      BY <1>3, <2>1, <2>3, <3>2
    <3> QED BY <3>1, <3>2
  <2> QED BY <2>2, <2>3 DEF DiskOK
<1>15. /\ recycler'.indices = C /\ recycler'.to_be_recycled = <<>>
       /\ recycler'.last_block_index = b.recycler.last_block_index
  BY <1>8
<1>16. NamedOnDisk(recycler', disk')
  BY <1>13, <1>15 DEF NamedOnDisk
<1>17. ReadFrom(disk', HeaderIndex(C)) = C
  BY <1>9, <1>13, <1>14, ChainIsRead
<1>18. /\ masterblock'.at = b.recycler.last_block_index
       /\ masterblock'.head = HeaderIndex(C)
       /\ masterblock'.tree = docs \cup new /\ masterblock'.statistics = b.statistics
  BY <1>3, <1>9
<1>19. OnDisk' = recycler'
  BY <1>8, <1>17, <1>18 DEF OnDisk
<1>20. Whole(recycler', docs \cup new, {}, b.statistics, missing)
  BY <1>8, SavedJoinTree
<1>21. DisposedBlocks(recycler') = {}
  BY <1>15 DEF DisposedBlocks, Blocks, Elements
<1> QED BY <1>3, <1>14, <1>16, <1>18, <1>19, <1>20, <1>21

(***************************************************************************)
(* The invariant                                                           *)
(***************************************************************************)
\* A new file is whole.
LEMMA EmptyWhole ==
    /\ Whole(Empty, {}, {}, NoStatistics, {})
    /\ RecyclerBlocks(Empty) = {} /\ DisposedBlocks(Empty) = {}
    /\ DiskOK({}) /\ NamedOnDisk(Empty, {})
    /\ ReadFrom({}, 0) = {}
<1>1. /\ Empty.indices = {} /\ Empty.to_be_recycled = <<>> /\ Empty.last_block_index = 1
      /\ DOMAIN Empty.to_be_recycled = {}
  BY DEF Empty
<1>2. Blocks({}) = {} /\ Elements(<<>>) = {}
  BY DEF Blocks, Elements
<1>3. RecyclerBlocks(Empty) = {} /\ DisposedBlocks(Empty) = {}
  BY <1>1, <1>2 DEF RecyclerBlocks, DisposedBlocks
<1>4. RecyclerOK(Empty)
  <2>1. Empty \in Recyclers
    <3>1. <<>> \in Seq(FreeSegment) /\ 1 \in 1 .. MaxBlock + 1
      BY BlockAssumption
    <3> QED BY <3>1 DEF Empty, Recyclers
  <2> QED BY <1>1, <1>2, <1>3, <2>1 DEF RecyclerOK, Apart
<1>5. /\ NoStatistics \in [Statistic -> Segment \cup {None}]
      /\ \A x \in Statistic : NoStatistics[x] = None
  BY DEF NoStatistics, Statistic
<1>6. StatisticBlocks(NoStatistics) = {}
  BY <1>5, StatisticBlocksAre
<1>7. PartsOf({}, {}, {}, {}, {}, 1 .. 1 - 1)
  BY DEF PartsOf
<1>8. Whole(Empty, {}, {}, NoStatistics, {})
  BY <1>1, <1>2, <1>3, <1>4, <1>5, <1>6, <1>7 DEF Whole, Apart
<1>9. DiskOK({}) /\ NamedOnDisk(Empty, {})
  BY <1>1 DEF DiskOK, NamedOnDisk
<1>10. ReadFrom({}, 0) = {}
  <2>1. HeaderIndex({}) = 0 /\ IsChain({})
    BY DEF HeaderIndex, IsChain
  <2> QED BY <1>9, <2>1, ChainIsRead
<1> QED BY <1>3, <1>8, <1>9, <1>10

\* What is read is on disk.
LEMMA ReadIsOnDisk ==
    ASSUME NEW written, DiskOK(written), NEW header
    PROVE  ReadFrom(written, header) \subseteq written
<1>1. Cardinality(written) \in Nat
  BY FinitelyMany, FS_CardinalityType DEF DiskOK
<1>2. PICK f : /\ Reads(f, written, header, Cardinality(written))
               /\ ReadFrom(written, header) = UNION {f[k] : k \in 0 .. Cardinality(written)}
  BY <1>1, ReadFromIs
<1>3. ASSUME NEW k \in 0 .. Cardinality(written) PROVE f[k] \subseteq written
  <2>1. CASE k = 0
    BY <1>2, <2>1 DEF Reads
  <2>2. CASE k # 0
    <3>1. k \in 1 .. Cardinality(written)
      BY <1>1, <2>2
    <3> QED BY <1>2, <3>1 DEF Reads
  <2> QED BY <2>1, <2>2
<1> QED BY <1>2, <1>3

\* The invariant holds of a new file.
LEMMA InitFile == Init => FileInvariant
<1> SUFFICES ASSUME Init PROVE FileInvariant
  OBVIOUS
<1>1. /\ recycler = Empty /\ block_chains = {} /\ tree = {} /\ statistics = NoStatistics
      /\ lost = {} /\ disk = {} /\ lost_on_disk = {}
      /\ masterblock.at = 1 /\ masterblock.head = 0 /\ masterblock.tree = {}
      /\ masterblock.statistics = NoStatistics
  BY DEF Init
<1>2. OnDisk = Empty
  BY <1>1, EmptyWhole DEF OnDisk, Empty
<1>3. Whole(recycler, tree, block_chains, statistics, lost)
  BY <1>1, EmptyWhole
<1>4. Whole(OnDisk, masterblock.tree, {}, masterblock.statistics, lost_on_disk)
  BY <1>1, <1>2, EmptyWhole
<1>5. DiskOK(disk) /\ NamedOnDisk(recycler, disk)
  BY <1>1, EmptyWhole
<1>6. Transaction
  BY <1>1, EmptyWhole DEF Transaction, Blocks
<1> QED BY <1>3, <1>4, <1>5, <1>6 DEF FileInvariant

\* Nothing is written to disk.
LEMMA DiskKept ==
    ASSUME FileInvariant, UNCHANGED diskVars
    PROVE  /\ Whole(OnDisk, masterblock.tree, {}, masterblock.statistics, lost_on_disk)'
           /\ DiskOK(disk)'
           /\ OnDisk' = OnDisk
<1>1. disk' = disk /\ masterblock' = masterblock /\ lost_on_disk' = lost_on_disk
  BY DEF diskVars
<1>2. OnDisk' = OnDisk
  BY <1>1 DEF OnDisk
<1>3. Whole(OnDisk', masterblock'.tree, {}, masterblock'.statistics, lost_on_disk')
  BY <1>1, <1>2 DEF FileInvariant
<1> QED BY <1>1, <1>2, <1>3 DEF FileInvariant

\* save keeps the invariant.
LEMMA SaveKeeps ==
    ASSUME FileInvariant, NEW size \in Size, save(size) PROVE FileInvariant'
<1>1. PICK c \in Claims(recycler, size) :
          /\ recycler' = c.recycler
          /\ block_chains' = block_chains \cup {[index |-> c.index, size |-> size]}
  BY DEF save
<1> DEFINE x == [index |-> c.index, size |-> size]
<1>2. tree' = tree /\ statistics' = statistics /\ lost' = lost /\ UNCHANGED diskVars
  BY DEF save
<1>3. disk' = disk /\ masterblock' = masterblock
  BY <1>2 DEF diskVars
<1>4. Whole(recycler, tree, block_chains, statistics, lost)
  BY DEF FileInvariant
<1>5. RecyclerOK(recycler) /\ InFile(recycler)
  BY <1>4, WholeInFile DEF Whole
<1>6. Claimed(recycler, recycler', x)
  <2>1. Claimed(recycler, c.recycler, x)
    BY <1>5, ClaimEffect
  <2> QED BY <1>1, <2>1
<1>7. block_chains' = block_chains \cup {x}
  BY <1>1
<1> HIDE DEF x
<1>8. Whole(recycler', tree', block_chains', statistics', lost')
  BY <1>2, <1>4, <1>6, <1>7, ClaimForDocument
<1>9. NamedOnDisk(recycler', disk')
  BY <1>3, <1>6 DEF FileInvariant, NamedOnDisk, Claimed
<1>10. Transaction'
  <2>1. Blocks(block_chains') = Blocks(block_chains) \cup BlocksOf(x)
    BY <1>7 DEF Blocks
  <2>2. /\ DisposedBlocks(recycler') \subseteq DisposedBlocks(recycler)
        /\ DisposedBlocks(recycler) \subseteq DisposedBlocks(recycler') \cup BlocksOf(x)
    BY <1>6 DEF Claimed
  <2>3. /\ statistics = masterblock.statistics /\ tree \subseteq masterblock.tree
        /\ DisposedBlocks(recycler) \subseteq Blocks(masterblock.tree)
        /\ Blocks(masterblock.tree) \subseteq
              Blocks(tree) \cup DisposedBlocks(recycler) \cup Blocks(block_chains) \cup lost
    BY DEF FileInvariant, Transaction
  <2>4. /\ statistics' = masterblock'.statistics /\ tree' \subseteq masterblock'.tree
        /\ DisposedBlocks(recycler') \subseteq Blocks(masterblock'.tree)
        /\ Blocks(masterblock'.tree) \subseteq
              Blocks(tree') \cup DisposedBlocks(recycler') \cup Blocks(block_chains') \cup lost'
    BY <1>2, <1>3, <2>1, <2>2, <2>3
  <2> QED BY <2>4 DEF Transaction
<1> QED BY <1>2, <1>8, <1>9, <1>10, DiskKept DEF FileInvariant

\* disposeDocument keeps the invariant.
LEMMA DisposeKeeps ==
    ASSUME FileInvariant, NEW s \in tree, disposeDocument(s) PROVE FileInvariant'
<1>1. /\ recycler' = dispose(recycler, s) /\ tree' = tree \ {s}
      /\ block_chains' = block_chains /\ statistics' = statistics /\ lost' = lost
      /\ UNCHANGED diskVars
  BY DEF disposeDocument
<1>2. disk' = disk /\ masterblock' = masterblock
  BY <1>1 DEF diskVars
<1>3. Whole(recycler, tree, block_chains, statistics, lost)
  BY DEF FileInvariant
<1>4. /\ Whole(recycler', tree', block_chains', statistics', lost')
      /\ DisposedBlocks(recycler') = DisposedBlocks(recycler) \cup BlocksOf(s)
  BY <1>1, <1>3, DisposeDocument
<1>5. NamedOnDisk(recycler', disk')
  <2>1. recycler'.indices = recycler.indices
    <3>1. recycler = [indices |-> recycler.indices, to_be_recycled |-> recycler.to_be_recycled,
                      last_block_index |-> recycler.last_block_index]
      BY <1>3, RecyclerParts DEF Whole
    <3> QED BY <1>1, <3>1 DEF dispose
  <2> QED BY <1>2, <2>1 DEF FileInvariant, NamedOnDisk
<1>6. Transaction'
  <2>1. /\ statistics = masterblock.statistics /\ tree \subseteq masterblock.tree
        /\ DisposedBlocks(recycler) \subseteq Blocks(masterblock.tree)
        /\ Blocks(masterblock.tree) \subseteq
              Blocks(tree) \cup DisposedBlocks(recycler) \cup Blocks(block_chains) \cup lost
    BY DEF FileInvariant, Transaction
  <2>2. BlocksOf(s) \subseteq Blocks(masterblock.tree)
    BY <2>1 DEF Blocks
  <2>3. Blocks(tree) = Blocks(tree') \cup BlocksOf(s)
    BY <1>1 DEF Blocks
  <2>4. /\ statistics' = masterblock'.statistics /\ tree' \subseteq masterblock'.tree
        /\ DisposedBlocks(recycler') \subseteq Blocks(masterblock'.tree)
        /\ Blocks(masterblock'.tree) \subseteq
              Blocks(tree') \cup DisposedBlocks(recycler') \cup Blocks(block_chains') \cup lost'
    BY <1>1, <1>2, <1>4, <2>1, <2>2, <2>3
  <2> QED BY <2>4 DEF Transaction
<1> QED BY <1>1, <1>4, <1>5, <1>6, DiskKept DEF FileInvariant

\* forgetBranch keeps the invariant: the blocks of the branch are lost.
LEMMA ForgetKeeps ==
    ASSUME FileInvariant, NEW s \in tree, forgetBranch(s) PROVE FileInvariant'
<1>1. /\ tree' = tree \ {s} /\ lost' = lost \cup BlocksOf(s)
      /\ recycler' = recycler /\ block_chains' = block_chains /\ statistics' = statistics
      /\ UNCHANGED diskVars
  BY DEF forgetBranch
<1>2. disk' = disk /\ masterblock' = masterblock
  BY <1>1 DEF diskVars
<1>3. Whole(recycler, tree, block_chains, statistics, lost)
  BY DEF FileInvariant
<1>4. /\ Blocks(tree') \cup BlocksOf(s) = Blocks(tree)
      /\ Blocks(tree') \cap BlocksOf(s) = {}
      /\ Apart(tree')
  BY <1>1, <1>3, BlocksWithout DEF Whole
<1>5. Whole(recycler', tree', block_chains', statistics', lost')
  <2> DEFINE all == 1 .. recycler.last_block_index - 1
  <2>1. PartsOf(Blocks(tree), Blocks(block_chains), StatisticBlocks(statistics), lost,
                RecyclerBlocks(recycler), all)
    BY <1>3 DEF Whole
  <2> HIDE DEF all
  <2>2. PartsOf(Blocks(tree'), Blocks(block_chains), StatisticBlocks(statistics), lost',
                RecyclerBlocks(recycler), all)
    BY <1>1, <1>4, <2>1 DEF PartsOf
  <2>3. tree' \subseteq Segment
    BY <1>1, <1>3 DEF Whole
  <2>4. Whole(recycler, tree', block_chains, statistics, lost')
    BY <1>3, <1>4, <2>2, <2>3 DEF Whole, all
  <2> QED BY <1>1, <2>4
<1>6. Transaction'
  <2>1. /\ statistics = masterblock.statistics /\ tree \subseteq masterblock.tree
        /\ DisposedBlocks(recycler) \subseteq Blocks(masterblock.tree)
        /\ Blocks(masterblock.tree) \subseteq
              Blocks(tree) \cup DisposedBlocks(recycler) \cup Blocks(block_chains) \cup lost
    BY DEF FileInvariant, Transaction
  <2>2. /\ statistics' = masterblock'.statistics /\ tree' \subseteq masterblock'.tree
        /\ DisposedBlocks(recycler') \subseteq Blocks(masterblock'.tree)
        /\ Blocks(masterblock'.tree) \subseteq
              Blocks(tree') \cup DisposedBlocks(recycler') \cup Blocks(block_chains') \cup lost'
    BY <1>1, <1>2, <1>4, <2>1
  <2> QED BY <2>2 DEF Transaction
<1> QED BY <1>1, <1>2, <1>5, <1>6, DiskKept DEF FileInvariant

\* After a store, or a reset, the invariant holds.
LEMMA StoredFile ==
    ASSUME Whole(recycler', tree', {}, statistics', lost'),
           DisposedBlocks(recycler') = {},
           DiskOK(disk'), NamedOnDisk(recycler', disk'),
           block_chains' = {}, lost_on_disk' = lost',
           masterblock'.tree = tree', masterblock'.statistics = statistics',
           OnDisk' = recycler'
    PROVE  FileInvariant'
<1>1. Whole(recycler', tree', block_chains', statistics', lost')
  OBVIOUS
<1>2. Whole(OnDisk', masterblock'.tree, {}, masterblock'.statistics, lost_on_disk')
  OBVIOUS
<1>3. Transaction'
  <2>1. /\ statistics' = masterblock'.statistics /\ tree' \subseteq masterblock'.tree
        /\ DisposedBlocks(recycler') \subseteq Blocks(masterblock'.tree)
        /\ Blocks(masterblock'.tree) \subseteq
              Blocks(tree') \cup DisposedBlocks(recycler') \cup Blocks(block_chains') \cup lost'
    OBVIOUS
  <2> QED BY <2>1 DEF Transaction
<1> QED BY <1>1, <1>2, <1>3 DEF FileInvariant

\* store keeps the invariant.
LEMMA StoreKeeps == ASSUME FileInvariant, store PROVE FileInvariant'
<1>1. /\ Store(recycler, statistics, tree \cup block_chains, block_chains, disk)
      /\ lost_on_disk' = lost /\ lost' = lost
  BY DEF store
<1>2. /\ Whole(recycler, tree, block_chains, statistics, lost)
      /\ DiskOK(disk) /\ NamedOnDisk(recycler, disk)
  BY DEF FileInvariant
<1>3. /\ Whole(recycler', tree \cup block_chains, {}, statistics', lost)
      /\ DisposedBlocks(recycler') = {}
      /\ DiskOK(disk') /\ NamedOnDisk(recycler', disk')
      /\ tree' = tree \cup block_chains /\ block_chains' = {}
      /\ masterblock'.tree = tree' /\ masterblock'.statistics = statistics'
      /\ OnDisk' = recycler'
  BY <1>1, <1>2, StoreEffect
<1> QED BY <1>1, <1>3, StoredFile

\* reset keeps the invariant.
LEMMA ResetKeeps == ASSUME reset PROVE FileInvariant'
<1>1. Store(Empty, NoStatistics, {}, {}, {}) /\ lost_on_disk' = {} /\ lost' = {}
  BY DEF reset
<1>2. Store(Empty, NoStatistics, {} \cup {}, {}, {}) /\ {} \cup {} = {}
  <2>1. {} \cup {} = {}
    OBVIOUS
  <2> QED BY <1>1, <2>1, Zenon
<1>3. /\ Whole(recycler', {} \cup {}, {}, statistics', {})
      /\ DisposedBlocks(recycler') = {}
      /\ DiskOK(disk') /\ NamedOnDisk(recycler', disk')
      /\ tree' = {} \cup {} /\ block_chains' = {}
      /\ masterblock'.tree = tree' /\ masterblock'.statistics = statistics'
      /\ OnDisk' = recycler'
  BY <1>2, EmptyWhole, StoreEffect
<1> QED BY <1>1, <1>2, <1>3, StoredFile

\* A transaction that is taken back keeps the invariant.
LEMMA TakenBackKeeps ==
    ASSUME FileInvariant, remove_disposed_and_added PROVE FileInvariant'
<1>1. /\ block_chains' = {}
      /\ recycler' = [recycler EXCEPT !.to_be_recycled = <<>>]
      /\ tree' = masterblock.tree
      /\ lost' = (lost \cup Blocks(block_chains)) \ Blocks(masterblock.tree)
      /\ statistics' = statistics /\ UNCHANGED diskVars
  BY DEF remove_disposed_and_added, ClearToBeRecycled
<1>2. disk' = disk /\ masterblock' = masterblock
  BY <1>1 DEF diskVars
<1>3. /\ Whole(recycler, tree, block_chains, statistics, lost)
      /\ masterblock.tree \subseteq Segment /\ Apart(masterblock.tree)
  BY DEF FileInvariant, Whole
<1>4. /\ recycler.indices \in SUBSET FreeSegment
      /\ recycler.last_block_index \in 1 .. MaxBlock + 1
      /\ recycler' = [indices |-> recycler.indices, to_be_recycled |-> <<>>,
                      last_block_index |-> recycler.last_block_index]
  BY <1>1, <1>3 DEF Whole, RecyclerOK, Recyclers
<1>5. /\ recycler'.indices = recycler.indices /\ recycler'.to_be_recycled = <<>>
      /\ recycler'.last_block_index = recycler.last_block_index
  BY <1>4
<1>6. DisposedBlocks(recycler') = {} /\ DOMAIN recycler'.to_be_recycled = {}
  BY <1>5 DEF DisposedBlocks, Blocks, Elements
<1>7. RecyclerBlocks(recycler') = Blocks(recycler.indices)
  BY <1>5, <1>6 DEF RecyclerBlocks
<1>8. RecyclerOK(recycler')
  <2>1. recycler' \in Recyclers
    <3>1. <<>> \in Seq(FreeSegment)
      OBVIOUS
    <3> QED BY <1>4, <3>1 DEF Recyclers
  <2>2. /\ Apart(recycler.indices)
        /\ \A s, t \in recycler.indices : EndOf(s) # t.index
    BY <1>3 DEF Whole, RecyclerOK
  <2> QED BY <1>5, <1>6, <2>1, <2>2 DEF RecyclerOK
<1>9. /\ statistics = masterblock.statistics
      /\ Blocks(tree) \subseteq Blocks(masterblock.tree)
      /\ DisposedBlocks(recycler) \subseteq Blocks(masterblock.tree)
      /\ Blocks(masterblock.tree) \subseteq
            Blocks(tree) \cup DisposedBlocks(recycler) \cup Blocks(block_chains) \cup lost
  BY DEF FileInvariant, Transaction, Blocks
<1>10. PartsOf(Blocks(masterblock.tree), Blocks({}), StatisticBlocks(statistics), lost',
               RecyclerBlocks(recycler'), 1 .. recycler.last_block_index - 1)
  <2> DEFINE all == 1 .. recycler.last_block_index - 1
  <2>1. PartsOf(Blocks(tree), Blocks(block_chains), StatisticBlocks(statistics), lost,
                RecyclerBlocks(recycler), all)
    BY <1>3 DEF Whole
  <2>2. /\ RecyclerBlocks(recycler) = Blocks(recycler.indices) \cup DisposedBlocks(recycler)
        /\ Blocks(recycler.indices) \cap DisposedBlocks(recycler) = {}
    BY <1>3 DEF RecyclerBlocks, Whole, RecyclerOK
  <2>3. Blocks({}) = {}
    BY DEF Blocks
  <2> HIDE DEF all
  <2>4. PartsOf(Blocks(masterblock.tree), Blocks({}), StatisticBlocks(statistics), lost',
                RecyclerBlocks(recycler'), all)
    BY <1>1, <1>7, <1>9, <2>1, <2>2, <2>3 DEF PartsOf
  <2> QED BY <2>4 DEF all
<1>11. Whole(recycler', tree', block_chains', statistics', lost')
  <2>1. {} \subseteq Segment /\ Apart({})
    BY DEF Apart
  <2>2. Whole(recycler', masterblock.tree, {}, statistics, lost')
    BY <1>3, <1>5, <1>8, <1>10, <2>1 DEF Whole
  <2> QED BY <1>1, <2>2
<1>12. NamedOnDisk(recycler', disk')
  BY <1>2, <1>5 DEF FileInvariant, NamedOnDisk
<1>13. Transaction'
  <2>1. /\ statistics' = masterblock'.statistics /\ tree' \subseteq masterblock'.tree
        /\ DisposedBlocks(recycler') \subseteq Blocks(masterblock'.tree)
        /\ Blocks(masterblock'.tree) \subseteq
              Blocks(tree') \cup DisposedBlocks(recycler') \cup Blocks(block_chains') \cup lost'
    BY <1>1, <1>2, <1>6, <1>9
  <2> QED BY <2>1 DEF Transaction
<1> QED BY <1>1, <1>11, <1>12, <1>13, DiskKept DEF FileInvariant

\* A file that is opened again is as it was stored.
LEMMA OpenKeeps == ASSUME FileInvariant, open PROVE FileInvariant'
<1>1. /\ recycler' = OnDisk /\ block_chains' = {} /\ tree' = masterblock.tree
      /\ statistics' = masterblock.statistics /\ lost' = lost_on_disk /\ UNCHANGED diskVars
  BY DEF open, OnDisk
<1>2. /\ disk' = disk /\ masterblock' = masterblock /\ lost_on_disk' = lost_on_disk
      /\ OnDisk' = OnDisk
  BY <1>1, DiskKept DEF diskVars
<1>3. /\ Whole(OnDisk, masterblock.tree, {}, masterblock.statistics, lost_on_disk)
      /\ DiskOK(disk)
  BY DEF FileInvariant
<1>4. OnDisk.indices \subseteq disk /\ OnDisk.to_be_recycled = <<>>
  BY <1>3, ReadIsOnDisk DEF OnDisk
<1>5. DisposedBlocks(OnDisk) = {}
  BY <1>4 DEF DisposedBlocks, Blocks, Elements
<1>6. NamedOnDisk(recycler', disk')
  BY <1>1, <1>2, <1>4 DEF NamedOnDisk
<1>7. Whole(recycler', tree', {}, statistics', lost')
  BY <1>1, <1>3
<1> QED BY <1>1, <1>2, <1>3, <1>5, <1>6, <1>7, StoredFile

\* Every step keeps the invariant.
LEMMA NextKeeps == FileInvariant /\ [Next]_vars => FileInvariant'
<1> SUFFICES ASSUME FileInvariant, [Next]_vars PROVE FileInvariant'
  OBVIOUS
<1>1. CASE UNCHANGED vars
  <2>1. /\ recycler' = recycler /\ block_chains' = block_chains /\ tree' = tree
        /\ statistics' = statistics /\ lost' = lost /\ disk' = disk
        /\ masterblock' = masterblock /\ lost_on_disk' = lost_on_disk
    BY <1>1 DEF vars, memoryVars, diskVars
  <2> QED BY <2>1 DEF FileInvariant, OnDisk, Transaction
<1>2. CASE Next
  <2>1. ASSUME NEW size \in Size, save(size) PROVE FileInvariant'
    BY <2>1, SaveKeeps
  <2>2. ASSUME NEW s \in tree, disposeDocument(s) PROVE FileInvariant'
    BY <2>2, DisposeKeeps
  <2>3. ASSUME NEW s \in tree, forgetBranch(s) PROVE FileInvariant'
    BY <2>3, ForgetKeeps
  <2>4. store => FileInvariant'
    BY StoreKeeps
  <2>5. reset => FileInvariant'
    BY ResetKeeps
  <2>6. remove_disposed_and_added => FileInvariant'
    BY TakenBackKeeps
  <2>7. open => FileInvariant'
    BY OpenKeeps
  <2> QED BY <1>2, <2>1, <2>2, <2>3, <2>4, <2>5, <2>6, <2>7 DEF Next
<1> QED BY <1>1, <1>2

(***************************************************************************)
(* Theorems                                                                *)
(***************************************************************************)
\* A whole file is a partition of its blocks into pieces.
LEMMA WholeIsPartition ==
    ASSUME NEW r, NEW docs, NEW saved, NEW stats, NEW missing,
           Whole(r, docs, saved, stats, missing)
    PROVE  Partition(Pieces(docs, stats, r.indices)
                         \cup {<<"saved", s>> : s \in saved}
                         \cup {<<"disposed", r.to_be_recycled[i], i>> :
                                  i \in DOMAIN r.to_be_recycled},
                     missing, r.last_block_index)
<1> DEFINE list == r.to_be_recycled
           TreeP == {<<"tree", s>> : s \in docs}
           StatP == {<<x, stats[x]>> : x \in {y \in Statistic : stats[y] # None}}
           FreeP == {<<"free", s>> : s \in r.indices}
           SavedP == {<<"saved", s>> : s \in saved}
           DispP == {<<"disposed", list[i], i>> : i \in DOMAIN list}
           all == 1 .. r.last_block_index - 1
           pieces == TreeP \cup StatP \cup FreeP \cup SavedP \cup DispP
<1>1. /\ Apart(docs) /\ Apart(saved) /\ Apart(r.indices)
      /\ \A x, y \in Statistic :
            x # y /\ stats[x] # None /\ stats[y] # None =>
                BlocksOf(stats[x]) \cap BlocksOf(stats[y]) = {}
      /\ \A i, j \in DOMAIN list : i # j => BlocksOf(list[i]) \cap BlocksOf(list[j]) = {}
      /\ Blocks(r.indices) \cap DisposedBlocks(r) = {}
      /\ PartsOf(Blocks(docs), Blocks(saved), StatisticBlocks(stats), missing,
                 RecyclerBlocks(r), all)
  BY DEF Whole, RecyclerOK
<1>2. /\ \A p \in TreeP : p[2] \in docs /\ p = <<"tree", p[2]>>
      /\ \A p \in StatP : \E x \in Statistic : stats[x] # None /\ p = <<x, stats[x]>> /\ p[2] = stats[x]
      /\ \A p \in FreeP : p[2] \in r.indices /\ p = <<"free", p[2]>>
      /\ \A p \in SavedP : p[2] \in saved /\ p = <<"saved", p[2]>>
      /\ \A p \in DispP : \E i \in DOMAIN list : p = <<"disposed", list[i], i>> /\ p[2] = list[i]
  OBVIOUS
<1>3. /\ \A s \in docs : \E p \in TreeP : p[2] = s
      /\ \A x \in Statistic : stats[x] # None => \E p \in StatP : p[2] = stats[x]
      /\ \A s \in r.indices : \E p \in FreeP : p[2] = s
      /\ \A s \in saved : \E p \in SavedP : p[2] = s
      /\ \A i \in DOMAIN list : \E p \in DispP : p[2] = list[i]
  <2>1. \A s \in docs : <<"tree", s>> \in TreeP /\ <<"tree", s>>[2] = s
    OBVIOUS
  <2>2. \A x \in Statistic : stats[x] # None => <<x, stats[x]>> \in StatP /\ <<x, stats[x]>>[2] = stats[x]
    OBVIOUS
  <2>3. \A s \in r.indices : <<"free", s>> \in FreeP /\ <<"free", s>>[2] = s
    OBVIOUS
  <2>4. \A s \in saved : <<"saved", s>> \in SavedP /\ <<"saved", s>>[2] = s
    OBVIOUS
  <2>5. \A i \in DOMAIN list :
            <<"disposed", list[i], i>> \in DispP /\ <<"disposed", list[i], i>>[2] = list[i]
    OBVIOUS
  <2> HIDE DEF TreeP, StatP, FreeP, SavedP, DispP
  <2> QED BY <2>1, <2>2, <2>3, <2>4, <2>5
<1> HIDE DEF TreeP, StatP, FreeP, SavedP, DispP
<1>4. /\ \A b : b \in Blocks(docs) <=> \E p \in TreeP : b \in BlocksOf(p[2])
      /\ \A b : b \in StatisticBlocks(stats) <=> \E p \in StatP : b \in BlocksOf(p[2])
      /\ \A b : b \in Blocks(r.indices) <=> \E p \in FreeP : b \in BlocksOf(p[2])
      /\ \A b : b \in Blocks(saved) <=> \E p \in SavedP : b \in BlocksOf(p[2])
      /\ \A b : b \in DisposedBlocks(r) <=> \E p \in DispP : b \in BlocksOf(p[2])
  <2>1. \A b : b \in Blocks(docs) <=> \E p \in TreeP : b \in BlocksOf(p[2])
    BY <1>2, <1>3 DEF Blocks
  <2>2. \A b : b \in StatisticBlocks(stats) <=> \E p \in StatP : b \in BlocksOf(p[2])
    <3>1. \A b : b \in StatisticBlocks(stats) <=>
                   \E x \in Statistic : stats[x] # None /\ b \in BlocksOf(stats[x])
      BY StatisticBlocksAre
    <3> QED BY <1>2, <1>3, <3>1
  <2>3. \A b : b \in Blocks(r.indices) <=> \E p \in FreeP : b \in BlocksOf(p[2])
    BY <1>2, <1>3 DEF Blocks
  <2>4. \A b : b \in Blocks(saved) <=> \E p \in SavedP : b \in BlocksOf(p[2])
    BY <1>2, <1>3 DEF Blocks
  <2>5. \A b : b \in DisposedBlocks(r) <=> \E p \in DispP : b \in BlocksOf(p[2])
    <3>1. \A b : b \in DisposedBlocks(r) <=> \E i \in DOMAIN list : b \in BlocksOf(list[i])
      BY DEF DisposedBlocks, Blocks, Elements
    <3> QED BY <1>2, <1>3, <3>1
  <2> QED BY <2>1, <2>2, <2>3, <2>4, <2>5
<1>5. RecyclerBlocks(r) = Blocks(r.indices) \cup DisposedBlocks(r)
  BY DEF RecyclerBlocks
<1>6. PICK total : total = all /\ PartsOf(Blocks(docs), Blocks(saved), StatisticBlocks(stats),
                                          missing, RecyclerBlocks(r), total)
  BY <1>1
<1> HIDE DEF all
<1>7. Blocks({p[2] : p \in pieces}) = all \ missing
  <2>1. \A b : b \in Blocks({p[2] : p \in pieces}) <=> \E p \in pieces : b \in BlocksOf(p[2])
    <3> HIDE DEF pieces
    <3> QED BY DEF Blocks
  <2>2. \A b : (\E p \in pieces : b \in BlocksOf(p[2])) <=>
                   \/ b \in Blocks(docs) \/ b \in StatisticBlocks(stats) \/ b \in Blocks(saved)
                   \/ b \in Blocks(r.indices) \/ b \in DisposedBlocks(r)
    BY <1>4
  <2> HIDE DEF pieces
  <2>3. \A b : b \in Blocks({p[2] : p \in pieces}) <=> b \in all \ missing
    BY <1>5, <1>6, <2>1, <2>2 DEF PartsOf
  <2> QED BY <2>3
<1>8. ASSUME NEW p \in pieces, NEW q \in pieces, p # q
      PROVE  BlocksOf(p[2]) \cap BlocksOf(q[2]) = {}
  <2> SUFFICES ASSUME NEW b, b \in BlocksOf(p[2]), b \in BlocksOf(q[2]) PROVE FALSE
    OBVIOUS
  <2>1. CASE p \in TreeP /\ q \in TreeP
    BY <1>1, <1>2, <1>8, <2>1 DEF Apart
  <2>2. CASE p \in FreeP /\ q \in FreeP
    BY <1>1, <1>2, <1>8, <2>2 DEF Apart
  <2>3. CASE p \in SavedP /\ q \in SavedP
    BY <1>1, <1>2, <1>8, <2>3 DEF Apart
  <2>4. CASE p \in StatP /\ q \in StatP
    <3>1. PICK x \in Statistic : stats[x] # None /\ p = <<x, stats[x]>> /\ p[2] = stats[x]
      BY <1>2, <2>4
    <3>2. PICK y \in Statistic : stats[y] # None /\ q = <<y, stats[y]>> /\ q[2] = stats[y]
      BY <1>2, <2>4
    <3>3. x # y
      BY <1>8, <3>1, <3>2
    <3> QED BY <1>1, <3>1, <3>2, <3>3
  <2>5. CASE p \in DispP /\ q \in DispP
    <3>1. PICK i \in DOMAIN list : p = <<"disposed", list[i], i>> /\ p[2] = list[i]
      BY <1>2, <2>5
    <3>2. PICK j \in DOMAIN list : q = <<"disposed", list[j], j>> /\ q[2] = list[j]
      BY <1>2, <2>5
    <3>3. i # j
      BY <1>8, <3>1, <3>2
    <3> QED BY <1>1, <3>1, <3>2, <3>3
  <2>6. /\ p \in TreeP => b \in Blocks(docs)
        /\ q \in TreeP => b \in Blocks(docs)
        /\ p \in StatP => b \in StatisticBlocks(stats)
        /\ q \in StatP => b \in StatisticBlocks(stats)
        /\ p \in FreeP => b \in Blocks(r.indices)
        /\ q \in FreeP => b \in Blocks(r.indices)
        /\ p \in SavedP => b \in Blocks(saved)
        /\ q \in SavedP => b \in Blocks(saved)
        /\ p \in DispP => b \in DisposedBlocks(r)
        /\ q \in DispP => b \in DisposedBlocks(r)
    BY <1>4
  <2>7. /\ ~(b \in Blocks(docs) /\ (b \in Blocks(saved) \/ b \in StatisticBlocks(stats)
                                       \/ b \in Blocks(r.indices) \/ b \in DisposedBlocks(r)))
        /\ ~(b \in Blocks(saved) /\ (b \in StatisticBlocks(stats) \/ b \in Blocks(r.indices)
                                        \/ b \in DisposedBlocks(r)))
        /\ ~(b \in StatisticBlocks(stats) /\ (b \in Blocks(r.indices) \/ b \in DisposedBlocks(r)))
        /\ ~(b \in Blocks(r.indices) /\ b \in DisposedBlocks(r))
    BY <1>1, <1>5, <1>6 DEF PartsOf
  <2> QED BY <2>1, <2>2, <2>3, <2>4, <2>5, <2>6, <2>7
<1>9. Partition(pieces, missing, r.last_block_index)
  BY <1>7, <1>8 DEF Partition, all
<1>10. pieces = Pieces(docs, stats, r.indices)
                    \cup {<<"saved", s>> : s \in saved}
                    \cup {<<"disposed", r.to_be_recycled[i], i>> : i \in DOMAIN r.to_be_recycled}
  BY DEF pieces, TreeP, StatP, FreeP, SavedP, DispP, Pieces
<1> QED BY <1>9, <1>10

\* The file is whole in memory and on disk, and what memory says of the disk is true.
THEOREM FileInvariantHolds == Spec => []FileInvariant
BY InitFile, NextKeeps, PTL DEF Spec

\* Indices and sizes stay in the file, and statistics and documents are segments of it.
THEOREM FileTypesHold == Spec => []FileTypeOK
<1>1. FileInvariant => FileTypeOK
  <2> SUFFICES ASSUME FileInvariant PROVE FileTypeOK
    OBVIOUS
  <2>1. /\ Whole(recycler, tree, block_chains, statistics, lost)
        /\ Whole(OnDisk, masterblock.tree, {}, masterblock.statistics, lost_on_disk)
        /\ disk \subseteq FreeSegment
    BY DEF FileInvariant, DiskOK
  <2>2. /\ recycler.indices \in SUBSET FreeSegment
        /\ recycler.to_be_recycled \in Seq(FreeSegment)
        /\ recycler.last_block_index \in 1 .. MaxBlock + 1
    BY <2>1 DEF Whole, RecyclerOK, Recyclers
  <2>3. Elements(recycler.to_be_recycled) \subseteq FreeSegment
    BY <2>2 DEF Elements
  <2>4. \A s \in FreeSegment :
            s.index \in 1 .. MaxBlock /\ s.size \in 1 .. MaxBlock /\ s.next \in 0 .. MaxBlock
    BY DEF FreeSegment
  <2>5. lost \cup lost_on_disk \subseteq 1 .. MaxBlock
    <3>1. lost \subseteq 1 .. MaxBlock
      BY <2>1, WholeInFile
    <3>2. lost_on_disk \subseteq 1 .. MaxBlock
      BY <2>1, WholeInFile
    <3> QED BY <3>1, <3>2
  <2>6. /\ tree \cup block_chains \subseteq Segment
        /\ statistics \in [Statistic -> Segment \cup {None}]
    BY <2>1 DEF Whole
  <2> QED BY <2>1, <2>2, <2>3, <2>4, <2>5, <2>6 DEF FileTypeOK
<1> QED BY <1>1, FileInvariantHolds, PTL

\* Within a transaction every block of the file is used once, free once or disposed once,
\* but those that are known to be lost (save, dispose, store, reset and futureEye).
THEOREM BlocksHeldOnce == Spec => []EachBlockOnce
<1>1. FileInvariant => EachBlockOnce
  BY WholeIsPartition DEF FileInvariant, EachBlockOnce
<1> QED BY <1>1, FileInvariantHolds, PTL

\* Whenever the file is opened, the list that starts in the masterblock leads to every
\* block that nothing uses and to no other.
THEOREM DiskIsWhole == Spec => []WholeOnDisk
<1>1. FileInvariant => WholeOnDisk
  <2> SUFFICES ASSUME FileInvariant PROVE WholeOnDisk
    OBVIOUS
  <2> DEFINE free == ReadFrom(disk, masterblock.head)
             none == {<<"disposed", OnDisk.to_be_recycled[i], i>> : i \in DOMAIN OnDisk.to_be_recycled}
  <2>1. Whole(OnDisk, masterblock.tree, {}, masterblock.statistics, lost_on_disk)
    BY DEF FileInvariant
  <2>2. OnDisk.indices = free /\ OnDisk.to_be_recycled = <<>> /\ OnDisk.last_block_index = masterblock.at
    BY DEF OnDisk
  <2>3. Partition(Pieces(masterblock.tree, masterblock.statistics, OnDisk.indices)
                      \cup {<<"saved", s>> : s \in {}} \cup none,
                  lost_on_disk, OnDisk.last_block_index)
    BY <2>1, WholeIsPartition
  <2>4. none = {} /\ {<<"saved", s>> : s \in {}} = {}
    BY <2>2
  <2> HIDE DEF free, none
  <2>5. Pieces(masterblock.tree, masterblock.statistics, OnDisk.indices)
            \cup {<<"saved", s>> : s \in {}} \cup none
          = Pieces(masterblock.tree, masterblock.statistics, free)
    BY <2>2, <2>4
  <2>6. Partition(Pieces(masterblock.tree, masterblock.statistics, free), lost_on_disk,
                  masterblock.at)
    BY <2>2, <2>3, <2>5
  <2> QED BY <2>6 DEF WholeOnDisk, free
<1> QED BY <1>1, FileInvariantHolds, PTL

\* recycle and claim leave no two free segments that touch.
THEOREM FreeIsInOnePiece == Spec => []FreeInOnePiece
<1>1. FileInvariant => FreeInOnePiece
  BY DEF FileInvariant, Whole, RecyclerOK, FreeInOnePiece
<1> QED BY <1>1, FileInvariantHolds, PTL
================================================================================
