--------------------------- MODULE MCEpochPipeline ---------------------------
(***************************************************************************)
(* The instances of EpochPipeline that TLC checks. c1 and c2 spend the     *)
(* same bill.                                                              *)
(***************************************************************************)
EXTENDS StorageInvariant, InStepInvariant, TLC

CONSTANTS c1, c2, b1, b2, all, some

\* All nodes have the same witnesses of a round, or each has a list of its own, which
\* gets the name of the node.
SameOrOwn == {[n \in Node |-> all], [n \in Node |-> n]}

\* All nodes have the same witnesses of a round, or one misses some.
OneMisses ==
    {[n \in Node |-> all]} \cup {[n \in Node |-> IF n = m THEN some ELSE all] : m \in Node}

NoneMisses == {[n \in Node |-> all]}

PairInputs == (c1 :> {b1}) @@ (c2 :> {b1, b2})
OneInput == c1 :> {b1}
NoInputs == <<>>

AtOnce == [c \in Contract |-> 1]
C2Later == [c \in Contract |-> IF c = c2 THEN 2 ELSE 1]

Symmetry == Permutations(Node)
===============================================================================
