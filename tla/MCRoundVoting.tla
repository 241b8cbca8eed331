----------------------------- MODULE MCRoundVoting -----------------------------
(***************************************************************************)
(* The instances of RoundVoting that TLC checks.                           *)
(*                                                                         *)
(* A node that decides a round may not know the witness of l in it, nor    *)
(* how l voted for that round in the next one: completed does not wait for *)
(* a silent node for ever.  A witness that needs the vote of l is then     *)
(* valid for some nodes only, here that of l itself.                       *)
(***************************************************************************)
EXTENDS RoundInvariant, TLC

CONSTANTS n1, n2, n3, l

OnlyAll == {Node}

AllOrLate == {Node, Node \ {l}}

Symmetry == Permutations(Collector)
================================================================================
