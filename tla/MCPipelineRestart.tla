--------------------------- MODULE MCPipelineRestart ---------------------------
(***************************************************************************)
(* The instance of PipelineRestart that TLC checks: one contract, which    *)
(* spends two bills for one, and may come again after a crash.             *)
(***************************************************************************)
EXTENDS RestartInvariant, TLC

CONSTANT all

\* All nodes have the same witnesses of a round, or each has a list of its own, which
\* gets the name of the node.
SameOrOwn == {[n \in Node |-> all], [n \in Node |-> n]}

BothBills == [c \in Contract |-> Bill]

AtOnce == [c \in Contract |-> 1]

Symmetry == Permutations(Node)
================================================================================
