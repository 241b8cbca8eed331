------------------------------ MODULE MCEventView ------------------------------
(***************************************************************************)
(* The instance of EventView that TLC checks.                              *)
(***************************************************************************)
EXTENDS EventView, TLC

CONSTANTS n1, n2

\* Reports the page is written for, of which the shell sends none today: the fame
\* of an event once it is decided, and its removal.
LaterReports == {[famous |-> TRUE], [famous |-> FALSE], [remove |-> TRUE]}

NodeSymmetry == Permutations(Chain)
================================================================================
