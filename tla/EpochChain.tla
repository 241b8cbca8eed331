------------------------------ MODULE EpochChain ------------------------------
(***************************************************************************)
(* What the voting on epochs promises: every node has a chain of finished  *)
(* epochs that only grows, and of any two chains one continues the other.  *)
(* An entry of a chain stands for the bullseye the network agreed on.      *)
(***************************************************************************)
EXTENDS Integers, Sequences

CONSTANT Node
VARIABLE chain

\* The shorter chain is the beginning of the longer one.
Compatible(s, t) ==
    \A i \in (1..Len(s)) \cap (1..Len(t)) : s[i] = t[i]

Init == chain = [n \in Node |-> <<>>]

\* A node finishes one or more epochs.
Finish(n) ==
    /\ chain'[n] # chain[n]
    /\ Len(chain[n]) < Len(chain'[n])
    /\ Compatible(chain[n], chain'[n])
    /\ \A m \in Node : Compatible(chain'[n], chain[m])
    /\ \A m \in Node \ {n} : chain'[m] = chain[m]

Next == \E n \in Node : Finish(n)

Spec == Init /\ [][Next]_chain
===============================================================================
