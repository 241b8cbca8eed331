------------------------------ MODULE MCBlockFile ------------------------------
(***************************************************************************)
(* The instance of BlockFile that TLC checks.                              *)
(***************************************************************************)
EXTENDS BlockFileInvariant
================================================================================
