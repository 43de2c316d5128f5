------------------------------- MODULE MCWAL --------------------------------
(***************************************************************************)
(* Instances of WAL for TLC.                                               *)
(***************************************************************************)
EXTENDS WAL, TLC

\* The writers are interchangeable: they only differ in the record they
\* wait for.
Symmetry == Permutations(Writers)
=============================================================================
