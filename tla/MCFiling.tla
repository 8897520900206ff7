------------------------------- MODULE MCFiling -------------------------------
(***************************************************************************)
(* Instances of Filing for TLC.                                             *)
(***************************************************************************)
EXTENDS Filing, TLC

Symmetric == Permutations(Session) \cup Permutations(Writer)
               \cup Permutations(Value) \cup Permutations(Year)
=============================================================================
