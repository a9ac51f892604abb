-------------------------- MODULE MCProjectMembers -------------------------
(***************************************************************************)
(* The instance of ProjectMembers that TLC checks.                         *)
(***************************************************************************)
EXTENDS ProjectMembers, TLC

\* Only safety is checked.
Symmetry == Permutations(Requests)
=============================================================================
