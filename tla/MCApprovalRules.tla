-------------------------- MODULE MCApprovalRules --------------------------
(***************************************************************************)
(* The instances of ApprovalRules that TLC checks.                         *)
(***************************************************************************)
EXTENDS ApprovalRules, TLC

\* Approvers and rule ids are interchangeable: only safety is checked.
Symmetry == Permutations(Approvers) \union Permutations(RuleIds)
=============================================================================
