-------------------------- MODULE MCApprovalEngine -------------------------
(***************************************************************************)
(* The instance of ApprovalEngine that TLC checks.                         *)
(***************************************************************************)
EXTENDS ApprovalEngine, TLC

\* Approvers, requests and transactions are interchangeable: only safety
\* properties are checked under this symmetry.
Symmetry ==
  Permutations(Approvers) \union Permutations(Requests) \union Permutations(Transactions)
=============================================================================
