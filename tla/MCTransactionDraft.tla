------------------------- MODULE MCTransactionDraft ------------------------
(***************************************************************************)
(* The instance of TransactionDraft that TLC checks.                       *)
(***************************************************************************)
EXTENDS TransactionDraft, TLC

\* Only safety is checked.
Symmetry == Permutations(Clients) \union Permutations(Receipts) \union Permutations(Texts)
=============================================================================
