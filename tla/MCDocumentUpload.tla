-------------------------- MODULE MCDocumentUpload -------------------------
(***************************************************************************)
(* The instances of DocumentUpload that TLC checks.                        *)
(***************************************************************************)
EXTENDS DocumentUpload, TLC

\* Only safety is checked.
Symmetry ==
  Permutations(Keys) \union Permutations(Contents) \union Permutations(Documents)
    \union Permutations(Requests)
=============================================================================
