--------------------------- MODULE MCSimpleModule ---------------------------
(* The model-checking instance of SimpleModule.                             *)
EXTENDS SimpleModule, TLC

Symmetry == Permutations(Users) \cup Permutations(Readers)
=============================================================================
