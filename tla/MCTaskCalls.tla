----------------------------- MODULE MCTaskCalls -----------------------------
(* The model-checking instance of TaskCalls.                                *)
EXTENDS TaskCalls

Symmetry == Permutations(Callers) \cup Permutations(Others)
=============================================================================
