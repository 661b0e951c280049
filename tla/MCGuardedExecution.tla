------------------------- MODULE MCGuardedExecution -------------------------
(* Interchangeable callers, keys and actions for the safety runs.            *)
EXTENDS GuardedExecution, TLC

Symmetry == Permutations(Callers) \cup Permutations(Keys) \cup Permutations(Actions)
=============================================================================
