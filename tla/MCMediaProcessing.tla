------------------------- MODULE MCMediaProcessing -------------------------
(* Interchangeable uploads and keys.                                         *)
EXTENDS MediaProcessing, TLC

Symmetry == Permutations(Uploads) \cup Permutations(Keys)
=============================================================================
