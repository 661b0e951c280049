--------------------------- MODULE MCFlightRecorder ---------------------------
(* Small instances of FlightRecorder for TLC.                                *)
EXTENDS FlightRecorder, TLC

Symmetry == Permutations(Requests) \cup Permutations(Ais) \cup Permutations(ExternalIds)
=============================================================================
