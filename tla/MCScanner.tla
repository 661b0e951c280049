------------------------------ MODULE MCScanner ------------------------------
(* Small instances of Scanner for TLC.                                      *)
EXTENDS Scanner, TLC

CONSTANTS plain, virus, worm

(* virus is in the daily signatures, worm in the main ones only.             *)
KnownByShard == 1 :> {virus} @@ 2 :> {worm}

(* Clean, infected in the last chunk only, and too large.                    *)
SomeFiles == {<<plain>>, <<plain, worm>>, <<plain, plain, plain>>}
=============================================================================
