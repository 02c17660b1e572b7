------------------------------- MODULE MCLink -------------------------------
(***************************************************************************)
(* Instances of Link for TLC: two interchangeable stations.  Symmetry is   *)
(* used by the safety runs only.                                           *)
(***************************************************************************)
EXTENDS Link, TLC

CONSTANTS a, b

MCStations == {a, b}

StationSymmetry == Permutations(MCStations)
=============================================================================
