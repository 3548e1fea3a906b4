-------------------------- MODULE MCSupportQuiet --------------------------
(* Two supports whose tensions are all within the solve's resolution, with *)
(* enough rounds for every contact to be frozen, put back and broken       *)
(* loose; released nodes wander between two places.                        *)
EXTENDS SupportSearch

MCNormals == {-1, 1}
MCShears  == {0, 2}
MCPlaces  == {0, 1}
=============================================================================
