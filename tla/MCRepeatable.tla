---------------------------- MODULE MCRepeatable ----------------------------
(* Two supports, every kind of reaction, one kernel answer per frame.      *)
EXTENDS RepeatableSearch

MCNormals == {-2, -1, 1, 2}
MCShears  == {0, 2}
MCPlaces  == {0}
=============================================================================
