-------------------------- MODULE MCSupportSearch --------------------------
(* Two supports, every kind of reaction: loud and quiet tension, a light   *)
(* and a heavy push, a shear that breaks the light grip and not the heavy. *)
EXTENDS SupportSearch

MCNormals == {-2, -1, 1, 2}
MCShears  == {0, 2}
MCPlaces  == {0}
=============================================================================
