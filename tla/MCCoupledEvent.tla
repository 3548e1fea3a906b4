--------------------------- MODULE MCCoupledEvent --------------------------
(* Two supports that may pull quietly, push, slide and wander, two places, *)
(* three responses of which neighbours agree, two share vectors.           *)
EXTENDS CoupledEvent

MCNormals   == {-1, 1}
MCShears    == {0, 2}
MCPlaces    == {0, 1}
MCResponses == 0 .. 2
MCShares    == 0 .. 1
=============================================================================
