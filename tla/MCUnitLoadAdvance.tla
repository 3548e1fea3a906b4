------------------------- MODULE MCUnitLoadAdvance -------------------------
(* A board and a drum under one load that is pushed sideways, shared in    *)
(* four parts.  One deck sinks with the load, stiffer as it is pressed;    *)
(* one rises under the load it is handed and turns; two are carried off    *)
(* sideways without sinking.                                               *)
EXTENDS UnitLoadAdvance, TLC

MCContacts == {"board", "drum"}

MCPatch == [board |-> [kind |-> "RECTANGULAR_PATCH", center |-> Vec(-2, 1, 0),
                       halfX |-> 2, halfZ |-> 1, outerRadius |-> 0],
            drum  |-> [kind |-> "ANNULAR_CHIME", center |-> Vec(2, 1, 0),
                       halfX |-> 0, halfZ |-> 0, outerRadius |-> 2]]

MCFriction == [board |-> 1, drum |-> 4]

MCApplied == [force |-> Vec(3, -2, 4), moment |-> Vec(2, 1, -5)]

MCAnswer(t, r) == [translation |-> t, rotation |-> r]

MCSinking == [s \in ShareVectors |->
               [c \in Contacts |->
                  MCAnswer(Vec(0, IF s[c] < 3 THEN -2 * s[c] ELSE -2 - s[c], 0), Zero)]]
MCRising  == [s \in ShareVectors |->
               [c \in Contacts |-> MCAnswer(Vec(0, s[c], 1), Vec(0, s[c], 1))]]
MCCarried(z) == [s \in ShareVectors |->
                  [c \in Contacts |-> MCAnswer(Vec(1, 0, z), Vec(0, z, 0))]]

MCDecks == {MCSinking, MCRising, MCCarried(-1), MCCarried(1)}
=============================================================================
