------------------------- MODULE MCRigidSettlement -------------------------
(* Four contacts: a square, a triangle around a fourth, a row with one off *)
(* it, and a row; soft and stiff, deck flat or sunk.  Either no compliance *)
(* is measured yet and the load weighs nothing, stands, leans or           *)
(* overturns; or some is, and the forces handed in are those of a body     *)
(* standing at some descent and tilt, or are shared evenly.                *)
EXTENDS RigidSettlement

MCSpots == { << << -1, -1 >>, << 1, -1 >>, << -1, 1 >>, << 1, 1 >> >>,
             << << -1, -1 >>, << 1, -1 >>, << 0, 1 >>, << 0, 0 >> >>,
             << << -1, 0 >>, << 0, 0 >>, << 1, 0 >>, << 1, 1 >> >>,
             << << -1, 0 >>, << 0, 0 >>, << 1, 0 >>, << 2, 0 >> >> }

MCUnmeasured ==
  [stiffness  : [Contacts -> {1, 2}],
   deck       : { << 0, 0, 0, 0 >>, << 2, 0, 0, 0 >>, << 0, 2, 2, 0 >>, << 2, 2, 0, 2 >> },
   compliance : {[c \in Contacts |-> 0]},
   current    : {[c \in Contacts |-> 1]},
   spot       : MCSpots,
   weight     : {0, 2},
   momentX    : {-3, 0, 1},
   momentZ    : {-3, 0, 1}]

MCRestPlanes == { [w |-> 2, wx |-> 0, wz |-> 0, den |-> 1],
                  [w |-> 2, wx |-> 1, wz |-> 0, den |-> 1],
                  [w |-> 1, wx |-> 1, wz |-> -1, den |-> 1] }

(* What a body resting at plane p presses on the contacts.                 *)
MCPressed(k, deck, spot, p) ==
  [c \in Contacts |->
     k[c] * Max({0, p.w + p.wx * spot[c][1] + p.wz * spot[c][2] - deck[c]})]

MCMeasured ==
  UNION {
    LET pressed == MCPressed(k, deck, spot, plane)
        total   == SumFunction(pressed)
    IN  { [stiffness  |-> k,
           deck       |-> deck,
           compliance |-> compliance,
           current    |-> current,
           spot       |-> spot,
           weight     |-> total,
           momentX    |-> SumFunction([c \in Contacts |-> pressed[c] * spot[c][2]]),
           momentZ    |-> -SumFunction([c \in Contacts |-> pressed[c] * spot[c][1]])] :
          current \in {pressed, [c \in Contacts |-> total \div NumContacts]} } :
    k \in [Contacts -> {1, 2}], deck \in { << 0, 0, 0, 0 >>, << 1, 0, 0, 1 >>, << 0, 1, 1, 0 >> }, spot \in MCSpots,
    plane \in MCRestPlanes,
    compliance \in { << 1, 0, 0, 0 >>, << 0, 1, 1, 1 >> } }

MCRequests == MCUnmeasured \cup MCMeasured
=============================================================================
