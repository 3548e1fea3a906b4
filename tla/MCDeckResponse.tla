--------------------------- MODULE MCDeckResponse ---------------------------
(* A deck of two boards along x, four long, two wide and six deep, with a  *)
(* gap of two between them; its four nodes are held, and moved as one body.*)
EXTENDS DeckResponse, MCKernelBridge

MCDeckBytewise ==
  <<"a", "b", "beam", "bearing:p0end", "bearing:p0start", "bearing:p1end", "bearing:p1start",
    "bearing:p2end", "bearing:p2start", "bearing:p3end", "bearing:p3start", "board1", "board2",
    "bearing:q0end", "bearing:q0start", "c", "elastic", "face:p", "face:q", "ground",
    "hold1", "hold2", "hold3", "hold4", "link", "n1", "n2", "n3", "n4",
    "on:bearing:p0end", "on:bearing:p0start", "on:bearing:p1end", "on:bearing:p1start",
    "on:bearing:p2end", "on:bearing:p2start", "on:bearing:p3end", "on:bearing:p3start",
    "on:bearing:q0end", "on:bearing:q0start",
    "on:seat:p0end", "on:seat:p0start", "on:seat:p1end", "on:seat:p1start",
    "on:seat:p2end", "on:seat:p2start", "on:seat:p3end", "on:seat:p3start",
    "on:seat:q0end", "on:seat:q0start", "other",
    "seat:p0end", "seat:p0start", "seat:p1end", "seat:p1start", "seat:p2end", "seat:p2start",
    "seat:p3end", "seat:p3start", "seat:q0end", "seat:q0start",
    "spring:bearing:p0end", "spring:bearing:p0start", "spring:bearing:p1end",
    "spring:bearing:p1start", "spring:bearing:p2end", "spring:bearing:p2start",
    "spring:bearing:p3end", "spring:bearing:p3start", "spring:bearing:q0end",
    "spring:bearing:q0start", "tie", "twin", "under:p", "under:q">>

MCBoard(id, start, end) ==
  [id |-> id, start |-> start, end |-> end, localY |-> Vec(0, 1, 0), E |-> 12, G |-> 2,
   torsion |-> 3, released |-> {}, area |-> 12, secondMoment |-> 4,
   member |-> "TOP_DECKBOARD", runAxis |-> "X"]

MCDeckNodes == [n1 |-> Vec(0, 4, 0), n2 |-> Vec(4, 4, 0), n3 |-> Vec(0, 4, 4), n4 |-> Vec(4, 4, 4)]

MCHeld(id, node, u) ==
  [MCSupport(id, node, MCAll, Zero) EXCEPT
     !.translation = RigidMotion(Zero, u, MCDeckNodes[node]).translation, !.rotation = u.rotation]

MCDeck(u) ==
  [nodes |-> MCDeckNodes,
   supports |-> <<MCHeld("hold1", "n1", u), MCHeld("hold2", "n2", u),
                  MCHeld("hold3", "n3", u), MCHeld("hold4", "n4", u)>>,
   elements |-> <<MCBoard("board1", "n1", "n2"), MCBoard("board2", "n3", "n4")>>,
   connectors |-> <<>>, constraints |-> <<>>, loads |-> <<>>]

MCDeckMotions == {[translation |-> Vec(1, -2, 3), rotation |-> Zero],
                  [translation |-> Zero, rotation |-> Vec(1, 2, -3)]}

MCDecks == {MCDeck(u) : u \in MCDeckMotions}
MCDeckFrames == MCFrames \cup MCDecks

\* Forces and stiffnesses divide by every share a sample of these can have.
MCContact(kind, center, halfX, halfZ) ==
  [id |-> "p", kind |-> kind, center |-> center, halfX |-> halfX, halfZ |-> halfZ,
   turned |-> FALSE, samples |-> <<>>, inner |-> 2, outer |-> 2,
   force |-> Vec(288, -576, 288), freeMoment |-> Zero, stiffness |-> 576]

MCSample(x, z, weight) == [x |-> x, z |-> z, raw |-> weight]

MCPoint == MCContact("POINT", Vec(1, 7, 1), 1, 1)
MCPatch == MCContact("RECTANGULAR_PATCH", Vec(2, 7, 2), 1, 2)
MCBand  == [MCContact("ORIENTATION_BAND", Vec(2, 8, 3), 2, 1) EXCEPT !.turned = TRUE]
MCField == MCContact("PRESSURE_FIELD", Vec(2, 7, 2), 2, 3)

MCSingles ==
  {MCPoint, MCPatch, MCBand,
   MCContact("POINT", Vec(2, 7, 2), 1, 1),
   MCContact("POINT", Vec(4, 7, 0), 1, 1),
   [MCPoint EXCEPT !.freeMoment = Vec(288, 288, -288)],
   [MCPatch EXCEPT !.force = Vec(288, 0, 0)],
   [MCPatch EXCEPT !.force = Vec(288, 0, 0), !.freeMoment = Vec(0, 288, 0)],
   [MCPatch EXCEPT !.force = Vec(288, 0, 0), !.freeMoment = Vec(288, 0, 0)],
   [MCPatch EXCEPT !.force = Vec(0, 288, 0)],
   [MCField EXCEPT !.samples = <<MCSample(1, 0, 1), MCSample(3, 4, 1)>>],
   [MCField EXCEPT !.samples = <<MCSample(1, 0, 1), MCSample(3, 5, 2)>>],
   [MCField EXCEPT !.samples = <<MCSample(-1, 2, 2), MCSample(3, 4, 1), MCSample(6, 7, 3)>>],
   [MCField EXCEPT !.samples = <<MCSample(-3, 2, 2), MCSample(7, 2, 1)>>],
   [MCContact("ANNULAR_CHIME", Vec(2, 7, 2), 1, 1) EXCEPT !.freeMoment = Vec(0, 288, 288)]}

MCLoadings ==
  {<<c>> : c \in MCSingles}
  \cup {<<MCPatch, [MCPoint EXCEPT !.id = "q", !.force = Vec(-576, -288, 0)]>>,
        <<[MCPoint EXCEPT !.force = Vec(0, -288, 0), !.freeMoment = Vec(0, 0, 288)],
          [MCPoint EXCEPT !.id = "q", !.force = Vec(0, 288, 0)]>>}

MCRing == <<Vec(1, 0, 0), Vec(0, 0, 1), Vec(-1, 0, 0), Vec(0, 0, -1)>>
=============================================================================
