--------------------------- MODULE MCKernelBridge ---------------------------
(* Three nodes: a post on the ground at "a", a member from it to "b", and  *)
(* a deck node "c" above "b".  Each frame varies one thing about them.     *)
EXTENDS KernelBridge, TLC

MCBytewise == <<"a", "b", "c", "beam", "elastic", "ground", "link", "other", "tie", "twin">>

MCZeroDofs == [d \in Dofs |-> 0]
MCMotions  == {MCZeroDofs, [MCZeroDofs EXCEPT ![0] = 1, ![1] = 2, ![2] = 4],
               [MCZeroDofs EXCEPT ![3] = 1, ![4] = 2, ![5] = -1],
               [MCZeroDofs EXCEPT ![1] = -1, ![2] = -3, ![4] = 1]}

MCAll == {"TX", "TY", "TZ", "RX", "RY", "RZ"}

MCSupport(id, node, fixed, stiffness) ==
  [id |-> id, node |-> node, active |-> TRUE, fixed |-> fixed, stiffness |-> stiffness,
   translation |-> Zero, rotation |-> Zero, unitsRight |-> TRUE]

MCGround  == MCSupport("ground", "a", MCAll, Zero)
MCElastic == MCSupport("elastic", "b", {}, Vec(2, 4, 6))

MCBeam == [id |-> "beam", start |-> "a", end |-> "b", localY |-> Vec(1, 1, 0),
           E |-> 12, G |-> 2, torsion |-> 3, released |-> {}]

MCUpright == [id |-> "link", i |-> "b", j |-> "c", k |-> Vec(2, 4, 6)]

MCLoad(kind, at, force) ==
  [kind |-> kind, at |-> at, force |-> force, moment |-> Zero, point |-> Zero,
   from |-> 0, to |-> 4, unitsRight |-> TRUE]

MCPlain(b) ==
  [nodes |-> [a |-> Vec(1, 0, 2), b |-> b, c |-> Plus(b, Vec(0, 2, 0))],
   supports |-> <<MCGround, MCElastic>>,
   elements |-> <<MCBeam>>,
   connectors |-> <<MCUpright>>,
   constraints |-> <<>>,
   loads |-> <<MCLoad("FORCE", "c", Vec(2, -8, 4))>>]

MCAlongX == MCPlain(Vec(5, 0, 2))
MCAlongZ == [MCPlain(Vec(1, 0, -2)) EXCEPT !.elements[1].localY = Vec(0, 1, 3)]

MCSupports ==
  {[MCAlongX EXCEPT !.supports[2] = s] : s \in
     {[MCElastic EXCEPT !.active = FALSE],
      MCSupport("elastic", "b", {"TY", "RX"}, Vec(0, 0, 6)),
      MCSupport("elastic", "b", {"TY"}, Vec(0, 4, 0)),
      [MCSupport("elastic", "b", {"TX", "TZ"}, Vec(0, 4, 0)) EXCEPT !.translation = Vec(0, 0, 3)],
      [MCSupport("elastic", "b", {"RZ", "RY"}, Vec(2, 4, 6)) EXCEPT !.rotation = Vec(0, 2, 3)],
      [MCElastic EXCEPT !.translation = Vec(0, 1, 0)],
      [MCElastic EXCEPT !.unitsRight = FALSE],
      [MCElastic EXCEPT !.id = "ground"]}}
  \cup {[MCAlongX EXCEPT !.supports = Append(@, MCSupport("twin", "b", {"TX"}, Zero))]}

MCTie(kind, dofs) == [id |-> "tie", kind |-> kind, master |-> "b", slave |-> "c", dofs |-> dofs]
MCEccentric(releases) ==
  [id |-> "tie", kind |-> "ECCENTRIC_CONNECTION", master |-> "b", slave |-> "c",
   offset |-> Vec(1, 2, -1), releases |-> releases]
MCTerm(node, dof, coefficient) == [node |-> node, dof |-> dof, coefficient |-> coefficient]
MCMpc(terms) == [id |-> "tie", kind |-> "LINEAR_MPC", terms |-> terms]

MCTies == {MCTie("RIGID_LINK", MCAll), MCTie("RIGID_LINK", {"TX", "TZ"}),
           MCTie("EQUAL_DOF", {"TY", "RZ"}), MCTie("EQUAL_DOF", {"TZ"}),
           MCEccentric({}), MCEccentric({"TZ", "RZ"}), MCEccentric({"TY", "RX"}),
           MCMpc(<<MCTerm("b", "TZ", 1), MCTerm("c", "TZ", -1)>>),
           MCMpc(<<MCTerm("b", "RX", -1), MCTerm("c", "TY", 1)>>)}
MCConstrained ==
  {[MCAlongX EXCEPT !.constraints = <<t>>] : t \in MCTies}
  \cup {[MCAlongX EXCEPT !.constraints =
           <<t, [MCTie("EQUAL_DOF", {"TY", "RZ"}) EXCEPT !.id = "other"]>>] :
          t \in {MCTie("RIGID_LINK", {"TX", "TY"}), MCEccentric({"TY", "TX"})}}

MCLoaded ==
  {[f EXCEPT !.loads = <<l>>] :
     f \in {MCAlongX, MCAlongZ},
     l \in {[MCLoad("MOMENT", "b", Zero) EXCEPT !.moment = Vec(2, 4, -6)],
            [MCLoad("FORCE", "c", Vec(0, -8, 0)) EXCEPT !.unitsRight = FALSE],
            MCLoad("DISTRIBUTED", "beam", Vec(0, -4, 0)),
            [MCLoad("DISTRIBUTED", "beam", Vec(0, -2, 0)) EXCEPT !.from = 2],
            MCLoad("DISTRIBUTED", "beam", Vec(2, -2, 2)),
            [MCLoad("POINT", "beam", Vec(0, -2, 0)) EXCEPT !.from = 3, !.point = Vec(4, 0, 2)],
            [MCLoad("POINT", "beam", Vec(2, -2, 0)) EXCEPT !.from = 3, !.point = Vec(1, 0, -1)],
            [MCLoad("POINT", "beam", Vec(0, -2, 0)) EXCEPT !.from = 1, !.point = Vec(2, 0, 2),
                                                           !.moment = Vec(0, 0, 2)]}}

MCMembers ==
  {[MCAlongX EXCEPT !.elements[1] = e] : e \in
     {[MCBeam EXCEPT !.E = 5, !.G = 3], [MCBeam EXCEPT !.released = {"TX"}],
      [MCBeam EXCEPT !.end = "a"], [MCBeam EXCEPT !.localY = Vec(1, 0, 0)]}}

\* What a request names and does not have; an inactive support may.
MCDangling ==
  {[MCAlongX EXCEPT !.supports[2].node = "nowhere"],
   [MCAlongX EXCEPT !.supports[2].node = "nowhere", !.supports[2].active = FALSE],
   [MCAlongX EXCEPT !.elements[1].end = "nowhere"],
   [MCAlongX EXCEPT !.connectors[1].i = "nowhere"],
   [MCAlongX EXCEPT !.loads = <<MCLoad("FORCE", "nowhere", Vec(0, -8, 0))>>],
   [MCAlongX EXCEPT !.loads = <<MCLoad("DISTRIBUTED", "nothing", Vec(0, -4, 0))>>],
   [MCAlongX EXCEPT !.constraints = <<[MCTie("EQUAL_DOF", {"TZ"}) EXCEPT !.slave = "nowhere"]>>]}

MCFrames == {MCAlongX, MCAlongZ} \cup MCSupports \cup MCConstrained \cup MCLoaded \cup MCMembers
            \cup MCDangling

\* Multi-point constraints that tie a z motion to a motion along another axis.
MCMixedFrames ==
  {[MCAlongX EXCEPT !.constraints = <<MCMpc(t)>>] : t \in
     {<<MCTerm("b", "TX", 1), MCTerm("c", "TZ", -1)>>,
      <<MCTerm("b", "TX", 1), MCTerm("c", "TX", -1)>>}}

MCStationAsks == {<<"beam">>, <<"beam", "beam">>, <<"other">>}
=============================================================================
