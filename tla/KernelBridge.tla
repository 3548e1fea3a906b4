---------------------------- MODULE KernelBridge ----------------------------
(***************************************************************************)
(* One static solve through the kernel bridge                              *)
(* (crates/stabileo-pallet/src/kernel_bridge): an AnalysisFrame, named and *)
(* in SI and with y up, is compiled into the kernel's numbered model in    *)
(* kilo-units with z up; the kernel answers; the answer is read back into  *)
(* the frame's names, units and axes, audited against the loads, or        *)
(* refused; stations are recovered from the same answer.                   *)
(*                                                                         *)
(* Numbers are exact integers.  Kilo stands for the thousand between the   *)
(* two unit systems, RelDen for the reciprocal of the audit's relative     *)
(* tolerance; its absolute floors (a millinewton, on the frame's length)   *)
(* lie below one unit.  Absent optional vectors and stiffnesses are zero,  *)
(* which is how both sides read them.  The kernel is external: the Kernel  *)
(* section states what it makes of a compiled model, and how it may fail.  *)
(***************************************************************************)
EXTENDS UnitLoadCriteria, Sequences, SequencesExt

CONSTANTS
  Frames,     \* the analysis frames the application asks about
  Bytewise,   \* every stable id that occurs, in bytewise order
  Motions,    \* the motions a node the model leaves free may turn out to have
  StationAsks,\* the station requests that may follow a solve: sequences of element ids
  Kilo, RelDen

ASSUME KiloAssumption   == Kilo \in Nat \ {0}
ASSUME RelDenAssumption == RelDen \in Nat \ {0}

VARIABLES
  frame,      \* the request
  stage,      \* frame, compiled, solved, answered, recovered or refused;
              \* contacts, while a deck's contacts are not yet on its frame
  compiled,   \* the kernel's model
  raw,        \* what the kernel returned
  answer      \* the KernelResult, or the code of the refusal

vars == <<frame, stage, compiled, raw, answer>>

Dofs == 0..5

-----------------------------------------------------------------------------
(* coordinates.rs: the frame's up-axis is the kernel's z. *)
Rotate(v)        == Vec(v.x, -v.z, v.y)
InverseRotate(v) == Vec(v.x, v.z, -v.y)

SdkDof == [TX |-> 0, TY |-> 2, TZ |-> 1, RX |-> 3, RY |-> 5, RZ |-> 4]

\* Unit vectors, for vectors along one axis of the frame.
Unit(v) ==
  LET sign(n) == IF n > 0 THEN 1 ELSE IF n < 0 THEN -1 ELSE 0
  IN  Vec(sign(v.x), sign(v.y), sign(v.z))

Dot(a, b) == a.x * b.x + a.y * b.y + a.z * b.z

\* to_stabileo_local_triad, before and after the rotation.
FrameTriad(axis, localY) ==
  LET x == Unit(axis)
      y == Unit(Minus(localY, Times(Dot(localY, x), x)))
  IN  [x |-> x, y |-> y, z |-> Cross(x, y)]
LocalTriad(axis, localY) ==
  LET t == FrameTriad(axis, localY)
  IN  [x |-> Rotate(t.x), y |-> Rotate(t.y), z |-> Rotate(t.z)]

Combine(triad, v) == Plus(Plus(Times(v.x, triad.x), Times(v.y, triad.y)), Times(v.z, triad.z))
ProjectLocal(v, triad) == Vec(Dot(v, triad.x), Dot(v, triad.y), Dot(v, triad.z))

\* units.rs
ToSdk(v)     == Vec(v.x \div Kilo, v.y \div Kilo, v.z \div Kilo)
ToSolver(v)  == Times(Kilo, v)

\* The kernel's six numbers at a node, from a translation and a rotation.
Six(t, r)      == [d \in Dofs |-> <<t.x, t.y, t.z, r.x, r.y, r.z>>[d + 1]]
Translation(s) == Vec(s[0], s[1], s[2])
Rotation(s)    == Vec(s[3], s[4], s[5])

-----------------------------------------------------------------------------
(* id_map.rs: ids sorted bytewise and numbered from one. *)
IdsOf(entities)   == {entities[n].id : n \in DOMAIN entities}
Duplicated(entities) == Cardinality(IdsOf(entities)) # Len(entities)
Place             == [id \in Range(Bytewise) |-> CHOOSE n \in DOMAIN Bytewise : Bytewise[n] = id]
Numeric(ids, id)  == Cardinality({other \in ids : Place[other] <= Place[id]})
Sorted(ids)       == [n \in 1..Cardinality(ids) |-> CHOOSE id \in ids : Numeric(ids, id) = n]

\* What a sequence has at a set of its positions, in its order.
Kept(seq, positions) ==
  [n \in 1..Cardinality(positions) |->
     seq[CHOOSE k \in positions : Cardinality({j \in positions : j <= k}) = n]]

NodeIds      == DOMAIN frame.nodes
NodeNo(id)   == Numeric(NodeIds, id)
SupportNo(s) == Numeric(IdsOf(frame.supports), s.id)
ElementNo(e) == Numeric(IdsOf(frame.elements), e.id)

ElementOf(id) == CHOOSE e \in Range(frame.elements) : e.id = id
Delta(e)      == Minus(frame.nodes[e.end], frame.nodes[e.start])
Length(e)     == LET d == Delta(e) IN Dot(d, Unit(d))
Along(e, q)   == Plus(frame.nodes[e.start], Times((q * Length(e)) \div Quarters, Unit(Delta(e))))

-----------------------------------------------------------------------------
(* What the schema guarantees of a request; and, numbers being exact, that *)
(* nothing the bridge divides leaves a rest: forces and stiffnesses are    *)
(* whole kilo-units, elements and their local y lie along axes, and a      *)
(* loaded length has its ends and its middle at whole positions.  What a   *)
(* request names need not exist; that is for compile to refuse.            *)
Vectors    == [x : Int, y : Int, z : Int]
InKilos(v) == v \in Vectors /\ v.x % Kilo = 0 /\ v.y % Kilo = 0 /\ v.z % Kilo = 0
Axial(v)   == (v.y = 0 /\ v.z = 0) \/ (v.x = 0 /\ v.z = 0) \/ (v.x = 0 /\ v.y = 0)
IsList(s)  == s \in Seq(Range(s))

SupportFormed(s) ==
  /\ s.id \in Range(Bytewise) /\ s.active \in BOOLEAN /\ s.fixed \subseteq DOMAIN SdkDof
  /\ InKilos(s.stiffness) /\ s.translation \in Vectors /\ s.rotation \in Vectors

ElementFormed(f, e) ==
  LET delta == Minus(f.nodes[e.end], f.nodes[e.start])
  IN  /\ e.id \in Range(Bytewise) /\ e.localY \in Vectors
      /\ {e.start, e.end} \subseteq DOMAIN f.nodes =>
           /\ Axial(delta)
           /\ delta # Zero => Axial(Minus(e.localY, Times(Dot(e.localY, Unit(delta)), Unit(delta))))

\* The kernel has to solve a multi-point constraint for one of its terms.
ConstraintFormed(c) ==
  IF c.kind = "LINEAR_MPC"
    THEN /\ IsList(c.terms)
         /\ \A t \in Range(c.terms) : t.dof \in DOMAIN SdkDof /\ t.coefficient \in Int
         /\ \E t \in Range(c.terms) : t.coefficient # 0
    ELSE /\ c.kind \in {"RIGID_LINK", "EQUAL_DOF", "ECCENTRIC_CONNECTION"}
         /\ IF c.kind = "ECCENTRIC_CONNECTION"
              THEN c.offset \in Vectors /\ c.releases \subseteq DOMAIN SdkDof
              ELSE c.dofs \subseteq DOMAIN SdkDof

LoadFormed(f, l) ==
  /\ InKilos(l.force) /\ InKilos(l.moment)
  /\ l.kind \in {"FORCE", "MOMENT", "POINT", "DISTRIBUTED"}
  /\ (l.kind = "FORCE" => l.moment = Zero) /\ (l.kind = "MOMENT" => l.force = Zero)
  /\ l.kind \in {"POINT", "DISTRIBUTED"} => l.from \in Int /\ l.to \in Int
  /\ l.kind = "DISTRIBUTED" =>
       \A e \in Range(f.elements) :
         LET delta == Minus(f.nodes[e.end], f.nodes[e.start])
             length == Dot(delta, Unit(delta))
         IN  e.id = l.at /\ {e.start, e.end} \subseteq DOMAIN f.nodes =>
               /\ (l.from * length) % Quarters = 0 /\ (l.to * length) % Quarters = 0
               /\ ((l.from + l.to) * length) % (2 * Quarters) = 0

WellFormed(f) ==
  /\ DOMAIN f = {"nodes", "supports", "elements", "connectors", "constraints", "loads"}
  /\ DOMAIN f.nodes \subseteq Range(Bytewise) /\ \A id \in DOMAIN f.nodes : f.nodes[id] \in Vectors
  /\ IsList(f.supports) /\ \A s \in Range(f.supports) : SupportFormed(s)
  /\ IsList(f.elements) /\ \A e \in Range(f.elements) : ElementFormed(f, e)
  /\ IsList(f.connectors) /\ \A c \in Range(f.connectors) : c.k \in Vectors
  /\ IsList(f.constraints) /\ \A c \in Range(f.constraints) : ConstraintFormed(c)
  /\ IsList(f.loads) /\ \A l \in Range(f.loads) : LoadFormed(f, l)

ASSUME BytewiseAssumption == IsList(Bytewise)
ASSUME MotionsAssumption  == Motions \subseteq [Dofs -> Int]
ASSUME FramesAssumption   == \A f \in Frames : WellFormed(f)

-----------------------------------------------------------------------------
(* compile.rs: one operator per part of the model. *)
CompiledNodes == LET sorted == Sorted(NodeIds)
                 IN  [n \in DOMAIN sorted |-> Rotate(frame.nodes[sorted[n]])]

\* The kernel rebuilds G from E and a Poisson ratio of 0.3, that is E * 10/26;
\* the G-carrying section terms are scaled by what that misses, here as a
\* numerator over a denominator.
ModuliRefused(e) == e.E <= 0 \/ e.G <= 0 \/ e.E < 2 * e.G \/ e.E > 30 * e.G
ScaledSection(e) == [num |-> e.torsion * e.G * 26, den |-> e.E * 10]

CompiledElements ==
  [e \in Range(frame.elements) |->
     LET t == LocalTriad(Delta(e), e.localY)
     IN  [no |-> ElementNo(e), i |-> NodeNo(e.start), j |-> NodeNo(e.end),
          y |-> t.y, E |-> e.E, section |-> ScaledSection(e)]]

\* Fixity and stiffness follow their axis to its new name, unsigned; a
\* prescribed motion is a vector and is rotated.
FixedDofs(s) == {SdkDof[d] : d \in s.fixed}
\* A mutant: the stiffness is rotated as if it were a vector.
SpringsRotated(s) == Six(ToSdk(Rotate(s.stiffness)), Zero)

Springs(s) ==
  LET k == Vec(s.stiffness.x, s.stiffness.z, s.stiffness.y)
  IN  Six(ToSdk(k), Zero)

Prescribed(s) == Six(Rotate(s.translation), Rotate(s.rotation))

SupportRefused(s) ==
  \/ ~s.unitsRight
  \/ \E d \in Dofs : Prescribed(s)[d] # 0 /\ d \notin FixedDofs(s)
  \/ \E d \in FixedDofs(s) : Springs(s)[d] # 0

ActiveSupports ==
  Kept(frame.supports, {k \in DOMAIN frame.supports : frame.supports[k].active})

CompiledSupports ==
  [n \in DOMAIN ActiveSupports |->
     LET s == ActiveSupports[n]
     IN  [no |-> SupportNo(s), node |-> NodeNo(s.node), fixed |-> FixedDofs(s),
          springs |-> Springs(s), prescribed |-> Prescribed(s)]]

\* A mutant: the releases are passed in the frame's order.
ReleaseOrderOfTheFrame == <<"TX", "TY", "TZ", "RX", "RY", "RZ">>

\* The releases of an eccentric connection, in the kernel's order of dofs.
ReleaseOrder == <<"TX", "TZ", "TY", "RX", "RZ", "RY">>

CompiledConstraint(c) ==
  CASE c.kind = "LINEAR_MPC" ->
         [kind |-> "MPC",
          terms |-> [n \in DOMAIN c.terms |->
                       [node |-> NodeNo(c.terms[n].node), dof |-> SdkDof[c.terms[n].dof],
                        coefficient |-> c.terms[n].coefficient]]]
    [] c.kind = "ECCENTRIC_CONNECTION" ->
         [kind |-> "ECCENTRIC", master |-> NodeNo(c.master), slave |-> NodeNo(c.slave),
          offset |-> Rotate(c.offset),
          dofs |-> {d \in Dofs : ReleaseOrder[d + 1] \notin c.releases}]
    [] OTHER ->
         [kind |-> c.kind, master |-> NodeNo(c.master), slave |-> NodeNo(c.slave),
          dofs |-> {SdkDof[d] : d \in c.dofs}]

CompiledConstraints ==
  [n \in DOMAIN frame.constraints |-> CompiledConstraint(frame.constraints[n])]

\* A connector's stiffnesses are local, and cross no basis.
CompiledConnectors ==
  [n \in DOMAIN frame.connectors |->
     LET c == frame.connectors[n]
     IN  [i |-> NodeNo(c.i), j |-> NodeNo(c.j), k |-> ToSdk(c.k)]]

LocalForce(l) == LET e == ElementOf(l.at)
                 IN  ProjectLocal(Rotate(l.force), LocalTriad(Delta(e), e.localY))

\* A load on an element: at its stated point, without a moment, none of it axial.
LoadRefused(l) ==
  \/ l.kind = "POINT" /\ (l.point # Along(ElementOf(l.at), l.from) \/ l.moment # Zero)
  \/ LocalForce(l).x # 0

\* A position along the element, in metres.
Metres(l, q) == (q * Length(ElementOf(l.at))) \div Quarters

CompiledLoad(l) ==
  CASE l.kind = "FORCE"  -> [kind |-> "NODAL", node |-> NodeNo(l.at),
                             force |-> ToSdk(Rotate(l.force)), moment |-> Zero]
    [] l.kind = "MOMENT" -> [kind |-> "NODAL", node |-> NodeNo(l.at),
                             force |-> Zero, moment |-> ToSdk(Rotate(l.moment))]
    [] l.kind = "POINT"  -> [kind |-> "POINT", element |-> ElementNo(ElementOf(l.at)),
                             a |-> Metres(l, l.from),
                             p |-> ToSdk(LocalForce(l))]
    [] OTHER             -> [kind |-> "DISTRIBUTED", element |-> ElementNo(ElementOf(l.at)),
                             a |-> Metres(l, l.from), b |-> Metres(l, l.to),
                             p |-> ToSdk(LocalForce(l))]

\* calculate_resultant: about the origin, from the frame itself.
Applied ==
  ResultantOf([n \in DOMAIN frame.loads |->
    LET l == frame.loads[n]
        e == ElementOf(l.at)
    IN  CASE l.kind = "FORCE"  -> [point |-> frame.nodes[l.at], force |-> l.force, freeMoment |-> Zero]
          [] l.kind = "MOMENT" -> [point |-> Zero, force |-> Zero, freeMoment |-> l.moment]
          [] l.kind = "POINT"  -> [point |-> l.point, force |-> l.force, freeMoment |-> l.moment]
          [] OTHER ->
               [point |-> Plus(frame.nodes[e.start],
                               Times(((l.from + l.to) * Length(e)) \div (2 * Quarters), Unit(Delta(e)))),
                force |-> Times(((l.to - l.from) * Length(e)) \div Quarters, l.force),
                freeMoment |-> Zero]])

NodesRefusal(ids) == IF ids \subseteq NodeIds THEN "NONE" ELSE "UNKNOWN_STABLE_ID"

\* What each part of a request is refused with.  Members are looked up first,
\* then what names them; a load looks its member's ends up again.
Ended(e) == {e.start, e.end} \subseteq NodeIds
NodesOf(c) == IF c.kind = "LINEAR_MPC" THEN {t.node : t \in Range(c.terms)} ELSE {c.master, c.slave}

TriadRefusal(e) ==
  IF ~Ended(e) THEN "INPUT_INVALID"
  ELSE IF Delta(e) = Zero THEN "MODEL_UNSUPPORTED"
  ELSE IF FrameTriad(Delta(e), e.localY).y = Zero THEN "DEGENERATE_AXIS" ELSE "NONE"
SupportRefusal(s) ==
  IF SupportRefused(s) THEN "MODEL_UNSUPPORTED" ELSE NodesRefusal({s.node})
LoadRefusal(l) ==
  IF l.kind \in {"FORCE", "MOMENT"}
    THEN IF ~l.unitsRight THEN "MODEL_UNSUPPORTED" ELSE NodesRefusal({l.at})
    ELSE IF l.at \notin IdsOf(frame.elements) \/ ~Ended(ElementOf(l.at)) THEN "INPUT_INVALID"
    ELSE IF LoadRefused(l) THEN "MODEL_UNSUPPORTED" ELSE "NONE"

\* The first part, in the request's order, that is refused.
FirstRefusal(refusals) ==
  LET refused == {n \in DOMAIN refusals : refusals[n] # "NONE"}
  IN  IF refused = {} THEN "NONE"
      ELSE refusals[CHOOSE n \in refused : \A m \in refused : n <= m]

CompileRefusal ==
  LET released(e) == e.released \cap {"TX", "TY", "TZ"} # {}
      triad      == FirstRefusal([n \in DOMAIN frame.elements |-> TriadRefusal(frame.elements[n])])
      constraint == NodesRefusal(UNION {NodesOf(c) : c \in Range(frame.constraints)})
      support    == FirstRefusal([n \in DOMAIN ActiveSupports |-> SupportRefusal(ActiveSupports[n])])
      load       == FirstRefusal([n \in DOMAIN frame.loads |-> LoadRefusal(frame.loads[n])])
      connector  == NodesRefusal(UNION {{c.i, c.j} : c \in Range(frame.connectors)})
  IN  CASE \/ Duplicated(frame.elements) \/ Duplicated(frame.supports)
           \/ Duplicated(frame.connectors) \/ Duplicated(frame.constraints) -> "DUPLICATE_STABLE_ID"
        [] triad # "NONE"      -> triad
        [] constraint # "NONE" -> constraint
        [] \E e \in Range(frame.elements) : ModuliRefused(e) \/ released(e) -> "MODEL_UNSUPPORTED"
        [] support # "NONE"    -> support
        [] load # "NONE"       -> load
        [] connector # "NONE"  -> connector
        [] OTHER               -> "NONE"

Compile ==
  /\ stage = "frame"
  /\ IF CompileRefusal # "NONE"
       THEN stage' = "refused" /\ answer' = CompileRefusal /\ UNCHANGED compiled
       ELSE /\ stage' = "compiled"
            /\ compiled' = [nodeIds |-> Sorted(NodeIds), nodes |-> CompiledNodes, elements |-> CompiledElements,
                            supports |-> CompiledSupports, constraints |-> CompiledConstraints,
                            connectors |-> CompiledConnectors,
                            loads |-> [n \in DOMAIN frame.loads |-> CompiledLoad(frame.loads[n])],
                            applied |-> Applied]
            /\ UNCHANGED answer
  /\ UNCHANGED <<frame, raw>>

-----------------------------------------------------------------------------
(* The kernel (external).  A restrained dof stands where it is prescribed, *)
(* a dof a constraint eliminates follows its masters, every other dof may  *)
(* turn out anywhere in Motions.  A support reacts on its free axes with   *)
(* its springs; one that holds all six dofs carries whatever balances the  *)
(* loads as the kernel understands them, another one none of it.           *)
SupportsAt(n)   == {s \in Range(compiled.supports) : s.node = n}
Restrained(n)   == UNION {s.fixed : s \in SupportsAt(n)}
PrescribedAt(n, d) == (CHOOSE s \in SupportsAt(n) : d \in s.fixed).prescribed[d]

\* The dependent term of an MPC is the last of those with the largest coefficient.
Magnitude(n) == IF n < 0 THEN -n ELSE n
DependentTerm(terms) ==
  CHOOSE n \in DOMAIN terms :
    \A m \in DOMAIN terms :
      LET c(i) == Magnitude(terms[i].coefficient)
      IN  c(m) < c(n) \/ (c(m) = c(n) /\ m <= n)

Eliminates(c) ==
  IF c.kind = "MPC"
    THEN LET t == c.terms[DependentTerm(c.terms)] IN {<<t.node, t.dof>>}
    ELSE {<<c.slave, d>> : d \in c.dofs}

Owners(n, d) == {k \in DOMAIN compiled.constraints : <<n, d>> \in Eliminates(compiled.constraints[k])}
Dependent(n, d) == d \notin Restrained(n) /\ Owners(n, d) # {}
Owner(n, d)     == Max(Owners(n, d))

Offset(c) == IF c.kind = "ECCENTRIC" THEN c.offset
             ELSE Minus(compiled.nodes[c.slave], compiled.nodes[c.master])

Followed(c, d, u) ==
  CASE c.kind = "MPC" ->
         LET at == DependentTerm(c.terms)
             share(k) == IF k = at THEN 0
                         ELSE c.terms[k].coefficient * u[c.terms[k].node][c.terms[k].dof]
             sum == SumFunction([k \in DOMAIN c.terms |-> share(k)])
             own == c.terms[at].coefficient
         IN  (IF own < 0 THEN sum ELSE -sum) \div Magnitude(own)
    [] c.kind = "EQUAL_DOF" -> u[c.master][d]
    [] OTHER ->
         LET m == u[c.master]
         IN  Six(Plus(Translation(m), Cross(Rotation(m), Offset(c))), Rotation(m))[d]

Displacements ==
  LET nodes == DOMAIN compiled.nodes
      held(free) == [n \in nodes |-> [d \in Dofs |->
                       IF d \in Restrained(n) THEN PrescribedAt(n, d) ELSE free[n][d]]]
      whole(u) == [n \in nodes |-> [d \in Dofs |->
                     IF Dependent(n, d) THEN Followed(compiled.constraints[Owner(n, d)], d, u)
                     ELSE u[n][d]]]
      loose == {n \in nodes : \E d \in Dofs : d \notin Restrained(n) /\ ~Dependent(n, d)}
      still == [d \in Dofs |-> 0]
  IN  {whole(held([n \in nodes |-> IF n \in loose THEN free[n] ELSE still])) :
         free \in [loose -> Motions]}

KernelAxis(e) == Unit(Minus(compiled.nodes[e.j], compiled.nodes[e.i]))
Placed(l) ==
  IF l.kind = "NODAL"
    THEN [point |-> compiled.nodes[l.node], force |-> l.force, freeMoment |-> l.moment]
    ELSE LET e == CHOOSE x \in Range(compiled.elements) : x.no = l.element
             axis == KernelAxis(e)
             f == Combine([x |-> axis, y |-> e.y, z |-> Cross(axis, e.y)], l.p)
             at(a) == Plus(compiled.nodes[e.i], Times(a, axis))
         IN  IF l.kind = "POINT"
               THEN [point |-> at(l.a), force |-> f, freeMoment |-> Zero]
               \* the middle of the loaded length, which is doubled to stay whole
               ELSE [point |-> at((l.a + l.b) \div 2), force |-> Times(l.b - l.a, f),
                     freeMoment |-> Zero]
Sent == ResultantOf([n \in DOMAIN compiled.loads |-> Placed(compiled.loads[n])])

Sprung(s, u) == [d \in Dofs |-> IF d \in s.fixed THEN 0 ELSE -s.springs[d] * u[s.node][d]]
\* The first support that holds all six dofs.
Carrier == CHOOSE n \in DOMAIN compiled.supports :
             /\ compiled.supports[n].fixed = Dofs
             /\ \A m \in 1..(n - 1) : compiled.supports[m].fixed # Dofs
Reactions(u) ==
  LET given(s) == [point |-> compiled.nodes[s.node],
                   force |-> Translation(Sprung(s, u)), freeMoment |-> Rotation(Sprung(s, u))]
      rest == ResultantOf([n \in DOMAIN compiled.supports |-> given(compiled.supports[n])])
      force == Times(-1, Plus(rest.force, Sent.force))
      moment(s) == Minus(Times(-1, Plus(rest.moment, Sent.moment)),
                         Cross(compiled.nodes[s.node], force))
  IN  [n \in DOMAIN compiled.supports |->
         LET s == compiled.supports[n]
         IN  IF s.fixed = Dofs /\ n = Carrier
               THEN [node |-> s.node, force |-> force, moment |-> moment(s)]
               ELSE [node |-> s.node, force |-> given(s).force, moment |-> given(s).freeMoment]]

\* A constraint force for every dof a constraint eliminated; the kernel leaves
\* out those that are zero, here all or none.
ConstraintForces ==
  LET node(k) == (k + 5) \div 6
      dof(k)  == (k - 1) % 6
      all == 1 .. 6 * Cardinality(DOMAIN compiled.nodes)
  IN  Kept([k \in all |-> [node |-> node(k), dof |-> dof(k), value |-> 1 + dof(k)]],
           {k \in all : Dependent(node(k), dof(k))})

Whole(u, forces) ==
  [finite    |-> TRUE,
   nodes     |-> [n \in DOMAIN compiled.nodes |-> [no |-> n, motion |-> u[n]]],
   reactions |-> Reactions(u),
   elements  |-> SetToSeq({[no |-> e.no, start |-> Vec(1, 2, 3), end |-> Vec(-1, 4, -2)] :
                             e \in Range(compiled.elements)}),
   forces    |-> forces,
   diagnoses |-> <<>>]

\* What a kernel that went wrong may hand back, and what it may say of it.
Spoilt(good) ==
  {[good EXCEPT !.finite = FALSE],
   [good EXCEPT !.nodes = Kept(@, 2..Len(@))],
   [good EXCEPT !.nodes = @ \o @],
   [good EXCEPT !.nodes[1].no = Len(good.nodes) + 1],
   [good EXCEPT !.forces = Append(@, [node |-> 1, dof |-> 6, value |-> 1])],
   [good EXCEPT !.reactions[1].force = Plus(@, Vec(0, 0, 1)),
                !.diagnoses = <<"over_constrained_dof", "unheard_of">>],
   [good EXCEPT !.reactions[1].moment = Plus(@, Vec(3, 0, 0)),
                !.diagnoses = <<"singular_matrix">>]}

Failures == {"singular", "initialize", "other"}

\* diagnostics.rs: classify_engine_failure
FailureCode == [singular |-> "MODEL_SINGULAR", initialize |-> "SOLVER_INIT_FAILED",
                other |-> "SOLVER_EXECUTION_FAILED"]

Solve ==
  /\ stage = "compiled"
  /\ \/ /\ \E u \in Displacements, forces \in {ConstraintForces, <<>>} :
            raw' \in {Whole(u, forces)} \cup Spoilt(Whole(u, forces))
        /\ stage' = "solved"
        /\ UNCHANGED answer
     \/ \E f \in Failures :
          answer' = FailureCode[f] /\ stage' = "refused" /\ UNCHANGED raw
  /\ UNCHANGED <<frame, compiled>>

-----------------------------------------------------------------------------
(* normalize.rs *)
\* A mutant: an output that repeats something is not noticed.
KnownAndComplete(actual, expected) ==
  Range(actual) = expected

UniqueAndComplete(actual, expected) ==
  /\ \A m, n \in DOMAIN actual : actual[m] = actual[n] => m = n
  /\ \A n \in DOMAIN actual : actual[n] \in expected
  /\ Len(actual) = Cardinality(expected)

Numbers(field, items) == [n \in DOMAIN items |-> items[n][field]]

\* A later support at a node replaces an earlier one.
SupportNodes == {NodeNo(s.node) : s \in Range(ActiveSupports)}
SupportAt(n) ==
  LET at == {k \in DOMAIN ActiveSupports : NodeNo(ActiveSupports[k].node) = n}
  IN  ActiveSupports[Max(at)]

Covered ==
  /\ UniqueAndComplete(Numbers("no", raw.nodes), DOMAIN compiled.nodes)
  /\ UniqueAndComplete(Numbers("node", raw.reactions), SupportNodes)
  /\ UniqueAndComplete(Numbers("no", raw.elements), {e.no : e \in Range(compiled.elements)})

MotionOf(n) == raw.nodes[CHOOSE k \in DOMAIN raw.nodes : raw.nodes[k].no = n].motion

NormalizedNodes ==
  [id \in NodeIds |->
     LET m == MotionOf(NodeNo(id))
     IN  [translation |-> InverseRotate(Translation(m)), rotation |-> InverseRotate(Rotation(m))]]

NormalizedReactions ==
  [id \in {SupportAt(n).id : n \in SupportNodes} |->
     LET r == CHOOSE x \in Range(raw.reactions) : SupportAt(x.node).id = id
     IN  [force |-> InverseRotate(ToSolver(r.force)), moment |-> InverseRotate(ToSolver(r.moment))]]

NormalizedElements ==
  [id \in IdsOf(frame.elements) |->
     LET e == ElementOf(id)
         r == CHOOSE x \in Range(raw.elements) : x.no = ElementNo(e)
         read(v) == InverseRotate(Combine(LocalTriad(Delta(e), e.localY), ToSolver(v)))
     IN  [start |-> read(r.start), end |-> read(r.end)]]

\* connector_triad, for connectors along one axis
ConnectorTriad(i, j) ==
  LET x == Unit(Minus(j, i))
      y == Cross(IF x.x = 0 THEN Vec(1, 0, 0) ELSE Vec(0, 1, 0), x)
  IN  [x |-> x, y |-> y, z |-> Cross(x, y)]

NormalizedConnectors ==
  [id \in IdsOf(frame.connectors) |->
     LET c == CHOOSE x \in Range(frame.connectors) : x.id = id
         i == NodeNo(c.i)
         j == NodeNo(c.j)
         t == ConnectorTriad(compiled.nodes[i], compiled.nodes[j])
         rel == Minus(Translation(MotionOf(j)), Translation(MotionOf(i)))
         l == ProjectLocal(rel, t)
     IN  [relative |-> InverseRotate(rel),
          force |-> InverseRotate(Combine(t, Vec(-c.k.x * l.x, -c.k.y * l.y, -c.k.z * l.z)))]]

\* constraint forces: the frame's name and sign for each of the kernel's dofs
FrameDof  == <<"TX", "TZ", "TY", "RX", "RZ", "RY">>
FrameSign == <<1, -1, 1, 1, -1, 1>>

Names(c, id, dof) ==
  CASE c.kind = "LINEAR_MPC" -> \E t \in Range(c.terms) : t.node = id /\ t.dof = dof
    [] c.kind = "ECCENTRIC_CONNECTION" -> id \in {c.master, c.slave} /\ dof \notin c.releases
    [] OTHER -> id \in {c.master, c.slave} /\ dof \in c.dofs

Candidates(f) ==
  IF f.dof \notin Dofs THEN {}
  ELSE {k \in DOMAIN frame.constraints :
          Names(frame.constraints[k], compiled.nodeIds[f.node], FrameDof[f.dof + 1])}

\* A mutant: the first constraint that could have caused it is named.
AttributedToFirst(f) ==
  frame.constraints[CHOOSE k \in Candidates(f) : \A m \in Candidates(f) : k <= m].id

Attributed(f) ==
  IF Cardinality(Candidates(f)) = 1
    THEN frame.constraints[CHOOSE k \in Candidates(f) : TRUE].id
    ELSE "AGGREGATED_AMBIGUOUS"

TermOf(f) == [node |-> compiled.nodeIds[f.node], dof |-> FrameDof[f.dof + 1],
              value |-> Kilo * FrameSign[f.dof + 1] * f.value]

NormalizedConstraintForces ==
  [key \in {Attributed(f) : f \in Range(raw.forces)} |->
     {TermOf(f) : f \in {g \in Range(raw.forces) : Attributed(g) = key}}]

ReactionResultant(reactions) ==
  ResultantOf([id \in DOMAIN reactions |->
    LET s == CHOOSE x \in Range(frame.supports) : x.id = id
    IN  [point |-> frame.nodes[s.node], force |-> reactions[id].force,
         freeMoment |-> reactions[id].moment]])

\* equilibrium.rs: at equilibrium the two resultants sum to zero.
WithinTolerance(residual, applied) ==
  \/ residual = Zero
  \/ RelDen * RelDen * Square(residual) <= Square(applied)
Accepted(applied, reactions) ==
  /\ WithinTolerance(Plus(applied.force, reactions.force), applied.force)
  /\ WithinTolerance(Plus(applied.moment, reactions.moment), applied.moment)

\* diagnostics.rs: a code without an entry is dropped.
Diagnoses == [singular_matrix      |-> "SINGULAR",
              over_constrained_dof |-> "ILL_CONDITIONED",
              residual_high        |-> "EQUILIBRIUM_FAILURE"]
NormalizedDiagnoses ==
  LET known == Kept(raw.diagnoses, {k \in DOMAIN raw.diagnoses : raw.diagnoses[k] \in DOMAIN Diagnoses})
  IN  [n \in DOMAIN known |-> Diagnoses[known[n]]]

\* A mutant: the audit weighs forces only.
CorruptByForce ==
  \/ ~raw.finite
  \/ ~Covered
  \/ ~WithinTolerance(Plus(compiled.applied.force, ReactionResultant(NormalizedReactions).force),
                      compiled.applied.force)
  \/ \E f \in Range(raw.forces) : Candidates(f) = {}

Corrupt ==
  \/ ~raw.finite
  \/ ~Covered
  \/ ~Accepted(compiled.applied, ReactionResultant(NormalizedReactions))
  \/ \E f \in Range(raw.forces) : Candidates(f) = {}

Normalize ==
  /\ stage = "solved"
  /\ IF Corrupt
       THEN stage' = "refused" /\ answer' = "CORRUPT_OUTPUT"
       ELSE /\ stage' = "answered"
            /\ answer' = [nodes       |-> NormalizedNodes,
                          reactions   |-> NormalizedReactions,
                          elements    |-> NormalizedElements,
                          connectors  |-> NormalizedConnectors,
                          constraints |-> NormalizedConstraintForces,
                          diagnostics |-> NormalizedDiagnoses,
                          stations    |-> {}]
  /\ UNCHANGED <<frame, compiled, raw>>

-----------------------------------------------------------------------------
(* recovery.rs: stations of the elements asked for, from the same raw      *)
(* answer; forces stay in the element's own axes.                          *)
RecoveryRefusal(ask) ==
  CASE \E m, n \in DOMAIN ask : m # n /\ ask[m] = ask[n] -> "RECOVERY_DUPLICATE_ELEMENT"
    [] \E n \in DOMAIN ask : ask[n] \notin IdsOf(frame.elements) -> "UNKNOWN_STABLE_ID"
    [] OTHER -> "NONE"

Recover ==
  /\ stage = "answered"
  /\ \E ask \in StationAsks :
       IF RecoveryRefusal(ask) # "NONE"
         THEN stage' = "refused" /\ answer' = RecoveryRefusal(ask)
         ELSE /\ stage' = "recovered"
              /\ answer' = [answer EXCEPT !.stations =
                   {[element |-> id,
                     start |-> ToSolver((CHOOSE x \in Range(raw.elements) :
                                           x.no = ElementNo(ElementOf(id))).start)] :
                      id \in Range(ask)}]
  /\ UNCHANGED <<frame, compiled, raw>>

-----------------------------------------------------------------------------
Asking(first) == /\ frame \in Frames
                 /\ stage = first
                 /\ compiled = "none"
                 /\ raw = "none"
                 /\ answer = "none"

Init == Asking("frame")

Next == Compile \/ Solve \/ Normalize \/ Recover

Spec == Init /\ [][Next]_vars

-----------------------------------------------------------------------------
Answered == stage \in {"answered", "recovered"}

\* A result names every node, active support, element and connector of the
\* frame, and nothing else (normalize.rs: require_unique_complete).
TypeOK ==
  /\ stage \in {"contacts", "frame", "compiled", "solved", "answered", "recovered", "refused"}
  /\ Answered =>
       /\ DOMAIN answer.nodes = NodeIds
       /\ DOMAIN answer.reactions = IdsOf(ActiveSupports)
       /\ DOMAIN answer.elements = IdsOf(frame.elements)
       /\ DOMAIN answer.connectors = IdsOf(frame.connectors)
       /\ Len(raw.nodes) = Cardinality(NodeIds)
       /\ Len(raw.reactions) = Len(ActiveSupports)

AxisDof == [x |-> <<"TX", "RX">>, y |-> <<"TY", "RY">>, z |-> <<"TZ", "RZ">>]

\* A kernel that reports reactions it has not computed also says so.
Undiagnosed == raw.diagnoses = <<>>

SupportAnswers(s) ==
  LET u == answer.nodes[s.node]
      r == answer.reactions[s.id]
  IN  \A axis \in {"x", "y", "z"} :
        /\ IF AxisDof[axis][1] \in s.fixed
             THEN u.translation[axis] = s.translation[axis]
             ELSE Undiagnosed => r.force[axis] = -s.stiffness[axis] * u.translation[axis]
        /\ IF AxisDof[axis][2] \in s.fixed
             THEN u.rotation[axis] = s.rotation[axis]
             ELSE Undiagnosed => r.moment[axis] = 0

\* A connector that stands upright: axial along y, its shears along z and x.
Upright(c) == Unit(Minus(frame.nodes[c.j], frame.nodes[c.i])) = Vec(0, 1, 0)
UprightAnswers(c) ==
  LET r == answer.connectors[c.id]
  IN  r.force = Vec(-c.k.z * r.relative.x, -c.k.x * r.relative.y, -c.k.y * r.relative.z)

ElementAnswers(e) ==
  LET t == FrameTriad(Delta(e), e.localY)
      r == CHOOSE x \in Range(raw.elements) : x.no = ElementNo(e)
  IN  /\ ProjectLocal(answer.elements[e.id].start, t) = ToSolver(r.start)
      /\ ProjectLocal(answer.elements[e.id].end, t) = ToSolver(r.end)

\* What comes back is in the frame's own axes, names and units: on each axis
\* a support that is elastic there reacts with its stiffness on that axis
\* against the motion reported on that axis, one that is fixed has moved as
\* prescribed, and members and connectors carry their forces along their own
\* axes (compile.rs permutes stiffness and fixity, rotates motion; normalize.rs
\* turns both back).
AnswersInFrameAxes ==
  Answered => /\ \A s \in Range(ActiveSupports) : SupportAnswers(s)
              /\ \A c \in Range(frame.connectors) : Upright(c) => UprightAnswers(c)
              /\ \A e \in Range(frame.elements) : ElementAnswers(e)

FrameMotion(id, dof) ==
  LET u == answer.nodes[id]
  IN  CASE dof = "TX" -> u.translation.x [] dof = "TY" -> u.translation.y
        [] dof = "TZ" -> u.translation.z [] dof = "RX" -> u.rotation.x
        [] dof = "RY" -> u.rotation.y    [] dof = "RZ" -> u.rotation.z

ConstraintHolds(c) ==
  IF c.kind = "LINEAR_MPC"
    THEN SumFunction([k \in DOMAIN c.terms |->
           c.terms[k].coefficient * FrameMotion(c.terms[k].node, c.terms[k].dof)]) = 0
    ELSE LET m == answer.nodes[c.master]
             arm == CASE c.kind = "ECCENTRIC_CONNECTION" -> c.offset
                      [] c.kind = "RIGID_LINK" -> Minus(frame.nodes[c.slave], frame.nodes[c.master])
                      [] OTHER -> Zero
             t == Plus(m.translation, Cross(m.rotation, arm))
             follows == [TX |-> t.x, TY |-> t.y, TZ |-> t.z,
                         RX |-> m.rotation.x, RY |-> m.rotation.y, RZ |-> m.rotation.z]
             tied == IF c.kind = "ECCENTRIC_CONNECTION" THEN DOMAIN SdkDof \ c.releases ELSE c.dofs
         IN  \A d \in tied : FrameMotion(c.slave, d) = follows[d]

\* The motion that comes back obeys every constraint as the frame states it,
\* in the frame's axes: the tied dofs of a slave follow its master about the
\* offset, and the terms of a multi-point constraint sum to zero
\* (compile.rs: compile_constraints).
ConstraintsHoldInFrameAxes ==
  Answered /\ Len(frame.constraints) = 1 => ConstraintHolds(frame.constraints[1])

\* A constraint force is attributed to a constraint only if that constraint
\* caused it, that is if the kernel eliminated that dof for it; and no force
\* the kernel reported is missing (normalize.rs: normalize_constraint_forces).
ConstraintForcesAreAttributed ==
  Answered =>
    /\ \A f \in Range(raw.forces) :
         Attributed(f) # "AGGREGATED_AMBIGUOUS" =>
           Attributed(f) = frame.constraints[Owner(f.node, f.dof)].id
    /\ SumFunction([key \in DOMAIN answer.constraints |-> Cardinality(answer.constraints[key])])
         = Len(raw.forces)

\* A result balances the loads as the kernel was given them, placed along the
\* compiled elements and about the kernel's origin, to within the audit's
\* tolerance: what the audit weighs is the frame's own resultant, computed on
\* another path (compile.rs: compile_loads and calculate_resultant).
AcceptedResultBalances ==
  Answered =>
    LET back(r) == [force |-> InverseRotate(ToSolver(r.force)),
                    moment |-> InverseRotate(ToSolver(r.moment))]
        reacted == ResultantOf([n \in DOMAIN raw.reactions |->
                     [point |-> compiled.nodes[raw.reactions[n].node],
                      force |-> raw.reactions[n].force, freeMoment |-> raw.reactions[n].moment]])
    IN  Accepted(back(Sent), back(reacted))
=============================================================================
