------------------------- MODULE ContactProjection -------------------------
(***************************************************************************)
(* From the packages' contacts to the deck's frame and back                *)
(* (crates/stabileo-pallet/src/pallet): projection.rs finds where each     *)
(* contact bears on the top deckboards, hands the horizontal half of its   *)
(* force to the boards' end nodes, and stands the vertical half on a rigid *)
(* face over springs; top_response.rs reads the solved deck back as one    *)
(* motion per contact.                                                     *)
(*                                                                         *)
(* A pure module: a deck is a frame of KernelBridge whose elements also    *)
(* carry area, second moment, member and run axis.  Lengths are whole      *)
(* units, a position along a board counts quarters, a weight is a share    *)
(* raw / total; the geometric tolerance Sep is below half a board and      *)
(* areas under its square are empty.  Patches lie along the axes, turned   *)
(* by quarters, so that clipping one to a board is an intersection of      *)
(* intervals; a chime ring is sampled at as many points as Ring lists, the *)
(* code's are thirty-two.                                                  *)
(***************************************************************************)
EXTENDS UnitLoadCriteria, Sequences, SequencesExt

CONSTANTS
  Ring,    \* the directions a chime ring is sampled in: unit vectors of the plan
  Sep      \* geometry_tolerance_m

ASSUME SepAssumption == Sep \in Nat \ {0}

Halves   == <<"start", "end">>
Ordinal  == <<"0", "1", "2", "3", "4", "5", "6", "7">>

Scaled(v, n, d) == Vec((v.x * n) \div d, (v.y * n) \div d, (v.z * n) \div d)

-----------------------------------------------------------------------------
(* top_surfaces: the plan rectangle and the height of every top deckboard. *)
(* Width and depth are those of the rectangle with the element's area and  *)
(* second moment.                                                          *)
Width(e) == CHOOSE w \in 1 .. e.area : w * w * e.area = 12 * e.secondMoment
Depth(e) == e.area \div Width(e)

Surface(deck, e) ==
  LET s == deck.nodes[e.start]
      t == deck.nodes[e.end]
      half == Width(e) \div 2
      span(a, b, runs) == IF runs THEN [min |-> Min({a, b}), max |-> Max({a, b})]
                                  ELSE [min |-> a - half, max |-> a + half]
  IN  [element |-> e.id, startNode |-> e.start, endNode |-> e.end, start |-> s, end |-> t,
       x |-> span(s.x, t.x, e.runAxis = "X"), z |-> span(s.z, t.z, e.runAxis = "Z"),
       topY |-> Max({s.y, t.y}) + Depth(e) \div 2]

\* in the order of the element ids, which is that of the deck's elements
Surfaces(deck) ==
  LET boards == SelectSeq(deck.elements, LAMBDA e : e.member = "TOP_DECKBOARD")
  IN  [k \in DOMAIN boards |-> Surface(deck, boards[k])]

Within(n, span)  == span.min <= n /\ n <= span.max
Inside(s, x, z)  == Within(x, [min |-> s.x.min - Sep, max |-> s.x.max + Sep])
                    /\ Within(z, [min |-> s.z.min - Sep, max |-> s.z.max + Sep])
Clamp(n, span)   == Max({span.min, Min({span.max, n})})

-----------------------------------------------------------------------------
(* contact_weights: where a contact bears, and with what raw weight.       *)
Sample(k, raw, x, z) == [surface |-> k, raw |-> raw, x |-> x, z |-> z]

\* oriented_rectangle, clip_to_surface and polygon_area_centroid
PatchSpans(c) ==
  LET hx == IF c.turned THEN c.halfZ ELSE c.halfX
      hz == IF c.turned THEN c.halfX ELSE c.halfZ
  IN  [x |-> [min |-> c.center.x - hx, max |-> c.center.x + hx],
       z |-> [min |-> c.center.z - hz, max |-> c.center.z + hz]]

Common(a, b) == [min |-> Max({a.min, b.min}), max |-> Min({a.max, b.max})]

AreaSamples(c, surfaces) ==
  LET common(k) == [x |-> Common(PatchSpans(c).x, surfaces[k].x),
                    z |-> Common(PatchSpans(c).z, surfaces[k].z)]
      size(span) == span.max - span.min
      touched == SelectSeq([k \in DOMAIN surfaces |-> k],
                           LAMBDA k : size(common(k).x) > 0 /\ size(common(k).z) > 0)
  IN  [n \in DOMAIN touched |->
         LET p == common(touched[n])
         IN  Sample(touched[n], size(p.x) * size(p.z),
                    (p.x.min + p.x.max) \div 2, (p.z.min + p.z.max) \div 2)]

\* nearest_surface_point: the first of the nearest
Nearest(surfaces, x, z) ==
  LET d2(k) == LET dx == Clamp(x, surfaces[k].x) - x
                   dz == Clamp(z, surfaces[k].z) - z
               IN  dx * dx + dz * dz
  IN  CHOOSE k \in DOMAIN surfaces :
        \A m \in DOMAIN surfaces : d2(k) < d2(m) \/ (d2(k) = d2(m) /\ k <= m)

Bearing(surfaces, p) == {k \in DOMAIN surfaces : Inside(surfaces[k], p.x, p.z)}

\* clamped_point_samples: a sample off the deck moves to the nearest deck and
\* keeps its weight; a contact with no sample on the deck bears nowhere.
ClampedSamples(points, surfaces) ==
  IF \A n \in DOMAIN points : Bearing(surfaces, points[n]) = {}
    THEN << >>
    ELSE [n \in DOMAIN points |->
            LET p == points[n]
                k == Nearest(surfaces, p.x, p.z)
            IN  IF Bearing(surfaces, p) # {}
                  THEN Sample(Min(Bearing(surfaces, p)), p.raw, p.x, p.z)
                  ELSE Sample(k, p.raw, Clamp(p.x, surfaces[k].x), Clamp(p.z, surfaces[k].z))]

RingPoints(c) ==
  LET r == (c.inner + c.outer) \div 2
  IN  [n \in DOMAIN Ring |-> [x |-> c.center.x + r * Ring[n].x,
                              z |-> c.center.z + r * Ring[n].z, raw |-> 1]]

Uniform(points) == \A m, n \in DOMAIN points : points[m].raw = points[n].raw

PointSamples(c, surfaces) ==
  LET under == SelectSeq([k \in DOMAIN surfaces |-> k],
                         LAMBDA k : Inside(surfaces[k], c.center.x, c.center.z))
  IN  [n \in DOMAIN under |-> Sample(under[n], 1, c.center.x, c.center.z)]

Samples(c, surfaces) ==
  CASE c.kind = "POINT" -> PointSamples(c, surfaces)
    [] c.kind \in {"RECTANGULAR_PATCH", "ORIENTATION_BAND"} -> AreaSamples(c, surfaces)
    [] c.kind = "PRESSURE_FIELD" ->
         IF Uniform(c.samples) THEN AreaSamples(c, surfaces)
                               ELSE ClampedSamples(c.samples, surfaces)
    [] OTHER -> ClampedSamples(RingPoints(c), surfaces)

-----------------------------------------------------------------------------
(* The samples of a contact: each with its point on the deck's surface,    *)
(* its place along the board in quarters, and its arm off the board's axis.*)
Natural(s, x, z) ==
  LET d == Minus(s.end, s.start)
      along == (x - s.start.x) * d.x + (z - s.start.z) * d.z
  IN  Clamp((Quarters * along) \div (d.x * d.x + d.z * d.z), [min |-> 0, max |-> Quarters])

AxisPoint(s, t) == Plus(s.start, Scaled(Minus(s.end, s.start), t, Quarters))

\* A mutant: the arm starts at the board's start node.
ArmFromStart(s, t, point) == Minus(point, s.start)

Arm(s, t, point) == Minus(point, AxisPoint(s, t))

Projected(surfaces, samples) ==
  LET total == SumFunction([n \in DOMAIN samples |-> samples[n].raw])
  IN  [n \in DOMAIN samples |->
         LET s == surfaces[samples[n].surface]
             point == Vec(samples[n].x, s.topY, samples[n].z)
             t == Natural(s, point.x, point.z)
         IN  [surface |-> s, raw |-> samples[n].raw, total |-> total, point |-> point,
              natural |-> t, arm |-> Arm(s, t, point)]]

\* The contact map: for every contact, its samples.
ContactMap(deck, contacts) ==
  LET surfaces == Surfaces(deck)
  IN  [n \in DOMAIN contacts |-> Projected(surfaces, Samples(contacts[n], surfaces))]

-----------------------------------------------------------------------------
(* The horizontal half: at each sample a force shared between the two ends *)
(* of its board, and the moment that puts the contact's own resultant back.*)
Load(kind, at, v) ==
  [kind |-> kind, at |-> at, force |-> IF kind = "FORCE" THEN v ELSE Zero,
   moment |-> IF kind = "MOMENT" THEN v ELSE Zero, point |-> Zero,
   from |-> 0, to |-> 0, unitsRight |-> TRUE]

HorizontalLoads(c, entries) ==
  LET horizontal == Vec(c.force.x, 0, c.force.z)
      weighted(p) == Scaled(horizontal, p.raw, p.total)
      desired == Plus(Cross(c.center, horizontal), Vec(0, c.freeMoment.y, 0))
      correction == Minus(desired, SumVectors([n \in DOMAIN entries |->
                                     Cross(entries[n].point, weighted(entries[n]))]))
      startForce(p) == Scaled(weighted(p), Quarters - p.natural, Quarters)
      endForce(p)   == Scaled(weighted(p), p.natural, Quarters)
      moment(p) == Minus(Minus(Plus(Cross(p.point, weighted(p)), Scaled(correction, p.raw, p.total)),
                               Cross(p.surface.start, startForce(p))),
                         Cross(p.surface.end, endForce(p)))
  IN  FlattenSeq([n \in DOMAIN entries |->
        LET p == entries[n]
        IN  <<Load("FORCE", p.surface.startNode, startForce(p)),
              Load("FORCE", p.surface.endNode, endForce(p)),
              Load("MOMENT", p.surface.startNode, moment(p))>>])

-----------------------------------------------------------------------------
(* The vertical half: a rigid face that stands on the boards' end stations *)
(* through springs.  Only a contact that presses builds one.               *)
Presses(c) == c.force.y < 0

FaceNode(c) == "face:" \o c.id
BearingNode(c, n, half) == "bearing:" \o c.id \o Ordinal[n] \o half
SeatNode(c, n, half)    == "seat:" \o c.id \o Ordinal[n] \o half

\* A mutant: each half of a sample takes its whole stiffness.
ShareUnsplit(c, p, half) == (c.stiffness * p.raw) \div p.total

Share(c, p, half) ==
  LET part == IF half = "start" THEN Quarters - p.natural ELSE p.natural
  IN  (c.stiffness * p.raw * part) \div (p.total * Quarters)

Station(p, half) == Plus(IF half = "start" THEN p.surface.start ELSE p.surface.end, p.arm)

FacePosition(c, entries) ==
  Vec(c.center.x, Max({p.surface.topY : p \in Range(entries)}) + 2 * Sep, c.center.z)

\* The springs of a face: sample, half, share, and where they stand.
SpringsOf(c, entries) ==
  LET both == FlattenSeq([n \in DOMAIN entries |->
                [h \in 1..2 |-> [n |-> n, half |-> Halves[h], entry |-> entries[n],
                                 share |-> Share(c, entries[n], Halves[h]),
                                 at |-> Station(entries[n], Halves[h])]]])
  IN  SelectSeq(both, LAMBDA s : s.share > 0)

EccentricTie(id, master, slave, offset) ==
  [id |-> id, kind |-> "ECCENTRIC_CONNECTION", master |-> master, slave |-> slave,
   offset |-> offset, releases |-> {}]

\* An axis is grounded when no bearing is off the mean by more than Sep.
Narrow(springs, axis) ==
  LET n == Len(springs)
      sum == SumFunction([k \in DOMAIN springs |-> springs[k].at[axis]])
      off(k) == n * springs[k].at[axis] - sum
  IN  \A k \in DOMAIN springs : -Sep * n <= off(k) /\ off(k) <= Sep * n

FaceSystem(c, entries) ==
  LET springs == SpringsOf(c, entries)
      face == FacePosition(c, entries)
      up == Vec(0, Sep, 0)
      seatAt(s) == Plus(s.at, up)
      b(s) == BearingNode(c, s.n, s.half)
      t(s) == SeatNode(c, s.n, s.half)
      anchor(s) == IF s.half = "start" THEN s.entry.surface.startNode ELSE s.entry.surface.endNode
  IN  [nodes |-> [id \in {FaceNode(c)} \cup {b(s) : s \in Range(springs)}
                                       \cup {t(s) : s \in Range(springs)} |->
                   IF id = FaceNode(c) THEN face
                   ELSE LET s == CHOOSE x \in Range(springs) : id \in {b(x), t(x)}
                        IN  IF id = b(s) THEN s.at ELSE seatAt(s)],
       constraints |-> FlattenSeq([k \in DOMAIN springs |->
         LET s == springs[k]
         IN  <<EccentricTie("on:" \o b(s), anchor(s), b(s), s.entry.arm),
               EccentricTie("on:" \o t(s), FaceNode(c), t(s), Minus(seatAt(s), face))>>]),
       connectors |-> [k \in DOMAIN springs |->
         [id |-> "spring:" \o b(springs[k]), i |-> t(springs[k]), j |-> b(springs[k]),
          k |-> Vec(springs[k].share, 0, 0)]],
       support |-> [id |-> "under:" \o c.id, node |-> FaceNode(c), active |-> TRUE,
                    fixed |-> {"TX", "TZ", "RY"}
                              \cup (IF Narrow(springs, "z") THEN {"RX"} ELSE {})
                              \cup (IF Narrow(springs, "x") THEN {"RZ"} ELSE {}),
                    stiffness |-> Zero, translation |-> Zero, rotation |-> Zero,
                    unitsRight |-> TRUE],
       loads |-> <<Load("FORCE", FaceNode(c), Vec(0, c.force.y, 0)),
                   Load("MOMENT", FaceNode(c), Vec(c.freeMoment.x, 0, c.freeMoment.z))>>]

-----------------------------------------------------------------------------
(* The audit: what was emitted against what the contacts ask for.          *)
Asked(contacts) ==
  ResultantOf([n \in DOMAIN contacts |->
    [point |-> contacts[n].center, force |-> contacts[n].force,
     freeMoment |-> contacts[n].freeMoment]])

\* The face systems of the contacts that press, in the contacts' order.
FaceSystems(contacts, map) ==
  LET pressing == SelectSeq([n \in DOMAIN contacts |-> n], LAMBDA n : Presses(contacts[n]))
  IN  [k \in DOMAIN pressing |-> FaceSystem(contacts[pressing[k]], map[pressing[k]])]

EmittedLoads(contacts, map, faces) ==
  FlattenSeq([n \in DOMAIN contacts |-> HorizontalLoads(contacts[n], map[n])])
    \o FlattenSeq([n \in DOMAIN faces |-> faces[n].loads])

\* Where the contacts bear, and what they put on the deck.
Projection(contacts, map, faces) ==
  [contactMap |-> map, faces |-> faces, loads |-> EmittedLoads(contacts, map, faces)]

\* The deck's frame with a projection on it.
OnFrame(deck, projection) ==
  LET faces == projection.faces
      all(field) == FlattenSeq([n \in DOMAIN faces |-> faces[n][field]])
  IN  [deck EXCEPT !.nodes       = FoldSeq(LAMBDA f, nodes : f.nodes @@ nodes, @, faces),
                   !.constraints = @ \o all("constraints"),
                   !.connectors  = @ \o all("connectors"),
                   !.supports    = @ \o [n \in DOMAIN faces |-> faces[n].support],
                   !.loads       = @ \o projection.loads]

Emitted(loads, nodes) ==
  ResultantOf([n \in DOMAIN loads |->
    [point |-> nodes[loads[n].at], force |-> loads[n].force, freeMoment |-> loads[n].moment]])

\* A mutant: conservation is audited in the plan only.
ConservedInPlan(contacts, emitted) == emitted.force.x = Asked(contacts).force.x

Conserved(contacts, emitted) == emitted = Asked(contacts)

-----------------------------------------------------------------------------
(* top_response.rs: the motion of the deck under a contact, the weighted   *)
(* mean of its samples' motions, each carried from the board's axis out to *)
(* the sample; here multiplied by Quarters times the total weight.         *)
TopResponse(entries, motion) ==
  LET between(p, field) ==
        Plus(Times(Quarters - p.natural, motion[p.surface.startNode][field]),
             Times(p.natural, motion[p.surface.endNode][field]))
      moved(p) == Plus(between(p, "translation"), Cross(between(p, "rotation"), p.arm))
  IN  [translation |-> SumVectors([n \in DOMAIN entries |-> Times(entries[n].raw, moved(entries[n]))]),
       rotation    |-> SumVectors([n \in DOMAIN entries |->
                          Times(entries[n].raw, between(entries[n], "rotation"))])]
=============================================================================
