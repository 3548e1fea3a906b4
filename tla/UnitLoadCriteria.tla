-------------------------- MODULE UnitLoadCriteria --------------------------
(***************************************************************************)
(* The pure rules a partition of the unit load rests on: vectors           *)
(* (types.rs), resultants and their conservation audit                     *)
(* (unit_load/resultants.rs), the Coulomb rule at one interface            *)
(* (unit_load/friction.rs) and the capacity criterion                      *)
(* (unit_load/criteria.rs).                                                *)
(*                                                                         *)
(* Numbers are exact integers in units the caller chooses, so the refusals *)
(* of NaN and infinity are out of the model; a norm is compared through    *)
(* its square, and a direction is the vector it points along.              *)
(***************************************************************************)
EXTENDS Integers, FiniteSetsExt

Vec(x, y, z) == [x |-> x, y |-> y, z |-> z]
Zero         == Vec(0, 0, 0)
Plus(a, b)   == Vec(a.x + b.x, a.y + b.y, a.z + b.z)
Minus(a, b)  == Vec(a.x - b.x, a.y - b.y, a.z - b.z)
Times(k, a)  == Vec(k * a.x, k * a.y, k * a.z)
Cross(a, b)  == Vec(a.y * b.z - a.z * b.y,
                    a.z * b.x - a.x * b.z,
                    a.x * b.y - a.y * b.x)
Square(a)    == a.x * a.x + a.y * a.y + a.z * a.z

\* Positions along a member are counted in quarters of its length.
Quarters == 4

SumVectors(f) ==
  LET along(axis) == SumFunction([i \in DOMAIN f |-> f[i][axis]])
  IN  Vec(along("x"), along("y"), along("z"))

-----------------------------------------------------------------------------
(* resultants.rs: force and moment about the origin of what f places, each *)
(* at a point with a force and a free moment, and the audit of one         *)
(* resultant against another.                                              *)
ResultantOf(f) ==
  [force  |-> SumVectors([i \in DOMAIN f |-> f[i].force]),
   moment |-> SumVectors([i \in DOMAIN f |->
                Plus(Cross(f[i].point, f[i].force), f[i].freeMoment)])]

Audited(expected, observed, forceTol, momentTol) ==
  /\ Square(Minus(expected.force, observed.force)) <= forceTol * forceTol
  /\ Square(Minus(expected.moment, observed.moment)) <= momentTol * momentTol

-----------------------------------------------------------------------------
(* friction.rs: what a trial force in the plane becomes under a normal     *)
(* force; trial and movement have no height.                               *)
Coulomb(trial, normal, mu, movement, tol) ==
  LET limit == normal * mu
      beyond(bound) == bound < 0 \/ Square(trial) > bound * bound
  IN  CASE limit = 0 ->
             [state |-> "SLIP", code |-> "ZERO_NORMAL", along |-> Zero]
        [] limit # 0 /\ ~beyond(limit + tol) ->
             [state |-> "STICK",
              code  |-> IF beyond(limit - tol) \/ Square(trial) = (limit - tol) * (limit - tol)
                          THEN "ON_CONE_TIE_STICK" ELSE "WITHIN_CONE",
              along |-> Zero]
        [] OTHER ->
             [state |-> "SLIP", code |-> "PROJECTED_TO_CONE",
              along |-> IF Square(movement) > 0 THEN movement ELSE trial]

-----------------------------------------------------------------------------
(* criteria.rs: a demand, given by its square, against a capacity; the     *)
(* review band starts at nine tenths of the capacity.                      *)
Classification(demandSquare, capacity) ==
  CASE capacity = 0 /\ demandSquare = 0 -> "PASS"
    [] capacity = 0 /\ demandSquare > 0 -> "FAIL"
    [] OTHER ->
         IF demandSquare > capacity * capacity THEN "FAIL"
         ELSE IF 100 * demandSquare > 81 * capacity * capacity THEN "REVIEW"
         ELSE "PASS"
=============================================================================
