------------------------ MODULE UnitLoadAdvanceProofs ------------------------
(***************************************************************************)
(* Theorems of UnitLoadAdvance, for every number of contacts, every shape  *)
(* and place of them, every load, and every way the deck answers: the      *)
(* load is conserved, the contacts stand where the deck is, the compliance *)
(* is the latest one measured, and a balanced advance needs no couple.     *)
(***************************************************************************)
EXTENDS UnitLoadAdvance, SumTheorems

-----------------------------------------------------------------------------
(* Vectors.                                                                *)

(* Vectors of integers are closed under what the rounds do with them.      *)
LEMMA VectorsAreClosed ==
  ASSUME NEW a \in Vector, NEW b \in Vector
  PROVE  Plus(a, b) \in Vector /\ Minus(a, b) \in Vector /\ Cross(a, b) \in Vector
  BY DEF Vector, Plus, Minus, Cross, Vec

LEMMA MultiplesAreVectors ==
  ASSUME NEW k \in Int, NEW a \in Vector
  PROVE  Times(k, a) \in Vector
  BY DEF Vector, Times, Vec

LEMMA FlatIsAVector ==
  ASSUME NEW a \in Vector
  PROVE  Flat(a) \in Vector
  BY DEF Vector, Flat, Vec

LEMMA ZeroIsAVector == Zero \in Vector
  BY DEF Vector, Zero, Vec

(* The three functions a function of vectors is summed through.            *)
AlongX(f) == [i \in DOMAIN f |-> f[i].x]
AlongY(f) == [i \in DOMAIN f |-> f[i].y]
AlongZ(f) == [i \in DOMAIN f |-> f[i].z]

LEMMA AxesAreTyped ==
  ASSUME NEW S, NEW f \in [S -> Vector]
  PROVE  /\ AlongX(f) \in [S -> Int] /\ \A i \in S : AlongX(f)[i] = f[i].x
         /\ AlongY(f) \in [S -> Int] /\ \A i \in S : AlongY(f)[i] = f[i].y
         /\ AlongZ(f) \in [S -> Int] /\ \A i \in S : AlongZ(f)[i] = f[i].z
  BY DEF AlongX, AlongY, AlongZ, Vector

(* Vectors are summed axis by axis.                                        *)
LEMMA VectorSum ==
  ASSUME NEW S, IsFiniteSet(S), NEW f \in [S -> Vector]
  PROVE  /\ SumVectors(f) = Vec(SumFunction(AlongX(f)), SumFunction(AlongY(f)),
                                SumFunction(AlongZ(f)))
         /\ SumVectors(f) \in Vector
  <1>1. DOMAIN f = S
    OBVIOUS
  <1>2. [i \in DOMAIN f |-> f[i]["x"]] = AlongX(f)
    BY DEF AlongX
  <1>3. [i \in DOMAIN f |-> f[i]["y"]] = AlongY(f)
    BY DEF AlongY
  <1>4. [i \in DOMAIN f |-> f[i]["z"]] = AlongZ(f)
    BY DEF AlongZ
  <1>5. SumVectors(f) = Vec(SumFunction([i \in DOMAIN f |-> f[i]["x"]]),
                            SumFunction([i \in DOMAIN f |-> f[i]["y"]]),
                            SumFunction([i \in DOMAIN f |-> f[i]["z"]]))
    BY Zenon DEF SumVectors
  <1>6. SumVectors(f) = Vec(SumFunction(AlongX(f)), SumFunction(AlongY(f)),
                            SumFunction(AlongZ(f)))
    BY <1>2, <1>3, <1>4, <1>5
  <1>7. SumFunction(AlongX(f)) \in Int
    BY AxesAreTyped, SumIsInteger
  <1>8. SumFunction(AlongY(f)) \in Int
    BY AxesAreTyped, SumIsInteger
  <1>9. SumFunction(AlongZ(f)) \in Int
    BY AxesAreTyped, SumIsInteger
  <1>10. SumVectors(f) \in Vector
    BY <1>6, <1>7, <1>8, <1>9 DEF Vec, Vector
  <1> QED BY <1>6, <1>10

-----------------------------------------------------------------------------
(* The decomposition of the load over a share vector.                      *)

LEMMA LoadIsTyped ==
  /\ IsFiniteSet(Contacts) /\ Whole \in Int
  /\ Applied.force \in Vector /\ Applied.moment \in Vector
  BY PartitionAssumption

LEMMA ShareVectorsAreTyped ==
  ASSUME NEW s \in ShareVectors
  PROVE  /\ s \in [Contacts -> Int] /\ s \in [Contacts -> Nat]
         /\ SumFunction(s) = Whole
  BY PartitionAssumption DEF ShareVectors

(* The forces of a share vector add up to the load.                        *)
LEMMA ForcesAddUp ==
  ASSUME NEW s \in ShareVectors
  PROVE  /\ [c \in Contacts |-> ForceOn(s[c])] \in [Contacts -> Vector]
         /\ SumVectors([c \in Contacts |-> ForceOn(s[c])]) = Times(Whole, Applied.force)
  <1> DEFINE F == Applied.force
             f == [c \in Contacts |-> ForceOn(s[c])]
  <1>1. f \in [Contacts -> Vector]
    BY ShareVectorsAreTyped, LoadIsTyped, MultiplesAreVectors DEF ForceOn
  <1>2. F.x \in Int /\ F.y \in Int /\ F.z \in Int
    BY LoadIsTyped DEF Vector
  <1>3. \A c \in Contacts : /\ f[c].x = F.x * s[c]
                            /\ f[c].y = F.y * s[c]
                            /\ f[c].z = F.z * s[c]
    BY <1>2, ShareVectorsAreTyped DEF ForceOn, Times, Vec
  <1> HIDE DEF f, F
  <1>4. /\ AlongX(f) \in [Contacts -> Int] /\ \A c \in Contacts : AlongX(f)[c] = f[c].x
        /\ AlongY(f) \in [Contacts -> Int] /\ \A c \in Contacts : AlongY(f)[c] = f[c].y
        /\ AlongZ(f) \in [Contacts -> Int] /\ \A c \in Contacts : AlongZ(f)[c] = f[c].z
        /\ SumVectors(f) = Vec(SumFunction(AlongX(f)), SumFunction(AlongY(f)),
                               SumFunction(AlongZ(f)))
    BY <1>1, AxesAreTyped, VectorSum, LoadIsTyped
  <1>5. SumFunction(AlongX(f)) = F.x * Whole
    <2>1. \A c \in Contacts : AlongX(f)[c] = F.x * s[c]
      BY <1>3, <1>4
    <2>2. /\ AlongX(f) \in [Contacts -> Int] /\ s \in [Contacts -> Int]
          /\ F.x \in Int /\ IsFiniteSet(Contacts)
      BY <1>2, <1>4, ShareVectorsAreTyped, LoadIsTyped
    <2>3. SumFunction(AlongX(f)) = F.x * SumFunction(s)
      BY <2>1, <2>2, SumScales
    <2> QED BY <2>3, ShareVectorsAreTyped
  <1>6. SumFunction(AlongY(f)) = F.y * Whole
    <2>1. \A c \in Contacts : AlongY(f)[c] = F.y * s[c]
      BY <1>3, <1>4
    <2>2. /\ AlongY(f) \in [Contacts -> Int] /\ s \in [Contacts -> Int]
          /\ F.y \in Int /\ IsFiniteSet(Contacts)
      BY <1>2, <1>4, ShareVectorsAreTyped, LoadIsTyped
    <2>3. SumFunction(AlongY(f)) = F.y * SumFunction(s)
      BY <2>1, <2>2, SumScales
    <2> QED BY <2>3, ShareVectorsAreTyped
  <1>7. SumFunction(AlongZ(f)) = F.z * Whole
    <2>1. \A c \in Contacts : AlongZ(f)[c] = F.z * s[c]
      BY <1>3, <1>4
    <2>2. /\ AlongZ(f) \in [Contacts -> Int] /\ s \in [Contacts -> Int]
          /\ F.z \in Int /\ IsFiniteSet(Contacts)
      BY <1>2, <1>4, ShareVectorsAreTyped, LoadIsTyped
    <2>3. SumFunction(AlongZ(f)) = F.z * SumFunction(s)
      BY <2>1, <2>2, SumScales
    <2> QED BY <2>3, ShareVectorsAreTyped
  <1>8. SumVectors(f) = Vec(Whole * F.x, Whole * F.y, Whole * F.z)
    BY <1>2, <1>4, <1>5, <1>6, <1>7, LoadIsTyped
  <1> QED BY <1>1, <1>8 DEF f, F, Times

(* What one contact adds to the lever.                                     *)
LeverOf(s, center) == [c \in Contacts |-> Cross(center[c], ForceOn(s[c]))]

LEMMA LeverIsTyped ==
  ASSUME NEW s \in ShareVectors, NEW center \in [Contacts -> Vector]
  PROVE  /\ LeverOf(s, center) \in [Contacts -> Vector]
         /\ LeverMoment(s, center) = SumVectors(LeverOf(s, center))
         /\ LeverMoment(s, center) \in Vector
         /\ Residual(s, center) \in Vector
  <1>1. LeverOf(s, center) \in [Contacts -> Vector]
    <2>1. \A c \in Contacts : ForceOn(s[c]) \in Vector
      BY ShareVectorsAreTyped, LoadIsTyped, MultiplesAreVectors DEF ForceOn
    <2> QED BY <2>1, VectorsAreClosed DEF LeverOf
  <1>2. LeverMoment(s, center) = SumVectors(LeverOf(s, center))
    BY DEF LeverMoment, LeverOf
  <1>3. LeverMoment(s, center) \in Vector
    BY <1>1, <1>2, VectorSum, LoadIsTyped
  <1>4. Times(Whole, Applied.moment) \in Vector
    BY LoadIsTyped, MultiplesAreVectors
  <1>5. Residual(s, center) \in Vector
    BY <1>3, <1>4, VectorsAreClosed DEF Residual
  <1> QED BY <1>1, <1>2, <1>3, <1>5

(* One axis of one contact's moment: its lever, taken Whole times, and its *)
(* share of the couple.                                                    *)
LEMMA OneAxis ==
  ASSUME NEW w \in Int, NEW p \in Int, NEW q \in Int, NEW f \in Int, NEW g \in Int,
         NEW s \in Int, NEW r \in Int
  PROVE  (w * p) * (s * f) - (w * q) * (s * g) + s * r
           = w * (p * (s * f) - q * (s * g)) + r * s
  <1>1. (w * p) * (s * f) = w * (p * (s * f))
    OBVIOUS
  <1>2. (w * q) * (s * g) = w * (q * (s * g))
    OBVIOUS
  <1>3. \A a, b \in Int : w * (a - b) = w * a - w * b
    OBVIOUS
  <1>4. p * (s * f) \in Int /\ q * (s * g) \in Int
    OBVIOUS
  <1> QED BY <1>1, <1>2, <1>3, <1>4

(* The contacts' moments add up to the load's, whatever the shares and     *)
(* wherever the contacts are: the couple makes up what the levers leave.   *)
LEMMA MomentsAddUp ==
  ASSUME NEW s \in ShareVectors, NEW center \in [Contacts -> Vector]
  PROVE  SumVectors([c \in Contacts |->
                       Plus(Cross(Times(Whole, center[c]), ForceOn(s[c])),
                            Times(s[c], Residual(s, center)))])
           = Times(Whole * Whole, Applied.moment)
  <1> DEFINE F == Applied.force
             M == Applied.moment
             R == Residual(s, center)
             L == LeverOf(s, center)
             f == [c \in Contacts |-> Plus(Cross(Times(Whole, center[c]), ForceOn(s[c])),
                                           Times(s[c], R))]
  <1>1. F \in Vector /\ M \in Vector /\ R \in Vector /\ Whole \in Int
    BY LeverIsTyped, LoadIsTyped
  <1>2. f \in [Contacts -> Vector]
    <2> SUFFICES ASSUME NEW c \in Contacts PROVE f[c] \in Vector
      OBVIOUS
    <2>1. s[c] \in Int /\ center[c] \in Vector
      BY ShareVectorsAreTyped
    <2>2. ForceOn(s[c]) \in Vector
      BY <1>1, <2>1, MultiplesAreVectors DEF ForceOn
    <2>3. Times(Whole, center[c]) \in Vector /\ Times(s[c], R) \in Vector
      BY <1>1, <2>1, MultiplesAreVectors
    <2>4. Cross(Times(Whole, center[c]), ForceOn(s[c])) \in Vector
      BY <2>2, <2>3, VectorsAreClosed
    <2> QED BY <2>3, <2>4, VectorsAreClosed
  <1>3. \A c \in Contacts : /\ f[c].x = Whole * L[c].x + R.x * s[c]
                            /\ f[c].y = Whole * L[c].y + R.y * s[c]
                            /\ f[c].z = Whole * L[c].z + R.z * s[c]
    <2> TAKE c \in Contacts
    <2>1. /\ s[c] \in Int
          /\ center[c].x \in Int /\ center[c].y \in Int /\ center[c].z \in Int
      BY ShareVectorsAreTyped DEF Vector
    <2>2. /\ F.x \in Int /\ F.y \in Int /\ F.z \in Int
          /\ R.x \in Int /\ R.y \in Int /\ R.z \in Int
      BY <1>1 DEF Vector
    <2> HIDE DEF R
    <2>3. /\ f[c].x = (Whole * center[c].y) * (s[c] * F.z) - (Whole * center[c].z) * (s[c] * F.y)
                        + s[c] * R.x
          /\ f[c].y = (Whole * center[c].z) * (s[c] * F.x) - (Whole * center[c].x) * (s[c] * F.z)
                        + s[c] * R.y
          /\ f[c].z = (Whole * center[c].x) * (s[c] * F.y) - (Whole * center[c].y) * (s[c] * F.x)
                        + s[c] * R.z
      BY DEF Plus, Cross, Times, ForceOn, Vec
    <2>4. /\ L[c].x = center[c].y * (s[c] * F.z) - center[c].z * (s[c] * F.y)
          /\ L[c].y = center[c].z * (s[c] * F.x) - center[c].x * (s[c] * F.z)
          /\ L[c].z = center[c].x * (s[c] * F.y) - center[c].y * (s[c] * F.x)
      BY DEF LeverOf, Cross, Times, ForceOn, Vec
    <2> HIDE DEF f, L, F
    <2>5. f[c].x = Whole * L[c].x + R.x * s[c]
      BY <1>1, <2>1, <2>2, <2>3, <2>4, OneAxis
    <2>6. f[c].y = Whole * L[c].y + R.y * s[c]
      BY <1>1, <2>1, <2>2, <2>3, <2>4, OneAxis
    <2>7. f[c].z = Whole * L[c].z + R.z * s[c]
      BY <1>1, <2>1, <2>2, <2>3, <2>4, OneAxis
    <2> QED BY <2>5, <2>6, <2>7
  <1> DEFINE lx == SumFunction(AlongX(L))
             ly == SumFunction(AlongY(L))
             lz == SumFunction(AlongZ(L))
  <1>4. R = Vec(Whole * M.x - lx, Whole * M.y - ly, Whole * M.z - lz)
    <2>1. LeverMoment(s, center) = Vec(lx, ly, lz)
      BY LeverIsTyped, VectorSum, LoadIsTyped
    <2> HIDE DEF lx, ly, lz
    <2> QED BY <2>1 DEF Residual, Minus, Times, Vec
  <1> HIDE DEF f, L, R, F, M
  <1>5. /\ AlongX(f) \in [Contacts -> Int] /\ \A c \in Contacts : AlongX(f)[c] = f[c].x
        /\ AlongY(f) \in [Contacts -> Int] /\ \A c \in Contacts : AlongY(f)[c] = f[c].y
        /\ AlongZ(f) \in [Contacts -> Int] /\ \A c \in Contacts : AlongZ(f)[c] = f[c].z
        /\ SumVectors(f) = Vec(SumFunction(AlongX(f)), SumFunction(AlongY(f)),
                               SumFunction(AlongZ(f)))
    BY <1>2, AxesAreTyped, VectorSum, LoadIsTyped
  <1>6. L \in [Contacts -> Vector]
    BY LeverIsTyped DEF L
  <1>7. /\ AlongX(L) \in [Contacts -> Int] /\ \A c \in Contacts : AlongX(L)[c] = L[c].x
        /\ AlongY(L) \in [Contacts -> Int] /\ \A c \in Contacts : AlongY(L)[c] = L[c].y
        /\ AlongZ(L) \in [Contacts -> Int] /\ \A c \in Contacts : AlongZ(L)[c] = L[c].z
    BY <1>6, AxesAreTyped
  <1>8. lx \in Int /\ ly \in Int /\ lz \in Int
    BY <1>7, SumIsInteger, LoadIsTyped
  <1>9. /\ M.x \in Int /\ M.y \in Int /\ M.z \in Int
        /\ R.x \in Int /\ R.y \in Int /\ R.z \in Int
    BY <1>1 DEF Vector
  <1>10. SumFunction(AlongX(f)) = Whole * lx + R.x * Whole
    BY <1>1, <1>3, <1>5, <1>7, <1>9, ShareVectorsAreTyped, LoadIsTyped, SumIsLinear
  <1>11. SumFunction(AlongY(f)) = Whole * ly + R.y * Whole
    BY <1>1, <1>3, <1>5, <1>7, <1>9, ShareVectorsAreTyped, LoadIsTyped, SumIsLinear
  <1>12. SumFunction(AlongZ(f)) = Whole * lz + R.z * Whole
    BY <1>1, <1>3, <1>5, <1>7, <1>9, ShareVectorsAreTyped, LoadIsTyped, SumIsLinear
  <1>13. ASSUME NEW l \in Int, NEW m \in Int
         PROVE  Whole * l + (Whole * m - l) * Whole = (Whole * Whole) * m
    BY <1>1
  <1> HIDE DEF lx, ly, lz
  <1>14. R.x = Whole * M.x - lx /\ R.y = Whole * M.y - ly /\ R.z = Whole * M.z - lz
    BY <1>4 DEF Vec
  <1>15. SumVectors(f) = Vec((Whole * Whole) * M.x, (Whole * Whole) * M.y, (Whole * Whole) * M.z)
    BY <1>5, <1>8, <1>9, <1>10, <1>11, <1>12, <1>13, <1>14
  <1> QED BY <1>15 DEF f, M, R, Times
-----------------------------------------------------------------------------
(* The inductive invariant.                                                *)

(* What the interfaces say depends on the shares alone.                    *)
Tangent(c, share) == InterfaceState(c, share, Zero).tangent

(* Every state the partition is in is the decomposition of the load over   *)
(* its own shares, at its own places.                                      *)
LoadInv ==
  /\ unit.share \in ShareVectors
  /\ unit.center \in [Contacts -> Vector]
  /\ unit.freeMoment =
       [c \in Contacts |-> Times(unit.share[c], Residual(unit.share, unit.center))]
  /\ unit.sliding = Sliding(unit.share)
  /\ \A c \in Contacts : unit.interface[c].tangent = Tangent(c, unit.share[c])

(* An answer under every contact, whose sinking can be told.               *)
Measured(response) ==
  /\ response \in Responses
  /\ \A c \in Contacts : Sunk(c, response[c]) \in Int

(* The rounds: what is answered, what is remembered, and since when.       *)
RoundInv ==
  /\ phase \in {"solve", "deck", "advance", "refused", "done"}
  /\ round \in 0 .. Rounds
  /\ phase \in {"deck", "advance"} => round < Rounds
  /\ phase = "advance" /\ DOMAIN answer = Contacts => Measured(answer)
  /\ IF round = 0
       THEN unit.response = NoResponse /\ unit.remembered = NoResponse
       ELSE Measured(unit.response) /\ unit.remembered \in Memories
  /\ reason # "RESULTANT_CONSERVATION_FAILED"

(* How far the decks may be seen to have sunk.                             *)
Sinkings == {[c \in covered |-> Sunk(c, deck[s][c])] :
               covered \in SUBSET Contacts, deck \in Decks, s \in ShareVectors}

Answers == [share : ShareVectors, sunk : Sinkings]

Answered(u, response) ==
  [share |-> u.share, sunk |-> [c \in DOMAIN response |-> Sunk(c, response[c])]]

(* The history ends with what the unit still remembers, and while an       *)
(* advance is under way with what it is advanced on.                       *)
HistoryInv ==
  /\ answered \in Seq(Answers)
  /\ Len(answered) \in {round, round + 1}
  /\ phase \in {"solve", "deck", "done"} => Len(answered) = round
  /\ phase = "advance" => /\ Len(answered) = round + 1
                          /\ answered[round + 1] = Answered(unit, answer)
  /\ round > 0 => /\ answered[round].share = unit.remembered.share
                  /\ \A c \in Contacts :
                       answered[round].sunk[c] = Sunk(c, unit.response[c])

(* The compliance of every state, not only of those between two rounds.    *)
LatestInv ==
  round > 0 =>
    \A c \in Contacts :
      unit.remembered.compliance[c]
        = IF Measuring(c) = {} THEN 0 ELSE MeasuredSecant(c, Max(Measuring(c)))

(* The contacts start where they were compiled, unturned.                  *)
PlaceInv ==
  \A c \in Contacts :
    /\ unit.center[c] = IF round = 0 THEN Patch[c].center
                        ELSE Plus(Patch[c].center, unit.response[c].translation)
    /\ Patch[c].kind \in {"RECTANGULAR_PATCH", "ORIENTATION_BAND"} =>
         unit.orientation[c] = IF round = 0 THEN 0 ELSE unit.response[c].rotation.y

AdvanceInv == LoadInv /\ RoundInv /\ HistoryInv /\ LatestInv /\ PlaceInv

-----------------------------------------------------------------------------
(* What a decomposition is worth.                                          *)

(* The decomposition of the load over any shares, at any places, carries   *)
(* exactly the load, so it passes its own audit.                           *)
LEMMA DecompositionConserves ==
  ASSUME NEW s \in ShareVectors, NEW center \in [Contacts -> Vector], NEW u,
         u.share = s, u.center = center,
         u.freeMoment = [c \in Contacts |-> Times(s[c], Residual(s, center))]
  PROVE  Observed(u) = Expected /\ Conserved(u)
  <1> DEFINE f == [c \in Contacts |->
                     [point |-> Times(Whole, center[c]), force |-> ForceOn(s[c]),
                      freeMoment |-> Times(s[c], Residual(s, center))]]
  <1>1. [c \in Contacts |->
           [point |-> Times(Whole, u.center[c]), force |-> ForceOn(u.share[c]),
            freeMoment |-> u.freeMoment[c]]] = f
    OBVIOUS
  <1>2. Observed(u) = ResultantOf(f)
    BY <1>1, Zenon DEF Observed
  <1>3. DOMAIN f = Contacts
    OBVIOUS
  <1>4. [i \in DOMAIN f |-> f[i].force] = [c \in Contacts |-> ForceOn(s[c])]
    BY <1>3
  <1>5. [i \in DOMAIN f |-> Plus(Cross(f[i].point, f[i].force), f[i].freeMoment)]
          = [c \in Contacts |-> Plus(Cross(Times(Whole, center[c]), ForceOn(s[c])),
                                     Times(s[c], Residual(s, center)))]
    BY <1>3
  <1> HIDE DEF f
  <1>6. ResultantOf(f) = [force |-> Times(Whole, Applied.force),
                          moment |-> Times(Whole * Whole, Applied.moment)]
    <2>1. SumVectors([i \in DOMAIN f |-> f[i].force]) = Times(Whole, Applied.force)
      BY <1>4, ForcesAddUp
    <2>2. SumVectors([i \in DOMAIN f |-> Plus(Cross(f[i].point, f[i].force), f[i].freeMoment)])
            = Times(Whole * Whole, Applied.moment)
      BY <1>5, MomentsAddUp
    <2> QED BY <2>1, <2>2, Zenon DEF ResultantOf
  <1>7. Observed(u) = Expected
    BY <1>2, <1>6 DEF Expected
  <1>8. ASSUME NEW v \in Vector PROVE Square(Minus(v, v)) = 0
    BY DEF Square, Minus, Vec, Vector
  <1>9. Expected.force \in Vector /\ Expected.moment \in Vector
    <2>1. Whole * Whole \in Int
      BY LoadIsTyped
    <2> QED BY <2>1, LoadIsTyped, MultiplesAreVectors DEF Expected
  <1>10. 0 <= ForceTol * ForceTol /\ 0 <= MomentTol * MomentTol
    BY PartitionAssumption
  <1>11. Conserved(u)
    BY <1>7, <1>8, <1>9, <1>10 DEF Conserved, Audited
  <1> QED BY <1>7, <1>11

(* What an interface says of sticking and slipping does not depend on how  *)
(* the contact moved.                                                      *)
LEMMA TangentIgnoresMovement ==
  ASSUME NEW c, NEW share, NEW movement
  PROVE  InterfaceState(c, share, movement).tangent = Tangent(c, share)
  BY DEF InterfaceState, Tangent, Coulomb

(* A deck's answer can be measured.                                        *)
LEMMA DeckIsMeasured ==
  ASSUME NEW deck \in Decks, NEW s \in ShareVectors
  PROVE  Measured(deck[s])
  <1>1. deck[s] \in Responses
    BY PartitionAssumption
  <1>2. \A c \in Contacts : TiltGap(c, deck[s][c].rotation) \in Nat
    BY TiltAssumption
  <1>3. \A c \in Contacts : Sunk(c, deck[s][c]) \in Int
    BY <1>1, <1>2 DEF Sunk, Responses, Vector
  <1> QED BY <1>1, <1>3 DEF Measured

LEMMA WeightIsPositive ==
  /\ Weight \in Int /\ Weight > 0 /\ Applied.force.y = -Weight
  /\ ForceTol \in Int /\ ForceTol > 0
  BY PartitionAssumption DEF Weight, Abs, Vector

LEMMA SecantIsAnInteger ==
  ASSUME NEW sinking \in Int, NEW change \in Int, change # 0
  PROVE  Secant(sinking, change) \in Int
  <1>1. ASSUME NEW n \in Int, n > 0 PROVE ComplianceDen \div n \in Int
    <2>1. ComplianceDen \in Int
      BY PartitionAssumption
    <2> QED BY <1>1, <2>1
  <1>2. CASE change < 0
    <2>1. -change \in Int /\ -change > 0
      BY <1>2
    <2>2. ComplianceDen \div (-change) \in Int
      BY <1>1, <2>1
    <2> QED BY <1>2, <2>2 DEF Secant
  <1>3. CASE ~(change < 0)
    <2>1. ComplianceDen \div change \in Int
      BY <1>1, <1>3
    <2> QED BY <1>3, <2>1 DEF Secant
  <1> QED BY <1>2, <1>3

(* A change of force worth measuring is a change.                          *)
LEMMA MeasurableChange ==
  ASSUME NEW change \in Int
  PROVE  /\ Weight * Abs(change) \in Int
         /\ ~(Weight * Abs(change) <= ForceTol) => change # 0
  <1>1. Abs(change) \in Int /\ (change = 0 => Abs(change) = 0)
    BY DEF Abs
  <1>2. Weight * 0 = 0
    BY WeightIsPositive
  <1> QED BY <1>1, <1>2, WeightIsPositive

-----------------------------------------------------------------------------
(* Every step keeps the invariant.                                         *)

LEMMA InitAdvanceInv == Init => AdvanceInv
  <1> SUFFICES ASSUME Init PROVE AdvanceInv
    OBVIOUS
  <1> DEFINE start == [c \in Contacts |-> Patch[c].center]
  <1>1. PICK s \in ShareVectors : unit = Compiled(s)
    BY DEF Init
  <1>2. /\ unit.share = s /\ unit.center = start
        /\ unit.orientation = [c \in Contacts |-> 0]
        /\ unit.freeMoment = [c \in Contacts |-> Times(s[c], Residual(s, start))]
        /\ unit.interface = [c \in Contacts |-> InterfaceState(c, s[c], Zero)]
        /\ unit.sliding = Sliding(s)
        /\ unit.response = NoResponse /\ unit.remembered = NoResponse
    BY <1>1 DEF Compiled
  <1>3. start \in [Contacts -> Vector]
    BY PartitionAssumption
  <1>4. LoadInv
    <2> HIDE DEF start
    <2> QED BY <1>2, <1>3 DEF LoadInv, Tangent
  <1>5. RoundInv
    BY <1>2, PartitionAssumption DEF RoundInv, Init
  <1>6. HistoryInv
    BY DEF HistoryInv, Init
  <1>7. LatestInv
    BY DEF LatestInv, Init
  <1>8. PlaceInv
    BY <1>2 DEF PlaceInv, Init
  <1> QED BY <1>4, <1>5, <1>6, <1>7, <1>8 DEF AdvanceInv

(* Steps that leave the unit and its history alone, and forget no answer.  *)
LEMMA QuietStep ==
  ASSUME AdvanceInv, UNCHANGED << unit, answer, round, answered >>,
         phase' \in {phase, "deck", "refused", "done"},
         phase' = "deck" => \/ phase = "solve" /\ round < Rounds
                            \/ phase = "deck",
         phase' = "done" => phase \in {"solve", "done"},
         reason' # "RESULTANT_CONSERVATION_FAILED"
  PROVE  AdvanceInv'
  <1>1. LoadInv'
    BY DEF AdvanceInv, LoadInv
  <1>2. RoundInv'
    BY DEF AdvanceInv, RoundInv
  <1>3. HistoryInv'
    BY DEF AdvanceInv, HistoryInv
  <1>4. LatestInv'
    BY DEF AdvanceInv, LatestInv, Measuring, MeasuredSecant, ForceChange
  <1>5. PlaceInv'
    BY DEF AdvanceInv, PlaceInv
  <1> QED BY <1>1, <1>2, <1>3, <1>4, <1>5 DEF AdvanceInv

(* A state the invariant holds of is never refused as unconserved.         *)
LEMMA UnitIsConserved ==
  ASSUME LoadInv
  PROVE  Observed(unit) = Expected /\ Conserved(unit)
  BY DecompositionConserves DEF LoadInv

(* The latest measuring round of a nonempty set is one of it.              *)
LEMMA LatestIsMeasuring ==
  ASSUME NEW n \in Nat, NEW S \in SUBSET (1 .. n), S # {}
  PROVE  Max(S) \in S /\ \A i \in S : Max(S) >= i
  <1>1. \E x \in S : \A y \in S : x >= y
    <2> DEFINE Above == {k \in Nat : \A y \in S : k >= y}
    <2>1. n \in Above
      OBVIOUS
    <2>2. PICK k \in Above : \A l \in Above : ~(<< l, k >> \in OpToRel(<, Nat))
      <3>1. Above \subseteq Nat /\ Above # {}
        BY <2>1
      <3> HIDE DEF Above
      <3> QED BY <3>1, NatLessThanWellFounded, WFMin
    <2>3. k \in S
      <3> SUFFICES ASSUME k \notin S PROVE FALSE
        OBVIOUS
      <3>1. \A y \in S : y \in Nat /\ y >= 1 /\ y # k
        OBVIOUS
      <3>2. k \in Nat /\ \A y \in S : k >= y
        OBVIOUS
      <3>3. k - 1 \in Nat /\ \A y \in S : k - 1 >= y
        <4>1. PICK y \in S : TRUE
          OBVIOUS
        <4>2. k > 0
          BY <3>1, <3>2, <4>1
        <4>3. ASSUME NEW z \in S PROVE k - 1 >= z
          BY <3>1, <3>2
        <4> QED BY <3>2, <4>2, <4>3
      <3>4. << k - 1, k >> \in OpToRel(<, Nat)
        BY <3>2, <3>3 DEF OpToRel
      <3> QED BY <2>2, <3>3, <3>4
    <2> QED BY <2>2, <2>3
  <1> QED BY <1>1 DEF Max

(* Rounds already measured, and what they measured, stay.                  *)
LEMMA LatestStays ==
  ASSUME LatestInv, round \in Nat, UNCHANGED << unit, round >>,
         \A i \in 1 .. round : answered'[i] = answered[i]
  PROVE  LatestInv'
  <1> SUFFICES ASSUME round > 0, NEW c \in Contacts
               PROVE  (unit.remembered.compliance[c]
                         = IF Measuring(c) = {} THEN 0
                           ELSE MeasuredSecant(c, Max(Measuring(c))))'
    BY DEF LatestInv
  <1>1. ASSUME NEW i \in 2 .. round
        PROVE  /\ ForceChange(c, i)' = ForceChange(c, i)
               /\ MeasuredSecant(c, i)' = MeasuredSecant(c, i)
    <2>1. i \in 1 .. round /\ i - 1 \in 1 .. round
      OBVIOUS
    <2>2. answered'[i] = answered[i] /\ answered'[i - 1] = answered[i - 1]
      BY <2>1
    <2> QED BY <2>2 DEF ForceChange, MeasuredSecant
  <1>2. Measuring(c)' = Measuring(c)
    BY <1>1 DEF Measuring
  <1>3. Measuring(c) # {} => Max(Measuring(c)) \in Measuring(c)
    <2>1. Measuring(c) \in SUBSET (1 .. round)
      BY DEF Measuring
    <2> QED BY <2>1, LatestIsMeasuring
  <1>4. unit.remembered.compliance[c]
          = IF Measuring(c) = {} THEN 0 ELSE MeasuredSecant(c, Max(Measuring(c)))
    BY DEF LatestInv
  <1>5. CASE Measuring(c) = {}
    BY <1>2, <1>4, <1>5
  <1>6. CASE Measuring(c) # {}
    <2>1. PICK m \in Measuring(c) : m = Max(Measuring(c))
      BY <1>3, <1>6
    <2>2. m \in 2 .. round
      BY DEF Measuring
    <2>3. MeasuredSecant(c, m)' = MeasuredSecant(c, m)
      BY <1>1, <2>2
    <2>4. Max(Measuring(c))' = m
      BY <1>2, <2>1
    <2> QED BY <1>2, <1>4, <1>6, <2>1, <2>3, <2>4 DEF MeasuredSecant, ForceChange
  <1> QED BY <1>5, <1>6

LEMMA DeckStep ==
  ASSUME AdvanceInv, NEW deck \in Decks, NEW covered \in SUBSET Contacts,
         DeckAnswers(deck, covered)
  PROVE  AdvanceInv'
  <1> DEFINE response == deck[unit.share]
             entry    == [share |-> unit.share,
                          sunk  |-> [c \in covered |-> Sunk(c, response[c])]]
  <1>1. /\ phase = "deck" /\ phase' = "advance"
        /\ answer' = Restrict(response, covered)
        /\ answered' = Append(answered, entry)
        /\ UNCHANGED << unit, reason, round >>
    BY DEF DeckAnswers
  <1>2. unit.share \in ShareVectors
    BY DEF AdvanceInv, LoadInv
  <1>3. Measured(response)
    BY <1>2, DeckIsMeasured
  <1>4. answer' = [c \in covered |-> response[c]]
    BY <1>1 DEF Restrict
  <1>5. ASSUME covered = Contacts PROVE answer' = response
    <2>1. response \in [Contacts -> [translation : Vector, rotation : Vector]]
      BY <1>3 DEF Measured, Responses
    <2> HIDE DEF response
    <2> QED BY <1>4, <1>5, <2>1
  <1>6. entry \in Answers
    <2>1. [c \in covered |-> Sunk(c, response[c])] \in Sinkings
      BY <1>2 DEF Sinkings
    <2> HIDE DEF response
    <2> QED BY <1>2, <2>1 DEF Answers
  <1>7. Answered(unit, answer)' = entry
    <2>1. unit' = unit /\ DOMAIN answer' = covered
      BY <1>1, <1>4
    <2>2. \A c \in covered : answer'[c] = response[c]
      BY <1>4
    <2> HIDE DEF response
    <2>3. [c \in DOMAIN answer' |-> Sunk(c, answer'[c])] = [c \in covered |-> Sunk(c, response[c])]
      BY <2>1, <2>2
    <2> QED BY <2>1, <2>3 DEF Answered
  <1> HIDE DEF response, entry
  <1>8. /\ answered \in Seq(Answers) /\ Len(answered) = round
        /\ round \in Nat /\ round < Rounds
    BY <1>1, PartitionAssumption DEF AdvanceInv, HistoryInv, RoundInv
  <1>9. /\ answered' \in Seq(Answers) /\ Len(answered') = round + 1
        /\ answered'[round + 1] = entry
        /\ \A i \in 1 .. round : answered'[i] = answered[i]
    BY <1>1, <1>6, <1>8
  <1>10. LoadInv'
    BY <1>1 DEF AdvanceInv, LoadInv
  <1>11. RoundInv'
    <2>1. (DOMAIN answer = Contacts => Measured(answer))'
      BY <1>3, <1>4, <1>5
    <2> QED BY <1>1, <1>8, <2>1 DEF AdvanceInv, RoundInv
  <1>12. HistoryInv'
    <2>1. round > 0 => round \in 1 .. round
      BY <1>8
    <2>2. round > 0 => /\ answered'[round].share = unit.remembered.share
                      /\ \A c \in Contacts :
                           answered'[round].sunk[c] = Sunk(c, unit.response[c])
      BY <1>9, <2>1 DEF AdvanceInv, HistoryInv
    <2> QED BY <1>1, <1>7, <1>8, <1>9, <2>2 DEF HistoryInv
  <1>13. LatestInv'
    BY <1>1, <1>8, <1>9, LatestStays DEF AdvanceInv
  <1>14. PlaceInv'
    BY <1>1 DEF AdvanceInv, PlaceInv
  <1> QED BY <1>10, <1>11, <1>12, <1>13, <1>14 DEF AdvanceInv

(* The movement since the last answer, and where it takes the contacts.    *)
LEMMA MovementIsTyped ==
  ASSUME AdvanceInv, NEW response, Measured(response)
  PROVE  /\ Moved(unit, response) \in [Contacts -> Vector]
         /\ \A c \in Contacts :
              /\ response[c].translation \in Vector /\ response[c].rotation \in Vector
              /\ Moved(unit, response)[c]
                   = IF round = 0
                       THEN Plus(unit.center[c], Minus(response[c].translation, Zero))
                       ELSE Plus(unit.center[c],
                                 Minus(response[c].translation, unit.response[c].translation))
              /\ Delta(unit, response, c).rotation.y
                   = IF round = 0 THEN response[c].rotation.y - 0
                     ELSE response[c].rotation.y - unit.response[c].rotation.y
              /\ round > 0 => unit.response[c].translation \in Vector
                             /\ unit.response[c].rotation \in Vector
  <1>1. \A c \in Contacts :
          response[c].translation \in Vector /\ response[c].rotation \in Vector
    BY DEF Measured, Responses
  <1>2. round \in Nat /\ (round = 0 => unit.response = NoResponse)
        /\ (round > 0 => unit.response \in Responses /\ unit.response # NoResponse)
    BY NoneAssumption, PartitionAssumption DEF AdvanceInv, RoundInv, Measured
  <1>3. \A c \in Contacts : round > 0 => unit.response[c].translation \in Vector
                                        /\ unit.response[c].rotation \in Vector
    BY <1>2 DEF Responses
  <1>4. ASSUME NEW c \in Contacts
        PROVE  /\ Moved(unit, response)[c]
                    = IF round = 0
                        THEN Plus(unit.center[c], Minus(response[c].translation, Zero))
                        ELSE Plus(unit.center[c],
                                  Minus(response[c].translation, unit.response[c].translation))
               /\ Delta(unit, response, c).rotation.y
                    = IF round = 0 THEN response[c].rotation.y - 0
                      ELSE response[c].rotation.y - unit.response[c].rotation.y
    <2>1. CASE round = 0
      <3>1. Delta(unit, response, c)
              = [translation |-> Minus(response[c].translation, Zero),
                 rotation    |-> Minus(response[c].rotation, Zero)]
        BY <1>2, <2>1 DEF Delta
      <3>2. Delta(unit, response, c).rotation.y = response[c].rotation.y - 0
        BY <3>1 DEF Minus, Vec, Zero
      <3> QED BY <2>1, <3>1, <3>2 DEF Moved
    <2>2. CASE round > 0
      <3>1. Delta(unit, response, c)
              = [translation |-> Minus(response[c].translation, unit.response[c].translation),
                 rotation    |-> Minus(response[c].rotation, unit.response[c].rotation)]
        BY <1>2, <2>2 DEF Delta
      <3>2. Delta(unit, response, c).rotation.y
              = response[c].rotation.y - unit.response[c].rotation.y
        BY <3>1 DEF Minus, Vec
      <3> QED BY <2>2, <3>1, <3>2 DEF Moved
    <2> QED BY <1>2, <2>1, <2>2
  <1>5. \A c \in Contacts : unit.center[c] \in Vector
    BY DEF AdvanceInv, LoadInv
  <1>6. \A c \in Contacts : Moved(unit, response)[c] \in Vector
    <2> TAKE c \in Contacts
    <2>1. CASE round = 0
      <3>1. Minus(response[c].translation, Zero) \in Vector
        BY <1>1, ZeroIsAVector, VectorsAreClosed
      <3> QED BY <1>4, <1>5, <2>1, <3>1, VectorsAreClosed
    <2>2. CASE round > 0
      <3>1. Minus(response[c].translation, unit.response[c].translation) \in Vector
        BY <1>1, <1>3, <2>2, VectorsAreClosed
      <3> QED BY <1>4, <1>5, <2>2, <3>1, VectorsAreClosed
    <2> QED BY <1>2, <2>1, <2>2
  <1>7. Moved(unit, response) \in [Contacts -> Vector]
    <2>1. DOMAIN Moved(unit, response) = Contacts
      BY DEF Moved
    <2>2. Moved(unit, response) = [c \in Contacts |-> Moved(unit, response)[c]]
      BY DEF Moved
    <2> QED BY <1>6, <2>2
  <1> QED BY <1>1, <1>3, <1>4, <1>7

(* Moving by the difference of two answers lands on the last one.          *)
LEMMA DifferencesTelescope ==
  ASSUME NEW p \in Vector, NEW t \in Vector, NEW last \in Vector
  PROVE  /\ Plus(Plus(p, last), Minus(t, last)) = Plus(p, t)
         /\ Plus(p, Minus(t, Zero)) = Plus(p, t)
  BY DEF Plus, Minus, Vec, Zero, Vector

(* What an advance measures under a contact, and what it remembers of it.  *)
LEMMA ComplianceIsMeasured ==
  ASSUME AdvanceInv, NEW response, Measured(response), NEW c \in Contacts
  PROVE  /\ Compliance(unit, response)[c] \in Nat
         /\ round = 0 => Compliance(unit, response)[c] = 0
         /\ round > 0 =>
              LET change == unit.share[c] - unit.remembered.share[c]
                  secant == Secant(Sunk(c, response[c]) - Sunk(c, unit.response[c]), change)
              IN  /\ Weight * Abs(change) \in Int
                  /\ Compliance(unit, response)[c]
                       = IF ~(Weight * Abs(change) <= ForceTol) /\ secant > 0
                           THEN secant ELSE unit.remembered.compliance[c]
  <1>1. round \in Nat
    BY PartitionAssumption DEF AdvanceInv, RoundInv
  <1>2. CASE round = 0
    <2>1. Compliance(unit, response)[c] = 0
      BY <1>2 DEF AdvanceInv, RoundInv, Compliance
    <2> QED BY <1>2, <2>1
  <1>3. CASE round > 0
    <2> DEFINE change == unit.share[c] - unit.remembered.share[c]
               secant == Secant(Sunk(c, response[c]) - Sunk(c, unit.response[c]), change)
    <2>1. /\ unit.response \in Responses /\ unit.response # NoResponse
          /\ unit.remembered \in Memories /\ unit.remembered # NoResponse
          /\ Sunk(c, unit.response[c]) \in Int /\ Sunk(c, response[c]) \in Int
      BY <1>3, NoneAssumption DEF AdvanceInv, RoundInv, Measured
    <2>2. /\ unit.remembered.share \in ShareVectors
          /\ unit.remembered.compliance \in [Contacts -> Nat]
          /\ unit.share \in ShareVectors
      BY <2>1 DEF Memories, AdvanceInv, LoadInv
    <2>3. change \in Int
      BY <2>2, ShareVectorsAreTyped
    <2>4. Compliance(unit, response)[c]
            = IF Weight * Abs(change) <= ForceTol THEN unit.remembered.compliance[c]
              ELSE IF secant > 0 THEN secant ELSE unit.remembered.compliance[c]
      BY <2>1 DEF Compliance
    <2> HIDE DEF change
    <2>5. Weight * Abs(change) \in Int
      BY <2>3, MeasurableChange
    <2>6. ~(Weight * Abs(change) <= ForceTol) => secant \in Int
      BY <2>1, <2>3, MeasurableChange, SecantIsAnInteger
    <2> HIDE DEF secant
    <2>7. unit.remembered.compliance[c] \in Nat
      BY <2>2
    <2>8. Compliance(unit, response)[c] \in Nat
      BY <2>4, <2>6, <2>7
    <2>9. Compliance(unit, response)[c]
            = IF ~(Weight * Abs(change) <= ForceTol) /\ secant > 0
                THEN secant ELSE unit.remembered.compliance[c]
      BY <2>4
    <2> QED BY <1>3, <2>5, <2>8, <2>9 DEF change, secant
  <1> QED BY <1>1, <1>2, <1>3

(* An advance is never refused by its own audit, and what it leaves.       *)
LEMMA AdvanceSucceeds ==
  ASSUME AdvanceInv, NEW s \in ShareVectors, Advance(s)
  PROVE  /\ phase = "advance" /\ phase' = "solve" /\ round' = round + 1
         /\ UNCHANGED << reason, answered >>
         /\ DOMAIN answer = Contacts /\ Measured(answer)
         /\ unit'.share = s /\ unit'.center = Moved(unit, answer)
         /\ unit'.freeMoment = [c \in Contacts |-> Times(s[c], Residual(s, Moved(unit, answer)))]
         /\ unit'.orientation =
              [c \in Contacts |->
                 IF Patch[c].kind \in {"RECTANGULAR_PATCH", "ORIENTATION_BAND"}
                   THEN unit.orientation[c] + Delta(unit, answer, c).rotation.y
                   ELSE unit.orientation[c]]
         /\ unit'.sliding = Sliding(s)
         /\ unit'.interface =
              [c \in Contacts |-> InterfaceState(c, s[c], answer[c].translation)]
         /\ unit'.response = answer
         /\ unit'.remembered = [share |-> unit.share, compliance |-> Compliance(unit, answer)]
  <1> DEFINE next == Advanced(unit, answer, s)
  <1>1. phase = "advance" /\ DOMAIN answer = Contacts
    BY DEF Advance, CoverageRefusal
  <1>2. Measured(answer)
    BY <1>1 DEF AdvanceInv, RoundInv
  <1>3. Moved(unit, answer) \in [Contacts -> Vector]
    BY <1>2, MovementIsTyped
  <1>4. /\ next.share = s /\ next.center = Moved(unit, answer)
        /\ next.freeMoment = [c \in Contacts |-> Times(s[c], Residual(s, Moved(unit, answer)))]
        /\ next.orientation =
             [c \in Contacts |->
                IF Patch[c].kind \in {"RECTANGULAR_PATCH", "ORIENTATION_BAND"}
                  THEN unit.orientation[c] + Delta(unit, answer, c).rotation.y
                  ELSE unit.orientation[c]]
        /\ next.sliding = Sliding(s)
        /\ next.interface =
             [c \in Contacts |-> InterfaceState(c, s[c], answer[c].translation)]
        /\ next.response = answer
        /\ next.remembered = [share |-> unit.share, compliance |-> Compliance(unit, answer)]
    BY DEF Advanced, Memory
  <1> HIDE DEF next
  <1>5. Conserved(next)
    BY <1>3, <1>4, DecompositionConserves
  <1>6. unit' = next /\ phase' = "solve" /\ round' = round + 1 /\ UNCHANGED << reason, answered >>
    BY <1>5 DEF Advance, next
  <1> QED BY <1>1, <1>2, <1>4, <1>6

LEMMA AdvanceStep ==
  ASSUME AdvanceInv, NEW s \in ShareVectors, Advance(s)
  PROVE  AdvanceInv'
  <1>1. /\ phase = "advance" /\ phase' = "solve" /\ round' = round + 1
        /\ UNCHANGED << reason, answered >>
        /\ DOMAIN answer = Contacts /\ Measured(answer)
        /\ unit'.share = s /\ unit'.center = Moved(unit, answer)
        /\ unit'.freeMoment = [c \in Contacts |-> Times(s[c], Residual(s, Moved(unit, answer)))]
        /\ unit'.orientation =
             [c \in Contacts |->
                IF Patch[c].kind \in {"RECTANGULAR_PATCH", "ORIENTATION_BAND"}
                  THEN unit.orientation[c] + Delta(unit, answer, c).rotation.y
                  ELSE unit.orientation[c]]
        /\ unit'.sliding = Sliding(s)
        /\ unit'.interface =
             [c \in Contacts |-> InterfaceState(c, s[c], answer[c].translation)]
        /\ unit'.response = answer
        /\ unit'.remembered = [share |-> unit.share, compliance |-> Compliance(unit, answer)]
    BY AdvanceSucceeds
  <1>2. round \in 0 .. Rounds /\ round < Rounds /\ Rounds \in Nat
    BY <1>1, PartitionAssumption DEF AdvanceInv, RoundInv
  <1>3. /\ Moved(unit, answer) \in [Contacts -> Vector]
        /\ unit.share \in ShareVectors
    BY <1>1, MovementIsTyped DEF AdvanceInv, LoadInv
  <1>4. LoadInv'
    <2>1. \A c \in Contacts : unit'.interface[c].tangent = Tangent(c, unit'.share[c])
      BY <1>1, TangentIgnoresMovement
    <2>2. (\A c \in Contacts : unit.interface[c].tangent = Tangent(c, unit.share[c]))'
      BY <2>1 DEF Tangent, InterfaceState, ForceOn
    <2>3. (unit.sliding = Sliding(unit.share))'
      BY <1>1
    <2>4. (unit.freeMoment =
             [c \in Contacts |-> Times(unit.share[c], Residual(unit.share, unit.center))])'
      BY <1>1
    <2>5. (unit.share \in ShareVectors /\ unit.center \in [Contacts -> Vector])'
      BY <1>1, <1>3
    <2> QED BY <2>2, <2>3, <2>4, <2>5 DEF LoadInv
  <1>5. unit'.remembered \in Memories
    <2>1. Compliance(unit, answer) \in [Contacts -> Nat]
      <3>1. \A c \in Contacts : Compliance(unit, answer)[c] \in Nat
        BY <1>1, ComplianceIsMeasured
      <3>2. Compliance(unit, answer) = [c \in Contacts |-> Compliance(unit, answer)[c]]
        BY DEF Compliance
      <3> QED BY <3>1, <3>2
    <2> QED BY <1>1, <1>3, <2>1 DEF Memories
  <1>6. RoundInv'
    <2>1. Measured(unit.response)'
      BY <1>1 DEF Measured, Sunk, TiltGap
    <2>2. round' # 0 /\ round' \in 0 .. Rounds
      BY <1>1, <1>2
    <2>3. (reason # "RESULTANT_CONSERVATION_FAILED")'
      BY <1>1 DEF AdvanceInv, RoundInv
    <2> QED BY <1>1, <1>5, <2>1, <2>2, <2>3 DEF RoundInv
  <1>7. /\ answered \in Seq(Answers) /\ Len(answered) = round + 1
        /\ answered[round + 1] = Answered(unit, answer)
    BY <1>1 DEF AdvanceInv, HistoryInv
  <1>8. /\ answered[round + 1].share = unit.share
        /\ \A c \in Contacts : answered[round + 1].sunk[c] = Sunk(c, answer[c])
    BY <1>1, <1>7 DEF Answered
  <1>9. HistoryInv'
    <2>1. (\A c \in Contacts : answered[round].sunk[c] = Sunk(c, unit.response[c]))'
      BY <1>1, <1>8 DEF Sunk, TiltGap
    <2> QED BY <1>1, <1>2, <1>7, <1>8, <2>1 DEF HistoryInv
  <1>10. LatestInv'
    <2> SUFFICES ASSUME NEW c \in Contacts
                 PROVE  (unit.remembered.compliance[c]
                           = IF Measuring(c) = {} THEN 0
                             ELSE MeasuredSecant(c, Max(Measuring(c))))'
      BY DEF LatestInv
    <2> DEFINE K       == round + 1
               good(i) == /\ Weight * Abs(ForceChange(c, i)) > ForceTol
                          /\ MeasuredSecant(c, i) > 0
               was     == Measuring(c)
               now     == {i \in 2 .. K : good(i)}
    <2>1. unit'.remembered.compliance[c] = Compliance(unit, answer)[c]
      BY <1>1
    <2>2. Measuring(c)' = now
      BY <1>1 DEF Measuring, ForceChange, MeasuredSecant
    <2>3. \A i : MeasuredSecant(c, i)' = MeasuredSecant(c, i)
      BY <1>1 DEF MeasuredSecant, ForceChange
    <2>4. SUFFICES Compliance(unit, answer)[c]
                     = IF now = {} THEN 0 ELSE MeasuredSecant(c, Max(now))
      <3> HIDE DEF now
      <3> QED BY <1>1, <2>1, <2>2 DEF MeasuredSecant, ForceChange
    <2>5. CASE round = 0
      <3>1. now = {}
        BY <2>5
      <3>2. Compliance(unit, answer)[c] = 0
        BY <1>1, <2>5, ComplianceIsMeasured
      <3> QED BY <3>1, <3>2
    <2>6. CASE round > 0
      <3> DEFINE change == unit.share[c] - unit.remembered.share[c]
                 secant == Secant(Sunk(c, answer[c]) - Sunk(c, unit.response[c]), change)
      <3>1. /\ answered[round].share = unit.remembered.share
            /\ answered[round].sunk[c] = Sunk(c, unit.response[c])
        BY <2>6 DEF AdvanceInv, HistoryInv
      <3>2. K - 1 = round /\ K \in 2 .. K /\ K \in Nat
        BY <1>2, <2>6
      <3>3. ForceChange(c, K) = change /\ MeasuredSecant(c, K) = secant
        BY <1>8, <3>1, <3>2 DEF ForceChange, MeasuredSecant
      <3>4. /\ Weight * Abs(change) \in Int
            /\ Compliance(unit, answer)[c]
                 = IF ~(Weight * Abs(change) <= ForceTol) /\ secant > 0
                     THEN secant ELSE unit.remembered.compliance[c]
        BY <1>1, <2>6, ComplianceIsMeasured
      <3>5. now = was \cup (IF good(K) THEN {K} ELSE {})
        BY <1>2, <2>6 DEF Measuring
      <3>6. was \in SUBSET (1 .. round) /\ now \in SUBSET (1 .. K)
        BY <1>2 DEF Measuring
      <3>7. good(K) <=> ~(Weight * Abs(change) <= ForceTol) /\ secant > 0
        <4> HIDE DEF change, secant
        <4> QED BY <3>3, <3>4, WeightIsPositive
      <3> HIDE DEF change, secant, now, good, was
      <3>8. CASE good(K)
        <4>1. now # {} /\ K \in now
          BY <3>5, <3>8
        <4>2. Max(now) \in now /\ Max(now) >= K
          BY <3>2, <3>6, <4>1, LatestIsMeasuring
        <4>3. Max(now) = K
          <5>1. Max(now) \in 1 .. K
            BY <3>6, <4>2
          <5> HIDE DEF K
          <5> QED BY <3>2, <4>2, <5>1
        <4> QED BY <3>3, <3>4, <3>7, <3>8, <4>1, <4>3
      <3>9. CASE ~good(K)
        <4>1. now = was
          BY <3>5, <3>9
        <4>2. unit.remembered.compliance[c]
                = IF was = {} THEN 0 ELSE MeasuredSecant(c, Max(was))
          BY <2>6 DEF AdvanceInv, LatestInv, was
        <4> QED BY <3>4, <3>7, <3>9, <4>1, <4>2
      <3> QED BY <3>8, <3>9
    <2> QED BY <1>2, <2>5, <2>6
  <1>11. PlaceInv'
    <2> SUFFICES ASSUME NEW c \in Contacts
                 PROVE  /\ unit'.center[c] = Plus(Patch[c].center, answer[c].translation)
                        /\ Patch[c].kind \in {"RECTANGULAR_PATCH", "ORIENTATION_BAND"} =>
                             unit'.orientation[c] = answer[c].rotation.y
      <3>1. round' # 0
        BY <1>1, <1>2
      <3> QED BY <1>1, <3>1 DEF PlaceInv
    <2>1. Patch[c].center \in Vector
      BY PartitionAssumption
    <2>2. /\ answer[c].translation \in Vector /\ answer[c].rotation \in Vector
          /\ round > 0 => unit.response[c].translation \in Vector
                         /\ unit.response[c].rotation \in Vector
      BY <1>1, MovementIsTyped
    <2>3. unit'.center[c] = Plus(Patch[c].center, answer[c].translation)
      <3>1. CASE round = 0
        <4>1. unit'.center[c] = Plus(Patch[c].center, Minus(answer[c].translation, Zero))
          BY <1>1, <3>1, MovementIsTyped DEF AdvanceInv, PlaceInv
        <4> QED BY <2>1, <2>2, <4>1, ZeroIsAVector, DifferencesTelescope
      <3>2. CASE round > 0
        <4>1. unit'.center[c]
                = Plus(Plus(Patch[c].center, unit.response[c].translation),
                       Minus(answer[c].translation, unit.response[c].translation))
          BY <1>1, <3>2, MovementIsTyped DEF AdvanceInv, PlaceInv
        <4> QED BY <2>1, <2>2, <3>2, <4>1, DifferencesTelescope
      <3> QED BY <1>2, <3>1, <3>2
    <2>4. ASSUME Patch[c].kind \in {"RECTANGULAR_PATCH", "ORIENTATION_BAND"}
          PROVE  unit'.orientation[c] = answer[c].rotation.y
      <3>1. unit'.orientation[c] = unit.orientation[c] + Delta(unit, answer, c).rotation.y
        BY <1>1, <2>4
      <3>2. answer[c].rotation.y \in Int /\ (round > 0 => unit.response[c].rotation.y \in Int)
        BY <2>2 DEF Vector
      <3>3. CASE round = 0
        <4>1. unit.orientation[c] = 0
          BY <2>4, <3>3 DEF AdvanceInv, PlaceInv
        <4>2. Delta(unit, answer, c).rotation.y = answer[c].rotation.y - 0
          BY <1>1, <3>3, MovementIsTyped
        <4> QED BY <3>1, <3>2, <4>1, <4>2
      <3>4. CASE round > 0
        <4>1. unit.orientation[c] = unit.response[c].rotation.y
          BY <2>4, <3>4 DEF AdvanceInv, PlaceInv
        <4>2. Delta(unit, answer, c).rotation.y
                = answer[c].rotation.y - unit.response[c].rotation.y
          BY <1>1, <3>4, MovementIsTyped
        <4> QED BY <3>1, <3>2, <3>4, <4>1, <4>2
      <3> QED BY <1>2, <3>3, <3>4
    <2> QED BY <2>3, <2>4
  <1> QED BY <1>4, <1>6, <1>9, <1>10, <1>11 DEF AdvanceInv

(* No other step touches the unit.                                         *)
LEMMA AdvanceInductive == AdvanceInv /\ [Next]_vars => AdvanceInv'
  <1> SUFFICES ASSUME AdvanceInv, [Next]_vars PROVE AdvanceInv'
    OBVIOUS
  <1>1. /\ phase \in {"solve", "deck", "advance", "refused", "done"}
        /\ reason # "RESULTANT_CONSERVATION_FAILED"
    BY DEF AdvanceInv, RoundInv
  <1>2. CASE \E sameEvent \in BOOLEAN : Solve(sameEvent)
    <2>1. Conserved(unit)
      BY UnitIsConserved DEF AdvanceInv
    <2>2. /\ UNCHANGED << unit, answer, round, answered >>
          /\ reason' # "RESULTANT_CONSERVATION_FAILED"
          /\ phase' = "refused" \/ (phase' = "deck" /\ phase = "solve" /\ round < Rounds)
      BY <1>1, <1>2, <2>1 DEF Solve, Refuse
    <2> QED BY <2>2, QuietStep
  <1>3. CASE \E deck \in Decks, covered \in {Contacts} \cup {Contacts \ {c} : c \in Contacts} :
               DeckAnswers(deck, covered)
    BY <1>3, DeckStep
  <1>4. CASE AdvanceRefused \/ EquilibriumLost
    <2>1. /\ UNCHANGED << unit, answer, round, answered >>
          /\ reason' # "RESULTANT_CONSERVATION_FAILED"
          /\ phase' = "refused"
      BY <1>4 DEF AdvanceRefused, EquilibriumLost, CoverageRefusal, Refuse
    <2> QED BY <2>1, QuietStep
  <1>5. CASE \E s \in ShareVectors : Advance(s)
    BY <1>5, AdvanceStep
  <1>6. CASE Finish
    <2>1. /\ UNCHANGED << unit, answer, round, answered >>
          /\ reason' # "RESULTANT_CONSERVATION_FAILED"
          /\ phase = "solve" /\ phase' = "done"
      BY <1>1, <1>6 DEF Finish
    <2> QED BY <2>1, QuietStep
  <1>7. CASE Ended \/ UNCHANGED vars
    <2>1. UNCHANGED << unit, answer, phase, reason, round, answered >>
      BY <1>7 DEF Ended, vars
    <2>2. phase' = "deck" => round < Rounds
      BY <2>1 DEF AdvanceInv, RoundInv
    <2> QED BY <1>1, <2>1, <2>2, QuietStep
  <1> QED BY <1>2, <1>3, <1>4, <1>5, <1>6, <1>7 DEF Next

LEMMA AdvanceInvHolds == Spec => []AdvanceInv
  BY InitAdvanceInv, AdvanceInductive, PTL DEF Spec

(* The partition's state is typed in every reachable state: the shares     *)
(* share out the whole load and no compliance is ever negative.            *)
THEOREM PartitionTypeCorrect == Spec => []TypeOK
  <1>1. AdvanceInv => TypeOK
    <2> SUFFICES ASSUME AdvanceInv PROVE TypeOK
      OBVIOUS
    <2>1. unit.freeMoment \in [Contacts -> Vector]
      <3>1. Residual(unit.share, unit.center) \in Vector
        BY LeverIsTyped DEF AdvanceInv, LoadInv
      <3>2. \A c \in Contacts : unit.share[c] \in Int
        BY ShareVectorsAreTyped DEF AdvanceInv, LoadInv
      <3>3. \A c \in Contacts :
              Times(unit.share[c], Residual(unit.share, unit.center)) \in Vector
        BY <3>1, <3>2, MultiplesAreVectors
      <3> QED BY <3>3 DEF AdvanceInv, LoadInv
    <2>2. unit.sliding \in {"PASS", "REVIEW", "FAIL"}
      <3>1. ASSUME NEW d, NEW k PROVE Classification(d, k) \in {"PASS", "REVIEW", "FAIL"}
        BY DEF Classification
      <3> QED BY <3>1 DEF AdvanceInv, LoadInv, Sliding
    <2>3. unit.remembered \in Memories \cup {NoResponse}
      BY DEF AdvanceInv, RoundInv
    <2> QED BY <2>1, <2>2, <2>3 DEF AdvanceInv, LoadInv, RoundInv, HistoryInv, TypeOK
  <1> QED BY <1>1, AdvanceInvHolds, PTL

(* advance_unit_load_partition never leaves a state that does not carry    *)
(* exactly the load, and neither it nor solve_unit_load_partition ever     *)
(* refuses one as unconserved: for any number of contacts, any load, any   *)
(* answer of the deck, and any shares the settlement finds.                *)
THEOREM TheLoadIsConserved == Spec => []LoadIsConserved
  <1>1. AdvanceInv => LoadIsConserved
    BY UnitIsConserved DEF AdvanceInv, RoundInv, LoadIsConserved
  <1> QED BY <1>1, AdvanceInvHolds, PTL

(* After any number of rounds the contacts stand where the last answer     *)
(* alone would put them, turned as much as it turns them.                  *)
THEOREM ContactsDoNotDrift == Spec => []ContactsStandWhereTheDeckIs
  <1>1. AdvanceInv => ContactsStandWhereTheDeckIs
    <2> SUFFICES ASSUME AdvanceInv, unit.response # NoResponse, NEW c \in Contacts
                 PROVE  /\ unit.center[c] = Plus(Patch[c].center, unit.response[c].translation)
                        /\ Patch[c].kind \in {"RECTANGULAR_PATCH", "ORIENTATION_BAND"} =>
                             unit.orientation[c] = unit.response[c].rotation.y
      BY DEF ContactsStandWhereTheDeckIs
    <2>1. round # 0
      BY DEF AdvanceInv, RoundInv
    <2> QED BY <2>1 DEF AdvanceInv, PlaceInv
  <1> QED BY <1>1, AdvanceInvHolds, PTL

(* The compliance the settlement is given is the secant of the latest two  *)
(* consecutive answers that measured one, each paired with the shares it   *)
(* was given to, and zero while none has.                                  *)
THEOREM ComplianceIsPairedRight == Spec => []ComplianceIsTheLatestSecant
  <1>1. AdvanceInv => ComplianceIsTheLatestSecant
    <2> SUFFICES ASSUME AdvanceInv, unit.remembered # NoResponse
                 PROVE  ComplianceIsTheLatestSecant
      BY DEF ComplianceIsTheLatestSecant
    <2>1. round > 0
      BY PartitionAssumption DEF AdvanceInv, RoundInv
    <2> QED BY <2>1 DEF AdvanceInv, LatestInv, ComplianceIsTheLatestSecant
  <1> QED BY <1>1, AdvanceInvHolds, PTL

-----------------------------------------------------------------------------
(* Sticking and slipping.                                                  *)

(* How steep the pull is, and what friction lets a contact take of it.     *)
Steepness == Square(Flat(Applied.force))

Limit(c, share) == Weight * share * Friction[c]

LEMMA LimitsAreTyped ==
  /\ Steepness \in Nat
  /\ \A s \in ShareVectors : \A c \in Contacts : Limit(c, s[c]) \in Nat
  <1>1. Steepness \in Nat
    <2>1. \A n \in Int : n * n \in Nat
      OBVIOUS
    <2>2. Applied.force.x \in Int /\ Applied.force.z \in Int
      BY LoadIsTyped DEF Vector
    <2>3. Steepness = Applied.force.x * Applied.force.x + 0 * 0
                        + Applied.force.z * Applied.force.z
      BY DEF Steepness, Square, Flat, Vec
    <2> QED BY <2>1, <2>2, <2>3
  <1>2. ASSUME NEW s \in ShareVectors, NEW c \in Contacts PROVE Limit(c, s[c]) \in Nat
    <2>1. Weight \in Nat /\ s[c] \in Nat /\ Friction[c] \in Nat
      BY WeightIsPositive, ShareVectorsAreTyped, PartitionAssumption
    <2> QED BY <2>1 DEF Limit
  <1> QED BY <1>1, <1>2

(* When an interface sticks, by the square of what it is asked.            *)
LEMMA WhenItSticks ==
  ASSUME NEW s \in ShareVectors, NEW c \in Contacts
  PROVE  LET asked == s[c] * s[c] * Steepness
             limit == Limit(c, s[c])
         IN  /\ Tangent(c, s[c]) \in {"STICK", "SLIP"}
             /\ Tangent(c, s[c]) = "STICK" <=>
                  limit # 0 /\ asked <= (limit + ForceTol) * (limit + ForceTol)
             /\ asked \in Nat
  <1> DEFINE asked == s[c] * s[c] * Steepness
             limit == Limit(c, s[c])
             trial == Flat(ForceOn(s[c]))
  <1>1. limit \in Nat /\ Steepness \in Nat /\ s[c] \in Nat /\ ForceTol \in Nat
    BY LimitsAreTyped, ShareVectorsAreTyped, PartitionAssumption
  <1>2. Square(trial) = asked
    <2>1. Applied.force.x \in Int /\ Applied.force.z \in Int
      BY LoadIsTyped DEF Vector
    <2>2. trial.x = s[c] * Applied.force.x /\ trial.y = 0 /\ trial.z = s[c] * Applied.force.z
      BY DEF Flat, ForceOn, Times, Vec
    <2>3. Steepness = Applied.force.x * Applied.force.x + 0 * 0
                        + Applied.force.z * Applied.force.z
      BY DEF Steepness, Square, Flat, Vec
    <2>4. ASSUME NEW n \in Nat, NEW fx \in Int, NEW fz \in Int
          PROVE  (n * fx) * (n * fx) + 0 * 0 + (n * fz) * (n * fz)
                   = n * n * (fx * fx + 0 * 0 + fz * fz)
      OBVIOUS
    <2>5. Square(trial) = trial.x * trial.x + trial.y * trial.y + trial.z * trial.z
      BY DEF Square
    <2> HIDE DEF trial
    <2> QED BY <1>1, <2>1, <2>2, <2>3, <2>4, <2>5
  <1>3. asked \in Nat
    BY <1>1
  <1>4. Tangent(c, s[c])
          = Coulomb(trial, Weight * s[c], Friction[c], Flat(Zero), ForceTol).state
    BY DEF Tangent, InterfaceState
  <1>5. (Weight * s[c]) * Friction[c] = limit
    BY DEF Limit
  <1> HIDE DEF asked, limit, trial
  <1>6. Tangent(c, s[c])
          = IF limit = 0 THEN "SLIP"
            ELSE IF ~(limit + ForceTol < 0 \/ asked > (limit + ForceTol) * (limit + ForceTol))
                   THEN "STICK" ELSE "SLIP"
    BY <1>2, <1>4, <1>5 DEF Coulomb
  <1>7. limit + ForceTol >= 0 /\ (limit + ForceTol) * (limit + ForceTol) \in Int
    BY <1>1
  <1>8. Tangent(c, s[c]) \in {"STICK", "SLIP"}
    BY <1>6
  <1>9. Tangent(c, s[c]) = "STICK" <=>
          limit # 0 /\ asked <= (limit + ForceTol) * (limit + ForceTol)
    <2> DEFINE bound == (limit + ForceTol) * (limit + ForceTol)
    <2>1. asked > bound <=> ~(asked <= bound)
      BY <1>3, <1>7
    <2>2. ~(limit + ForceTol < 0)
      BY <1>1, <1>7
    <2> HIDE DEF bound
    <2> QED BY <1>6, <2>1, <2>2 DEF bound
  <1> QED BY <1>3, <1>8, <1>9 DEF asked, limit

(* The demand on all interfaces and their capacity are sums over them.     *)
LEMMA DemandAndCapacity ==
  ASSUME NEW s \in ShareVectors
  PROVE  /\ SlidingDemandSquare = SumFunction(s) * SumFunction(s) * Steepness
         /\ SlidingCapacity(s) = SumFunction([c \in Contacts |-> Limit(c, s[c])])
         /\ SlidingCapacity(s) \in Nat
  <1>1. SumFunction(s) = Whole
    BY ShareVectorsAreTyped
  <1>2. SlidingDemandSquare = Whole * Whole * Steepness
    BY DEF SlidingDemandSquare, Steepness
  <1>3. SlidingCapacity(s) = SumFunction([c \in Contacts |-> Limit(c, s[c])])
    BY DEF SlidingCapacity, Limit
  <1>4. [c \in Contacts |-> Limit(c, s[c])] \in [Contacts -> Nat]
    BY LimitsAreTyped
  <1>5. SumFunction([c \in Contacts |-> Limit(c, s[c])]) \in Nat
    <2> DEFINE f == [c \in Contacts |-> Limit(c, s[c])]
    <2>1. f \in [Contacts -> Nat]
      BY <1>4
    <2> HIDE DEF f
    <2>2. SumFunction(f) \in Nat
      BY <2>1, LoadIsTyped, SumBoundsItsTerms
    <2> QED BY <2>2 DEF f
  <1> QED BY <1>1, <1>2, <1>3, <1>5

(* If every contact that carries something sticks, the load is held but    *)
(* for the tolerances.                                                     *)
LEMMA AllStickHolds ==
  ASSUME NEW s \in ShareVectors,
         \A c \in Contacts : s[c] > 0 => Tangent(c, s[c]) = "STICK"
  PROVE  LET held == SlidingCapacity(s) + Cardinality(Contacts) * ForceTol
         IN  SlidingDemandSquare <= held * held
  <1> DEFINE l   == [c \in Contacts |-> Limit(c, s[c])]
             one == [c \in Contacts |-> 1]
             b   == [c \in Contacts |-> Limit(c, s[c]) + ForceTol]
  <1>1. ForceTol \in Nat /\ Steepness \in Nat /\ IsFiniteSet(Contacts)
    BY PartitionAssumption, LimitsAreTyped
  <1>2. /\ l \in [Contacts -> Nat] /\ l \in [Contacts -> Int]
        /\ b \in [Contacts -> Nat] /\ b \in [Contacts -> Int]
        /\ \A c \in Contacts : l[c] = Limit(c, s[c]) /\ b[c] = l[c] + ForceTol
    BY <1>1, LimitsAreTyped
  <1>3. one \in [Contacts -> Int] /\ one \in [Contacts -> {1}]
    OBVIOUS
  <1>4. SumFunction(l) = SlidingCapacity(s)
    BY DemandAndCapacity
  <1> HIDE DEF l, b, one
  <1>5. SumFunction(one) = Cardinality(Contacts)
    BY <1>1, <1>3, SumCounts
  <1>6. SumFunction(b) = 1 * SumFunction(l) + ForceTol * SumFunction(one)
    <2>1. \A c \in Contacts : b[c] = 1 * l[c] + ForceTol * one[c]
      <3> TAKE c \in Contacts
      <3>1. l[c] \in Int /\ one[c] = 1 /\ b[c] = l[c] + ForceTol
        BY <1>2, <1>3
      <3> QED BY <1>1, <3>1
    <2>2. ForceTol \in Int /\ 1 \in Int
      BY <1>1
    <2> QED BY <1>1, <1>2, <1>3, <2>1, <2>2, SumIsLinear
  <1>7. \A c \in Contacts : s[c] * s[c] * Steepness <= b[c] * b[c]
    <2> TAKE c \in Contacts
    <2>1. s[c] \in Nat /\ b[c] \in Nat /\ b[c] = Limit(c, s[c]) + ForceTol
      BY <1>2, ShareVectorsAreTyped
    <2>2. CASE s[c] = 0
      <3>1. s[c] * s[c] * Steepness = 0
        BY <1>1, <2>2
      <3>2. 0 <= b[c] * b[c]
        BY <2>1
      <3> QED BY <3>1, <3>2
    <2>3. CASE s[c] > 0
      BY <2>1, <2>3, WhenItSticks
    <2> QED BY <2>1, <2>2, <2>3
  <1>8. SumFunction(s) * SumFunction(s) * Steepness <= SumFunction(b) * SumFunction(b)
    BY <1>1, <1>2, <1>7, ShareVectorsAreTyped, SumsKeepTheRatio
  <1>9. SumFunction(b) = SlidingCapacity(s) + Cardinality(Contacts) * ForceTol
    <2>1. SlidingCapacity(s) \in Nat /\ Cardinality(Contacts) \in Nat
      BY <1>1, DemandAndCapacity, FS_CardinalityType
    <2> QED BY <1>1, <1>4, <1>5, <1>6, <2>1
  <1> QED BY <1>8, <1>9, DemandAndCapacity

(* If none sticks although there is some friction, the load is not held.   *)
LEMMA NoneSticksFails ==
  ASSUME NEW s \in ShareVectors, SlidingCapacity(s) > 0,
         \A c \in Contacts : Tangent(c, s[c]) # "STICK"
  PROVE  SlidingCapacity(s) * SlidingCapacity(s) < SlidingDemandSquare
  <1> DEFINE l == [c \in Contacts |-> Limit(c, s[c])]
  <1>1. ForceTol \in Nat /\ Steepness \in Nat /\ IsFiniteSet(Contacts)
    BY PartitionAssumption, LimitsAreTyped
  <1>2. /\ l \in [Contacts -> Nat] /\ l \in [Contacts -> Int]
        /\ \A c \in Contacts : l[c] = Limit(c, s[c])
    BY LimitsAreTyped
  <1>3. SumFunction(l) = SlidingCapacity(s)
    BY DemandAndCapacity
  <1> HIDE DEF l
  <1>4. ASSUME NEW c \in Contacts
        PROVE  /\ l[c] * l[c] <= s[c] * s[c] * Steepness
               /\ l[c] # 0 => l[c] * l[c] < s[c] * s[c] * Steepness
    <2>1. l[c] \in Nat /\ s[c] \in Nat /\ s[c] * s[c] * Steepness \in Nat
      BY <1>2, WhenItSticks, ShareVectorsAreTyped
    <2>2. l[c] = 0 \/ ~(s[c] * s[c] * Steepness <= (l[c] + ForceTol) * (l[c] + ForceTol))
      BY <1>2, WhenItSticks
    <2>3. l[c] * l[c] <= (l[c] + ForceTol) * (l[c] + ForceTol)
      <3>1. l[c] <= l[c] + ForceTol /\ l[c] + ForceTol \in Nat
        BY <1>1, <2>1
      <3> QED BY <2>1, <3>1, ProductsAreMonotone
    <2>4. /\ l[c] * l[c] \in Int /\ (l[c] + ForceTol) * (l[c] + ForceTol) \in Int
          /\ l[c] = 0 => l[c] * l[c] = 0
      BY <1>1, <2>1
    <2> QED BY <2>1, <2>2, <2>3, <2>4
  <1>5. PICK y \in Contacts : l[y] # 0
    <2> SUFFICES ASSUME \A c \in Contacts : l[c] = 0 PROVE FALSE
      OBVIOUS
    <2>1. \A c \in Contacts : l[c] = 0 * l[c]
      OBVIOUS
    <2>2. SumFunction(l) = 0 * SumFunction(l)
      BY <1>1, <1>2, <2>1, SumScales
    <2>3. SumFunction(l) \in Nat
      BY <1>3, DemandAndCapacity
    <2> QED BY <1>3, <2>2, <2>3
  <1>6. SumFunction(l) * SumFunction(l) < SumFunction(s) * SumFunction(s) * Steepness
    <2>1. /\ \A c \in Contacts : l[c] * l[c] <= s[c] * s[c] * Steepness
          /\ l[y] * l[y] < s[y] * s[y] * Steepness
      BY <1>4, <1>5
    <2>2. s \in [Contacts -> Nat]
      BY ShareVectorsAreTyped
    <2> QED BY <1>1, <1>2, <2>1, <2>2, SumsFallShortOfTheRatio
  <1> QED BY <1>3, <1>6, DemandAndCapacity

(* The sliding criterion and the interfaces never contradict each other:   *)
(* what criteria.rs fails beyond the tolerances slips somewhere under load *)
(* in friction.rs, and what it does not fail sticks somewhere.             *)
THEOREM CriterionAgreesWithFriction == Spec => []SlidingAgreesWithInterfaces
  <1>1. AdvanceInv => SlidingAgreesWithInterfaces
    <2> SUFFICES ASSUME AdvanceInv PROVE SlidingAgreesWithInterfaces
      OBVIOUS
    <2> DEFINE s == unit.share
               held == SlidingCapacity(s) + Cardinality(Contacts) * ForceTol
    <2>1. /\ s \in ShareVectors /\ unit.sliding = Sliding(s)
          /\ \A c \in Contacts : unit.interface[c].tangent = Tangent(c, s[c])
      BY DEF AdvanceInv, LoadInv
    <2>2. /\ SlidingCapacity(s) \in Nat
          /\ SlidingDemandSquare \in Nat
          /\ held * held \in Nat
      <3>1. SlidingCapacity(s) \in Nat /\ Steepness \in Nat /\ Whole \in Nat
        BY <2>1, DemandAndCapacity, LimitsAreTyped, PartitionAssumption
      <3>2. SlidingDemandSquare = Whole * Whole * Steepness
        BY <2>1, DemandAndCapacity, ShareVectorsAreTyped
      <3>3. held \in Nat
        <4>1. Cardinality(Contacts) \in Nat /\ ForceTol \in Nat
          BY FS_CardinalityType, PartitionAssumption
        <4>2. Cardinality(Contacts) * ForceTol \in Nat
          BY <4>1
        <4> QED BY <3>1, <4>2
      <3> HIDE DEF held
      <3> QED BY <3>1, <3>2, <3>3
    <2>3. ASSUME SlidingDemandSquare > held * held
          PROVE  \E c \in Contacts : s[c] > 0 /\ unit.interface[c].tangent = "SLIP"
      <3> SUFFICES ASSUME \A c \in Contacts : s[c] > 0 => Tangent(c, s[c]) # "SLIP"
                   PROVE  FALSE
        BY <2>1
      <3>1. \A c \in Contacts : s[c] > 0 => Tangent(c, s[c]) = "STICK"
        BY <2>1, WhenItSticks
      <3>2. SlidingDemandSquare <= held * held
        BY <2>1, <3>1, AllStickHolds
      <3> HIDE DEF held
      <3> QED BY <2>2, <2>3, <3>2
    <2>4. ASSUME unit.sliding # "FAIL", SlidingCapacity(s) > 0
          PROVE  \E c \in Contacts : unit.interface[c].tangent = "STICK"
      <3> SUFFICES ASSUME \A c \in Contacts : Tangent(c, s[c]) # "STICK" PROVE FALSE
        BY <2>1
      <3>1. SlidingCapacity(s) * SlidingCapacity(s) < SlidingDemandSquare
        BY <2>1, <2>4, NoneSticksFails
      <3>2. SlidingCapacity(s) # 0
        BY <2>2, <2>4
      <3>3. SlidingDemandSquare > SlidingCapacity(s) * SlidingCapacity(s)
        BY <2>2, <3>1
      <3> QED BY <2>1, <2>4, <3>2, <3>3 DEF Sliding, Classification
    <2> QED BY <2>3, <2>4 DEF SlidingAgreesWithInterfaces
  <1> QED BY <1>1, AdvanceInvHolds, PTL

-----------------------------------------------------------------------------
(* The couple.                                                             *)

(* One axis of the lever about contacts at one height, and the couple it   *)
(* leaves when the forces' own moment is what was asked for.               *)
LEMMA LevelLever ==
  ASSUME NEW w \in Int, NEW y \in Int, NEW f \in Int, NEW m \in Int, NEW a \in Int,
         a = w * m - f * (y * w)
  PROVE  /\ w * m - ((y * f) * w + 1 * a) = 0
         /\ f * (y * w) = (y * f) * w
  OBVIOUS

(* What is asked of the new shares is what leaves no couple: contacts that *)
(* stand at one height, and whose forces meet the request's moments, carry *)
(* both tilting moments of the load by their forces alone.                 *)
LEMMA BalancedResidual ==
  ASSUME AdvanceInv, NEW s \in ShareVectors, NEW center \in [Contacts -> Vector],
         \A c, d \in Contacts : unit.center[c].y = center[d].y,
         SumFunction([c \in Contacts |-> Weight * s[c] * center[c].x]) = -MomentTargets(unit).z,
         SumFunction([c \in Contacts |-> Weight * s[c] * center[c].z]) = MomentTargets(unit).x
  PROVE  Residual(s, center).x = 0 /\ Residual(s, center).z = 0
  <1> DEFINE F  == Applied.force
             M  == Applied.moment
             L  == LeverOf(s, center)
             ax == [c \in Contacts |-> Weight * s[c] * center[c].x]
             az == [c \in Contacts |-> Weight * s[c] * center[c].z]
             h  == [c \in Contacts |-> unit.center[c].y * unit.share[c]]
  <1>1. /\ F.x \in Int /\ F.y \in Int /\ F.z \in Int /\ M.x \in Int /\ M.z \in Int
        /\ Weight \in Int /\ F.y = -Weight /\ Whole \in Int /\ IsFiniteSet(Contacts)
    BY LoadIsTyped, WeightIsPositive DEF Vector
  <1>2. /\ s \in [Contacts -> Int] /\ SumFunction(s) = Whole
        /\ unit.share \in [Contacts -> Int] /\ SumFunction(unit.share) = Whole
    BY ShareVectorsAreTyped DEF AdvanceInv, LoadInv
  <1>3. \A c \in Contacts : /\ center[c].x \in Int /\ center[c].y \in Int
                            /\ center[c].z \in Int
    BY DEF Vector
  <1>4. PICK y \in Int : \A c \in Contacts : center[c].y = y /\ unit.center[c].y = y
    <2>1. PICK d \in Contacts : TRUE
      BY PartitionAssumption
    <2>2. center[d].y \in Int
      BY <1>3
    <2>3. \A c \in Contacts : unit.center[c].y = center[d].y
      OBVIOUS
    <2>4. \A c \in Contacts : unit.center[d].y = center[c].y
      OBVIOUS
    <2> QED BY <2>2, <2>3, <2>4
  <1>5. /\ ax \in [Contacts -> Int] /\ \A c \in Contacts : ax[c] = Weight * s[c] * center[c].x
        /\ az \in [Contacts -> Int] /\ \A c \in Contacts : az[c] = Weight * s[c] * center[c].z
        /\ h \in [Contacts -> Int] /\ \A c \in Contacts : h[c] = y * unit.share[c]
    BY <1>1, <1>2, <1>3, <1>4
  <1>6. /\ SumFunction(ax) = -(Whole * M.z + F.x * SumFunction(h))
        /\ SumFunction(az) = Whole * M.x - F.z * SumFunction(h)
    BY Zenon DEF MomentTargets
  <1> HIDE DEF ax, az, h
  <1>7. SumFunction(h) = y * Whole
    <2>1. /\ h \in [Contacts -> Int] /\ unit.share \in [Contacts -> Int]
          /\ \A c \in Contacts : h[c] = y * unit.share[c]
      BY <1>2, <1>5
    <2>2. SumFunction(h) = y * SumFunction(unit.share)
      BY <1>1, <2>1, SumScales
    <2> QED BY <1>2, <2>2
  <1>8. /\ AlongX(L) \in [Contacts -> Int] /\ \A c \in Contacts : AlongX(L)[c] = L[c].x
        /\ AlongZ(L) \in [Contacts -> Int] /\ \A c \in Contacts : AlongZ(L)[c] = L[c].z
        /\ LeverMoment(s, center) = Vec(SumFunction(AlongX(L)), SumFunction(AlongY(L)),
                                        SumFunction(AlongZ(L)))
    BY <1>1, LeverIsTyped, AxesAreTyped, VectorSum
  <1>9. \A c \in Contacts : /\ AlongX(L)[c] = (y * F.z) * s[c] + 1 * az[c]
                            /\ AlongZ(L)[c] = (-(y * F.x)) * s[c] + (-1) * ax[c]
    <2> TAKE c \in Contacts
    <2>1. /\ L[c].x = center[c].y * (s[c] * F.z) - center[c].z * (s[c] * F.y)
          /\ L[c].z = center[c].x * (s[c] * F.y) - center[c].y * (s[c] * F.x)
      BY DEF LeverOf, Cross, Times, ForceOn, Vec
    <2>2. ASSUME NEW n \in Int, NEW w \in Int, NEW p \in Int, NEW f \in Int
          PROVE  /\ y * (n * f) - p * (n * (-w)) = (y * f) * n + 1 * (w * n * p)
                 /\ p * (n * (-w)) - y * (n * f) = (-(y * f)) * n + (-1) * (w * n * p)
      OBVIOUS
    <2>3. s[c] \in Int /\ center[c].x \in Int /\ center[c].z \in Int /\ center[c].y = y
      BY <1>2, <1>3, <1>4
    <2> HIDE DEF L, F
    <2>4. AlongX(L)[c] = (y * F.z) * s[c] + 1 * az[c]
      BY <1>1, <1>5, <1>8, <2>1, <2>2, <2>3
    <2>5. AlongZ(L)[c] = (-(y * F.x)) * s[c] + (-1) * ax[c]
      BY <1>1, <1>5, <1>8, <2>1, <2>2, <2>3
    <2> QED BY <2>4, <2>5
  <1> HIDE DEF L, F, M
  <1>10. SumFunction(AlongX(L)) = (y * F.z) * Whole + 1 * SumFunction(az)
    <2>1. y * F.z \in Int /\ 1 \in Int
      BY <1>1
    <2> QED BY <1>1, <1>2, <1>5, <1>8, <1>9, <2>1, SumIsLinear
  <1>11. SumFunction(AlongZ(L)) = (-(y * F.x)) * Whole + (-1) * SumFunction(ax)
    <2> DEFINE k == -(y * F.x)
    <2>1. k \in Int /\ -1 \in Int
      BY <1>1
    <2>2. /\ AlongZ(L) \in [Contacts -> Int] /\ s \in [Contacts -> Int] /\ ax \in [Contacts -> Int]
          /\ \A c \in Contacts : AlongZ(L)[c] = k * s[c] + (-1) * ax[c]
      BY <1>2, <1>5, <1>8, <1>9
    <2> HIDE DEF k
    <2>3. SumFunction(AlongZ(L)) = k * SumFunction(s) + (-1) * SumFunction(ax)
      BY <1>1, <2>1, <2>2, SumIsLinear
    <2> QED BY <1>2, <2>3 DEF k
  <1>12. /\ Residual(s, center).x = Whole * M.x - SumFunction(AlongX(L))
         /\ Residual(s, center).z = Whole * M.z - SumFunction(AlongZ(L))
    BY <1>8 DEF Residual, Minus, Times, Vec, M
  <1>13. SumFunction(ax) \in Int /\ SumFunction(az) \in Int
    BY <1>1, <1>5, SumIsInteger
  <1>14. Whole * M.x - ((y * F.z) * Whole + 1 * SumFunction(az)) = 0
    BY <1>1, <1>6, <1>7, <1>13, LevelLever
  <1>15. Whole * M.z - ((-(y * F.x)) * Whole + (-1) * SumFunction(ax)) = 0
    <2>1. ASSUME NEW w \in Int, NEW f \in Int, NEW m \in Int, NEW a \in Int,
                 a = -(w * m + f * (y * w))
          PROVE  w * m - ((-(y * f)) * w + (-1) * a) = 0
      BY <2>1
    <2> QED BY <1>1, <1>6, <1>7, <1>13, <2>1
  <1> QED BY <1>10, <1>11, <1>12, <1>14, <1>15

(* A step from an advance back to a solve is an advance.                   *)
LEMMA OnlyAdvanceReturns ==
  ASSUME [Next]_vars, phase = "advance", phase' = "solve"
  PROVE  \E s \in ShareVectors : Advance(s)
  <1>1. ~(\E sameEvent \in BOOLEAN : Solve(sameEvent))
    BY DEF Solve
  <1>2. ~(\E deck \in Decks, covered \in {Contacts} \cup {Contacts \ {c} : c \in Contacts} :
            DeckAnswers(deck, covered))
    BY DEF DeckAnswers
  <1>3. ~AdvanceRefused /\ ~EquilibriumLost /\ ~Finish /\ ~Ended /\ ~UNCHANGED vars
    BY DEF AdvanceRefused, EquilibriumLost, Refuse, Finish, Ended, vars
  <1> QED BY <1>1, <1>2, <1>3 DEF Next

(* partition.rs:392: an advance whose new shares meet the request's        *)
(* moments puts no couple into the deck, whatever was answered before.     *)
THEOREM BalancedAdvanceHasNoCouple == Spec => BalancedSharesNeedNoCouple
  <1> DEFINE about(axis) == SumFunction([c \in Contacts |->
                              Weight * unit'.share[c] * unit'.center[c][axis]])
             balanced == /\ \A c, d \in Contacts : unit.center[c].y = unit'.center[d].y
                         /\ about("x") = -MomentTargets(unit).z
                         /\ about("z") = MomentTargets(unit).x
             uncoupled == \A c \in Contacts :
                            unit'.freeMoment[c].x = 0 /\ unit'.freeMoment[c].z = 0
  <1>1. ASSUME AdvanceInv, [Next]_vars, phase = "advance", phase' = "solve", balanced
        PROVE  uncoupled
    <2>1. PICK s \in ShareVectors : Advance(s)
      BY <1>1, OnlyAdvanceReturns
    <2>2. /\ unit'.share = s /\ unit'.center = Moved(unit, answer)
          /\ unit'.freeMoment =
               [c \in Contacts |-> Times(s[c], Residual(s, Moved(unit, answer)))]
          /\ Measured(answer)
      BY <1>1, <2>1, AdvanceSucceeds
    <2> DEFINE center == unit'.center
    <2>3. center \in [Contacts -> Vector]
      BY <1>1, <2>2, MovementIsTyped
    <2>4. [c \in Contacts |-> Weight * unit'.share[c] * unit'.center[c]["x"]]
            = [c \in Contacts |-> Weight * s[c] * center[c].x]
      BY <2>2
    <2>5. [c \in Contacts |-> Weight * unit'.share[c] * unit'.center[c]["z"]]
            = [c \in Contacts |-> Weight * s[c] * center[c].z]
      BY <2>2
    <2>6. /\ SumFunction([c \in Contacts |-> Weight * s[c] * center[c].x])
               = -MomentTargets(unit).z
          /\ SumFunction([c \in Contacts |-> Weight * s[c] * center[c].z])
               = MomentTargets(unit).x
      BY <1>1, <2>4, <2>5
    <2>7. \A c, d \in Contacts : unit.center[c].y = center[d].y
      BY <1>1
    <2>8. unit'.freeMoment = [c \in Contacts |-> Times(s[c], Residual(s, center))]
      BY <2>2
    <2> HIDE DEF center
    <2>9. Residual(s, center).x = 0 /\ Residual(s, center).z = 0
      BY <1>1, <2>3, <2>6, <2>7, BalancedResidual
    <2>10. \A c \in Contacts : s[c] \in Int
      BY ShareVectorsAreTyped
    <2> QED BY <2>8, <2>9, <2>10 DEF Times, Vec
  <1>2. AdvanceInv /\ [Next]_vars =>
          [phase = "advance" /\ phase' = "solve" =>
             LET target == MomentTargets(unit)
                 s      == unit'.share
                 level  == \A c, d \in Contacts : unit.center[c].y = unit'.center[d].y
                 moment(axis) == SumFunction([c \in Contacts |->
                                   Weight * s[c] * unit'.center[c][axis]])
             IN  level /\ moment("x") = -target.z /\ moment("z") = target.x =>
                   \A c \in Contacts : unit'.freeMoment[c].x = 0 /\ unit'.freeMoment[c].z = 0
          ]_vars
    BY <1>1
  <1> QED BY <1>2, AdvanceInvHolds, PTL DEF Spec, BalancedSharesNeedNoCouple
=============================================================================
