------------------------ MODULE RigidSettlementProofs ------------------------
(***************************************************************************)
(* Theorems of RigidSettlement, for every number of contacts, wherever     *)
(* they stand, however stiff, and whatever deck is under them: what is     *)
(* settled carries the load, and the load is never left without a contact. *)
(***************************************************************************)
EXTENDS RigidSettlement, SumTheorems

-----------------------------------------------------------------------------
(* The determinant of a quadratic form that is never negative.             *)

LEMMA PositiveFactor ==
  ASSUME NEW a \in Int, NEW n \in Int, a > 0
  PROVE  /\ a * n >= 0 => n >= 0
         /\ a * n > 0 => n > 0
         /\ n > 0 => a * n > 0
  OBVIOUS

(* In two variables.                                                       *)
LEMMA FormOfTwo ==
  ASSUME NEW p \in Int, NEW r \in Int, NEW q \in Int,
         \A v, w \in Int : p * v * v + 2 * r * v * w + q * w * w >= 0
  PROVE  p * q - r * r >= 0
  <1> DEFINE g(v, w) == p * v * v + 2 * r * v * w + q * w * w
  <1>1. \A v, w \in Int : g(v, w) >= 0
    OBVIOUS
  <1>2. /\ g(1, 0) = p /\ g(0, 1) = q
        /\ g(-r, p) = p * (p * q - r * r)
        /\ p = 0 => g(-r * (q + 1), 1) = q - 2 * (r * r) * (q + 1)
    OBVIOUS
  <1>3. -r \in Int /\ -r * (q + 1) \in Int
    OBVIOUS
  <1> HIDE DEF g
  <1>4. p >= 0 /\ q >= 0 /\ p * (p * q - r * r) >= 0
    <2>1. g(1, 0) >= 0 /\ g(0, 1) >= 0 /\ g(-r, p) >= 0
      BY <1>1, <1>3
    <2> QED BY <2>1, <1>2
  <1>5. CASE p > 0
    BY <1>4, <1>5, PositiveFactor
  <1>6. CASE p = 0
    <2>1. q - 2 * (r * r) * (q + 1) >= 0
      BY <1>1, <1>2, <1>3, <1>6
    <2>2. r * r = 0
      <3>1. r * r \in Nat
        OBVIOUS
      <3>2. ASSUME NEW m \in Nat, m # 0, q - 2 * m * (q + 1) >= 0
            PROVE  FALSE
        <4>1. 2 * m * (q + 1) >= 2 * (q + 1)
          BY <1>4, <3>2
        <4> QED BY <4>1, <3>2, <1>4
      <3> QED BY <2>1, <3>1, <3>2
    <2> QED BY <2>2, <1>6
  <1> QED BY <1>4, <1>5, <1>6

(* In three, one of which is there.                                        *)
LEMMA FormOfThree ==
  ASSUME NEW a \in Int, NEW b \in Int, NEW c \in Int,
         NEW d \in Int, NEW e \in Int, NEW f \in Int, a > 0,
         \A u, v, w \in Int :
           a * u * u + 2 * b * u * v + 2 * c * u * w + d * v * v + 2 * e * v * w + f * w * w >= 0
  PROVE  a * (d * f - e * e) - b * (b * f - e * c) + c * (b * e - d * c) >= 0
  <1> DEFINE g(u, v, w) ==
               a * u * u + 2 * b * u * v + 2 * c * u * w + d * v * v + 2 * e * v * w + f * w * w
             p == a * d - b * b
             r == a * e - b * c
             q == a * f - c * c
             det == a * (d * f - e * e) - b * (b * f - e * c) + c * (b * e - d * c)
  <1>1. \A u, v, w \in Int : g(u, v, w) >= 0
    OBVIOUS
  <1>2. \A v, w \in Int :
          g(-(b * v + c * w), a * v, a * w) = a * (p * v * v + 2 * r * v * w + q * w * w)
    OBVIOUS
  <1>3. a * det = p * q - r * r
    OBVIOUS
  <1>4. p \in Int /\ r \in Int /\ q \in Int /\ det \in Int
    OBVIOUS
  <1> HIDE DEF g, p, r, q, det
  <1>5. \A v, w \in Int : p * v * v + 2 * r * v * w + q * w * w >= 0
    <2> TAKE v, w \in Int
    <2>1. -(b * v + c * w) \in Int /\ a * v \in Int /\ a * w \in Int
      OBVIOUS
    <2>2. g(-(b * v + c * w), a * v, a * w) >= 0
      BY <1>1, <2>1
    <2> DEFINE h == p * v * v + 2 * r * v * w + q * w * w
    <2>3. h \in Int
      BY <1>4
    <2>4. a * h >= 0
      BY <2>2, <1>2
    <2> HIDE DEF h
    <2>5. h >= 0
      BY <2>3, <2>4, PositiveFactor
    <2> QED BY <2>5 DEF h
  <1>6. p * q - r * r >= 0
    BY <1>4, <1>5, FormOfTwo
  <1>7. det >= 0
    BY <1>3, <1>4, <1>6, PositiveFactor
  <1> QED BY <1>7 DEF det

(* Cramer's rule.                                                          *)
LEMMA Cramer ==
  ASSUME NEW m \in [1 .. 9 -> Int], NEW n \in [1 .. 3 -> Int],
         m[4] = m[2], m[7] = m[3], m[8] = m[6]
  PROVE  LET u == Det(WithColumn(m, 1, n))
             v == Det(WithColumn(m, 2, n))
             w == Det(WithColumn(m, 3, n))
         IN  /\ Det(m) \in Int /\ u \in Int /\ v \in Int /\ w \in Int
             /\ m[1] * u + m[2] * v + m[3] * w = n[1] * Det(m)
             /\ m[2] * u + m[5] * v + m[6] * w = n[2] * Det(m)
             /\ m[3] * u + m[6] * v + m[9] * w = n[3] * Det(m)
  <1> DEFINE a == m[1]
             b == m[2]
             c == m[3]
             d == m[5]
             e == m[6]
             f == m[9]
             r == n[1]
             s == n[2]
             t == n[3]
             u == r * (d * f - e * e) - b * (s * f - e * t) + c * (s * e - d * t)
             v == a * (s * f - e * t) - r * (b * f - e * c) + c * (b * t - s * c)
             w == a * (d * t - s * e) - b * (b * t - s * c) + r * (b * e - d * c)
             det == a * (d * f - e * e) - b * (b * f - e * c) + c * (b * e - d * c)
  <1>1. Det(m) = det
    BY DEF Det
  <1>2. Det(WithColumn(m, 1, n)) = u
    BY DEF WithColumn, Det
  <1>3. Det(WithColumn(m, 2, n)) = v
    BY DEF WithColumn, Det
  <1>4. Det(WithColumn(m, 3, n)) = w
    BY DEF WithColumn, Det
  <1>5. /\ a \in Int /\ b \in Int /\ c \in Int /\ d \in Int /\ e \in Int /\ f \in Int
        /\ r \in Int /\ s \in Int /\ t \in Int
    OBVIOUS
  <1> HIDE DEF a, b, c, d, e, f, r, s, t
  <1>6. /\ a * u + b * v + c * w = r * det
        /\ b * u + d * v + e * w = s * det
        /\ c * u + e * v + f * w = t * det
    BY <1>5
  <1>7. det \in Int /\ u \in Int /\ v \in Int /\ w \in Int
    BY <1>5
  <1> HIDE DEF u, v, w, det
  <1> QED BY <1>1, <1>2, <1>3, <1>4, <1>6, <1>7 DEF a, b, c, d, e, f, r, s, t

-----------------------------------------------------------------------------
(* The sums of one pass.                                                   *)

Typed == request \in Requests

LEMMA ContactIsTyped ==
  ASSUME Typed, NEW c \in Contacts
  PROVE  /\ Stiffness(c) \in Nat /\ Stiffness(c) > 0
         /\ X(c) \in Int /\ Z(c) \in Int /\ Gap(c) \in Int
  <1>1. /\ request.stiffness \in [Contacts -> Nat \ {0}] /\ request.deck \in [Contacts -> Int]
        /\ request.compliance \in [Contacts -> Nat] /\ request.current \in [Contacts -> Nat]
        /\ request.spot \in [Contacts -> Int \X Int]
        /\ Scale % (1 + request.stiffness[c] * request.compliance[c]) = 0
        /\ Scale \in Nat \ {0}
    BY SettlementAssumption DEF Typed, Contacts
  <1>2. X(c) \in Int /\ Z(c) \in Int /\ Gap(c) \in Int
    BY <1>1 DEF X, Z, Gap
  <1>3. ASSUME NEW n \in Nat \ {0}, NEW m \in Nat \ {0}, n % m = 0
        PROVE  n \div m \in Nat \ {0}
    BY <1>3
  <1>4. ASSUME NEW k \in Nat \ {0}, NEW m \in Nat
        PROVE  1 + k * m \in Nat \ {0}
    OBVIOUS
  <1>5. Softening(c) \in Nat \ {0} /\ Scale % Softening(c) = 0
    BY <1>1, <1>4 DEF Softening
  <1>6. Scale \div Softening(c) \in Nat \ {0}
    BY <1>1, <1>3, <1>5
  <1>7. ASSUME NEW k \in Nat \ {0}, NEW m \in Nat \ {0}
        PROVE  k * m \in Nat /\ k * m > 0
    OBVIOUS
  <1>8. Stiffness(c) \in Nat /\ Stiffness(c) > 0
    BY <1>1, <1>6, <1>7 DEF Stiffness
  <1> QED BY <1>2, <1>8

(* What MomentSums accumulates, contact by contact.                        *)
OfK(S)   == [c \in S |-> Stiffness(c)]
OfKX(S)  == [c \in S |-> Stiffness(c) * X(c)]
OfKZ(S)  == [c \in S |-> Stiffness(c) * Z(c)]
OfKXX(S) == [c \in S |-> Stiffness(c) * X(c) * X(c)]
OfKXZ(S) == [c \in S |-> Stiffness(c) * X(c) * Z(c)]
OfKZZ(S) == [c \in S |-> Stiffness(c) * Z(c) * Z(c)]
OfKG(S)  == [c \in S |-> Stiffness(c) * Gap(c)]
OfKGX(S) == [c \in S |-> Stiffness(c) * Gap(c) * X(c)]
OfKGZ(S) == [c \in S |-> Stiffness(c) * Gap(c) * Z(c)]

LEMMA TermsAreTyped ==
  ASSUME Typed, NEW S \in SUBSET Contacts
  PROVE  /\ OfK(S) \in [S -> Nat] /\ OfK(S) \in [S -> Int]
         /\ OfKX(S) \in [S -> Int] /\ OfKZ(S) \in [S -> Int]
         /\ OfKXX(S) \in [S -> Int] /\ OfKXZ(S) \in [S -> Int] /\ OfKZZ(S) \in [S -> Int]
         /\ OfKG(S) \in [S -> Int] /\ OfKGX(S) \in [S -> Int] /\ OfKGZ(S) \in [S -> Int]
         /\ IsFiniteSet(S)
  <1>1. \A c \in S : /\ Stiffness(c) \in Nat /\ X(c) \in Int /\ Z(c) \in Int /\ Gap(c) \in Int
    BY ContactIsTyped
  <1>2. ASSUME NEW k \in Nat, NEW x \in Int, NEW z \in Int, NEW g \in Int
        PROVE  /\ k \in Int /\ k * x \in Int /\ k * z \in Int /\ k * g \in Int
               /\ k * x * x \in Int /\ k * x * z \in Int /\ k * z * z \in Int
               /\ k * g * x \in Int /\ k * g * z \in Int
    OBVIOUS
  <1>3. \A c \in S : /\ Stiffness(c) * X(c) \in Int /\ Stiffness(c) * Z(c) \in Int
                     /\ Stiffness(c) * X(c) * X(c) \in Int
                     /\ Stiffness(c) * X(c) * Z(c) \in Int
                     /\ Stiffness(c) * Z(c) * Z(c) \in Int
                     /\ Stiffness(c) * Gap(c) \in Int
                     /\ Stiffness(c) * Gap(c) * X(c) \in Int
                     /\ Stiffness(c) * Gap(c) * Z(c) \in Int
    BY <1>1, <1>2
  <1>4. IsFiniteSet(S)
    <2>1. IsFiniteSet(Contacts)
      BY SettlementAssumption, FS_Interval DEF Contacts
    <2> QED BY <2>1, FS_Subset
  <1>5. /\ OfK(S) \in [S -> Nat] /\ OfK(S) \in [S -> Int]
        /\ OfKX(S) \in [S -> Int] /\ OfKZ(S) \in [S -> Int]
    BY <1>1, <1>3 DEF OfK, OfKX, OfKZ
  <1>6. OfKXX(S) \in [S -> Int] /\ OfKXZ(S) \in [S -> Int] /\ OfKZZ(S) \in [S -> Int]
    BY <1>3 DEF OfKXX, OfKXZ, OfKZZ
  <1>7. OfKG(S) \in [S -> Int] /\ OfKGX(S) \in [S -> Int] /\ OfKGZ(S) \in [S -> Int]
    BY <1>3 DEF OfKG, OfKGX, OfKGZ
  <1> QED BY <1>4, <1>5, <1>6, <1>7

LEMMA SumsAreTyped ==
  ASSUME Typed, NEW S \in SUBSET Contacts
  PROVE  /\ SumFunction(OfK(S)) \in Nat /\ SumFunction(OfK(S)) \in Int
         /\ SumFunction(OfKX(S)) \in Int /\ SumFunction(OfKZ(S)) \in Int
         /\ SumFunction(OfKXX(S)) \in Int /\ SumFunction(OfKXZ(S)) \in Int
         /\ SumFunction(OfKZZ(S)) \in Int
         /\ SumFunction(OfKG(S)) \in Int /\ SumFunction(OfKGX(S)) \in Int
         /\ SumFunction(OfKGZ(S)) \in Int
  BY TermsAreTyped, SumIsInteger, SumBoundsItsTerms

LEMMA MatrixOfSums ==
  ASSUME NEW S
  PROVE  MomentMatrix(S) =
           << SumFunction(OfK(S)),  SumFunction(OfKX(S)),  SumFunction(OfKZ(S)),
              SumFunction(OfKX(S)), SumFunction(OfKXX(S)), SumFunction(OfKXZ(S)),
              SumFunction(OfKZ(S)), SumFunction(OfKXZ(S)), SumFunction(OfKZZ(S)) >>
  BY DEF MomentMatrix, SumOver, OfK, OfKX, OfKZ, OfKXX, OfKXZ, OfKZZ

LEMMA TargetOfSums ==
  ASSUME NEW S
  PROVE  Target(S) = << Scale * request.weight + SumFunction(OfKG(S)),
                        -Scale * request.momentZ + SumFunction(OfKGX(S)),
                        Scale * request.momentX + SumFunction(OfKGZ(S)) >>
  BY DEF Target, SumOver, OfKG, OfKGX, OfKGZ

LEMMA LevelOfSums ==
  ASSUME NEW S
  PROVE  LevelPlane(S) =
           IF SumFunction(OfK(S)) = 0 THEN [w |-> 0, wx |-> 0, wz |-> 0, den |-> 1]
           ELSE [w |-> Target(S)[1], wx |-> 0, wz |-> 0, den |-> SumFunction(OfK(S))]
  BY DEF LevelPlane, SumOver, OfK

-----------------------------------------------------------------------------
(* The moment matrix weighs squares, so its form is never negative.        *)

LEMMA FormOfSums ==
  ASSUME Typed, NEW S \in SUBSET Contacts, NEW u \in Int, NEW v \in Int, NEW w \in Int
  PROVE  SumFunction(OfK(S)) * u * u + 2 * SumFunction(OfKX(S)) * u * v
           + 2 * SumFunction(OfKZ(S)) * u * w + SumFunction(OfKXX(S)) * v * v
           + 2 * SumFunction(OfKXZ(S)) * v * w + SumFunction(OfKZZ(S)) * w * w >= 0
  <1> DEFINE square == [c \in S |-> Stiffness(c) * ((u + v * X(c) + w * Z(c)) * (u + v * X(c) + w * Z(c)))]
             first  == [c \in S |-> (u * u) * OfK(S)[c] + (2 * u * v) * OfKX(S)[c]
                                     + (2 * u * w) * OfKZ(S)[c] + (v * v) * OfKXX(S)[c]]
             second == [c \in S |-> (2 * v * w) * OfKXZ(S)[c] + (w * w) * OfKZZ(S)[c]]
  <1>1. /\ u * u \in Int /\ 2 * u * v \in Int /\ 2 * u * w \in Int /\ v * v \in Int
        /\ 2 * v * w \in Int /\ w * w \in Int
    OBVIOUS
  <1>2. /\ first \in [S -> Int]
        /\ \A c \in S : first[c] = (u * u) * OfK(S)[c] + (2 * u * v) * OfKX(S)[c]
                                   + (2 * u * w) * OfKZ(S)[c] + (v * v) * OfKXX(S)[c]
    BY <1>1, TermsAreTyped
  <1>3. /\ second \in [S -> Int]
        /\ \A c \in S : second[c] = (2 * v * w) * OfKXZ(S)[c] + (w * w) * OfKZZ(S)[c]
    BY <1>1, TermsAreTyped
  <1>4. square \in [S -> Nat] /\ square \in [S -> Int]
    <2>1. ASSUME NEW k \in Nat, NEW x \in Int, NEW z \in Int
          PROVE  k * ((u + v * x + w * z) * (u + v * x + w * z)) \in Nat
      <3>1. ASSUME NEW y \in Int
            PROVE  y * y \in Nat
        OBVIOUS
      <3>2. u + v * x + w * z \in Int
        OBVIOUS
      <3>3. ASSUME NEW y \in Nat
            PROVE  k * y \in Nat
        OBVIOUS
      <3> QED BY <3>1, <3>2, <3>3
    <2> QED BY <2>1, ContactIsTyped
  <1>5. \A c \in S : square[c] = first[c] + second[c]
    <2>1. ASSUME NEW k \in Nat, NEW x \in Int, NEW z \in Int
          PROVE  k * ((u + v * x + w * z) * (u + v * x + w * z)) =
                   (u * u) * k + (2 * u * v) * (k * x) + (2 * u * w) * (k * z)
                     + (v * v) * (k * x * x)
                     + ((2 * v * w) * (k * x * z) + (w * w) * (k * z * z))
      OBVIOUS
    <2> TAKE c \in S
    <2>2. /\ Stiffness(c) \in Nat /\ X(c) \in Int /\ Z(c) \in Int
      BY ContactIsTyped
    <2>3. /\ OfK(S)[c] = Stiffness(c) /\ OfKX(S)[c] = Stiffness(c) * X(c)
          /\ OfKZ(S)[c] = Stiffness(c) * Z(c)
          /\ OfKXX(S)[c] = Stiffness(c) * X(c) * X(c)
          /\ OfKXZ(S)[c] = Stiffness(c) * X(c) * Z(c)
          /\ OfKZZ(S)[c] = Stiffness(c) * Z(c) * Z(c)
      BY DEF OfK, OfKX, OfKZ, OfKXX, OfKXZ, OfKZZ
    <2> QED BY <2>1, <2>2, <2>3
  <1> HIDE DEF square, first, second
  <1>6. SumFunction(first) = (u * u) * SumFunction(OfK(S)) + (2 * u * v) * SumFunction(OfKX(S))
                             + (2 * u * w) * SumFunction(OfKZ(S)) + (v * v) * SumFunction(OfKXX(S))
    BY <1>1, <1>2, TermsAreTyped, SumOfFour
  <1>7. SumFunction(second) = (2 * v * w) * SumFunction(OfKXZ(S)) + (w * w) * SumFunction(OfKZZ(S))
    BY <1>1, <1>3, TermsAreTyped, SumIsLinear
  <1>8. SumFunction(square) = SumFunction(first) + SumFunction(second)
    <2>1. /\ first \in [S -> Int] /\ second \in [S -> Int] /\ square \in [S -> Int]
          /\ IsFiniteSet(S)
      BY <1>2, <1>3, <1>4, TermsAreTyped
    <2> QED BY <1>5, <2>1, SumAdds
  <1>9. SumFunction(square) >= 0
    BY <1>4, TermsAreTyped, SumBoundsItsTerms
  <1>10. ASSUME NEW a \in Int, NEW b \in Int, NEW c \in Int,
                NEW d \in Int, NEW e \in Int, NEW f \in Int,
                ((u * u) * a + (2 * u * v) * b + (2 * u * w) * c + (v * v) * d)
                  + ((2 * v * w) * e + (w * w) * f) >= 0
         PROVE  a * u * u + 2 * b * u * v + 2 * c * u * w + d * v * v + 2 * e * v * w + f * w * w >= 0
    BY <1>10
  <1> QED BY <1>6, <1>7, <1>8, <1>9, <1>10, SumsAreTyped

LEMMA DeterminantIsNatural ==
  ASSUME Typed, NEW S \in SUBSET Contacts, S # {}
  PROVE  /\ Det(MomentMatrix(S)) \in Nat
         /\ SumFunction(OfK(S)) > 0
  <1>1. SumFunction(OfK(S)) > 0
    <2>1. PICK c \in S : TRUE
      OBVIOUS
    <2>2. OfK(S)[c] <= SumFunction(OfK(S)) /\ SumFunction(OfK(S)) \in Nat
      BY TermsAreTyped, SumBoundsItsTerms
    <2>3. OfK(S)[c] \in Nat /\ OfK(S)[c] > 0
      BY ContactIsTyped DEF OfK
    <2> QED BY <2>2, <2>3
  <1> DEFINE a == SumFunction(OfK(S))
             b == SumFunction(OfKX(S))
             c == SumFunction(OfKZ(S))
             d == SumFunction(OfKXX(S))
             e == SumFunction(OfKXZ(S))
             f == SumFunction(OfKZZ(S))
  <1>2. a \in Int /\ b \in Int /\ c \in Int /\ d \in Int /\ e \in Int /\ f \in Int
    BY SumsAreTyped
  <1>3. \A u, v, w \in Int :
          a * u * u + 2 * b * u * v + 2 * c * u * w + d * v * v + 2 * e * v * w + f * w * w >= 0
    BY FormOfSums
  <1>4. MomentMatrix(S) = << a, b, c, b, d, e, c, e, f >>
    BY MatrixOfSums
  <1>5. a > 0
    BY <1>1
  <1> HIDE DEF a, b, c, d, e, f
  <1>6. a * (d * f - e * e) - b * (b * f - e * c) + c * (b * e - d * c) >= 0
    BY <1>2, <1>3, <1>5, FormOfThree
  <1>7. Det(MomentMatrix(S)) = a * (d * f - e * e) - b * (b * f - e * c) + c * (b * e - d * c)
    BY <1>4 DEF Det
  <1>8. a * (d * f - e * e) - b * (b * f - e * c) + c * (b * e - d * c) \in Int
    BY <1>2
  <1> QED BY <1>1, <1>6, <1>7, <1>8

-----------------------------------------------------------------------------
(* A pass's plane is a proper one, and what it presses balances the load.  *)

Planes == [w : Int, wx : Int, wz : Int, den : Nat \ {0}]

(* Nothing to stand on is degenerate.                                      *)
LEMMA NothingIsDegenerate ==
  ASSUME Typed
  PROVE  /\ Degenerate({})
         /\ Plane({}) = [w |-> 0, wx |-> 0, wz |-> 0, den |-> 1]
  <1>1. /\ SumFunction(OfK({})) = 0 /\ SumFunction(OfKX({})) = 0 /\ SumFunction(OfKZ({})) = 0
        /\ SumFunction(OfKXX({})) = 0 /\ SumFunction(OfKXZ({})) = 0
        /\ SumFunction(OfKZZ({})) = 0
    BY SumOfNothing DEF OfK, OfKX, OfKZ, OfKXX, OfKXZ, OfKZZ
  <1>2. MomentMatrix({}) = << 0, 0, 0, 0, 0, 0, 0, 0, 0 >>
    BY <1>1, MatrixOfSums
  <1>3. Degenerate({})
    BY <1>2 DEF Degenerate, Det
  <1>4. LevelPlane({}) = [w |-> 0, wx |-> 0, wz |-> 0, den |-> 1]
    BY <1>1, LevelOfSums
  <1> QED BY <1>3, <1>4 DEF Plane

LEMMA TargetIsTyped ==
  ASSUME Typed, NEW S \in SUBSET Contacts
  PROVE  /\ Target(S)[1] \in Int /\ Target(S)[2] \in Int /\ Target(S)[3] \in Int
         /\ request.weight \in Nat /\ request.momentX \in Int /\ request.momentZ \in Int
         /\ Scale \in Nat /\ Scale > 0
  <1>1. /\ request.weight \in Nat /\ request.momentX \in Int /\ request.momentZ \in Int
        /\ Scale \in Nat /\ Scale > 0
    BY SettlementAssumption DEF Typed
  <1>2. /\ Scale * request.weight \in Int /\ -Scale * request.momentZ \in Int
        /\ Scale * request.momentX \in Int
    BY <1>1
  <1>3. /\ SumFunction(OfKG(S)) \in Int /\ SumFunction(OfKGX(S)) \in Int
        /\ SumFunction(OfKGZ(S)) \in Int
    BY SumsAreTyped
  <1> QED BY <1>1, <1>2, <1>3, TargetOfSums

(* The normal equations hold for the plane: the first always, where there  *)
(* is anything to stand on, the others off a line.                         *)
LEMMA PlaneSolves ==
  ASSUME Typed, NEW S \in SUBSET Contacts, S # {}
  PROVE  LET p == Plane(S) IN
         /\ p \in Planes
         /\ SumFunction(OfK(S)) * p.w + SumFunction(OfKX(S)) * p.wx + SumFunction(OfKZ(S)) * p.wz
              = Target(S)[1] * p.den
         /\ ~Degenerate(S) =>
              /\ SumFunction(OfKX(S)) * p.w + SumFunction(OfKXX(S)) * p.wx
                   + SumFunction(OfKXZ(S)) * p.wz = Target(S)[2] * p.den
              /\ SumFunction(OfKZ(S)) * p.w + SumFunction(OfKXZ(S)) * p.wx
                   + SumFunction(OfKZZ(S)) * p.wz = Target(S)[3] * p.den
  <1> DEFINE a == SumFunction(OfK(S))
             b == SumFunction(OfKX(S))
             c == SumFunction(OfKZ(S))
             d == SumFunction(OfKXX(S))
             e == SumFunction(OfKXZ(S))
             f == SumFunction(OfKZZ(S))
             r == Target(S)[1]
             s == Target(S)[2]
             t == Target(S)[3]
             p == Plane(S)
             m == << a, b, c, b, d, e, c, e, f >>
  <1>1. /\ a \in Int /\ b \in Int /\ c \in Int /\ d \in Int /\ e \in Int /\ f \in Int
        /\ r \in Int /\ s \in Int /\ t \in Int /\ a \in Nat
    BY SumsAreTyped, TargetIsTyped
  <1>2. MomentMatrix(S) = m
    BY MatrixOfSums
  <1>3. Target(S) = << r, s, t >>
    BY TargetOfSums
  <1>4. LevelPlane(S) = [w |-> r, wx |-> 0, wz |-> 0, den |-> a] /\ a > 0
    BY LevelOfSums, DeterminantIsNatural
  <1>5. Det(MomentMatrix(S)) \in Nat
    BY DeterminantIsNatural
  <1> SUFFICES /\ p \in Planes
               /\ a * p.w + b * p.wx + c * p.wz = r * p.den
               /\ ~Degenerate(S) => /\ b * p.w + d * p.wx + e * p.wz = s * p.den
                                    /\ c * p.w + e * p.wx + f * p.wz = t * p.den
    OBVIOUS
  <1> HIDE DEF a, b, c, d, e, f, r, s, t
  <1>6. CASE Degenerate(S)
    <2>1. p = [w |-> r, wx |-> 0, wz |-> 0, den |-> a]
      BY <1>4, <1>6 DEF Plane
    <2>2. p.w = r /\ p.wx = 0 /\ p.wz = 0 /\ p.den = a
      BY <2>1
    <2>3. p \in Planes
      BY <2>1, <1>1, <1>4 DEF Planes
    <2> HIDE DEF p
    <2>4. a * p.w + b * p.wx + c * p.wz = r * p.den
      BY <2>2, <1>1
    <2> QED BY <2>3, <2>4, <1>6
  <1>7. CASE ~Degenerate(S)
    <2> DEFINE n == << r, s, t >>
               u == Det(WithColumn(m, 1, n))
               v == Det(WithColumn(m, 2, n))
               w == Det(WithColumn(m, 3, n))
    <2>1. /\ Det(m) \in Int /\ u \in Int /\ v \in Int /\ w \in Int
          /\ a * u + b * v + c * w = r * Det(m)
          /\ b * u + d * v + e * w = s * Det(m)
          /\ c * u + e * v + f * w = t * Det(m)
      <3>1. /\ m \in [1 .. 9 -> Int] /\ m[1] = a /\ m[2] = b /\ m[3] = c /\ m[4] = b /\ m[5] = d
            /\ m[6] = e /\ m[7] = c /\ m[8] = e /\ m[9] = f
        BY <1>1
      <3>2. n \in [1 .. 3 -> Int] /\ n[1] = r /\ n[2] = s /\ n[3] = t
        BY <1>1
      <3> HIDE DEF m, n
      <3> QED BY <3>1, <3>2, Cramer
    <2>2. p = [w |-> u, wx |-> v, wz |-> w, den |-> Det(m)]
      BY <1>2, <1>3, <1>7 DEF Plane
    <2>3. Det(m) \in Nat \ {0}
      BY <1>2, <1>5, <1>7 DEF Degenerate
    <2> HIDE DEF n, u, v, w, m, p
    <2> QED BY <2>1, <2>2, <2>3 DEF Planes
  <1> QED BY <1>6, <1>7

LEMMA PlaneIsTyped ==
  ASSUME Typed, NEW S \in SUBSET Contacts
  PROVE  Plane(S) \in Planes
  BY NothingIsDegenerate, PlaneSolves DEF Planes

(* What a plane presses, contact by contact, and its moments.              *)
Forces(p, S)  == [c \in S |-> Reaction(p, c)]
ForcesX(p, S) == [c \in S |-> Reaction(p, c) * X(c)]
ForcesZ(p, S) == [c \in S |-> Reaction(p, c) * Z(c)]

LEMMA ReactionIsTyped ==
  ASSUME Typed, NEW p \in Planes, NEW c \in Contacts
  PROVE  /\ Penetration(p, c) \in Int /\ Reaction(p, c) \in Int
         /\ Reaction(p, c) >= 0 <=> Penetration(p, c) >= 0
  <1>1. /\ Stiffness(c) \in Nat /\ Stiffness(c) > 0
        /\ X(c) \in Int /\ Z(c) \in Int /\ Gap(c) \in Int
    BY ContactIsTyped
  <1>2. Penetration(p, c) \in Int
    BY <1>1 DEF Penetration, Planes
  <1>3. ASSUME NEW k \in Nat, k > 0, NEW n \in Int
        PROVE  k * n \in Int /\ (k * n >= 0 <=> n >= 0)
    BY <1>3
  <1> QED BY <1>1, <1>2, <1>3 DEF Reaction

LEMMA ForcesAreTyped ==
  ASSUME Typed, NEW p \in Planes, NEW S \in SUBSET Contacts
  PROVE  /\ Forces(p, S) \in [S -> Int] /\ ForcesX(p, S) \in [S -> Int]
         /\ ForcesZ(p, S) \in [S -> Int]
  <1>1. \A c \in S : Reaction(p, c) \in Int /\ X(c) \in Int /\ Z(c) \in Int
    BY ReactionIsTyped, ContactIsTyped
  <1>2. \A c \in S : Reaction(p, c) * X(c) \in Int /\ Reaction(p, c) * Z(c) \in Int
    BY <1>1
  <1> QED BY <1>1, <1>2 DEF Forces, ForcesX, ForcesZ

LEMMA ForcesSumUp ==
  ASSUME Typed, NEW p \in Planes, NEW S \in SUBSET Contacts
  PROVE  /\ SumFunction(Forces(p, S)) =
              p.w * SumFunction(OfK(S)) + p.wx * SumFunction(OfKX(S))
                + p.wz * SumFunction(OfKZ(S)) + (-p.den) * SumFunction(OfKG(S))
         /\ SumFunction(ForcesX(p, S)) =
              p.w * SumFunction(OfKX(S)) + p.wx * SumFunction(OfKXX(S))
                + p.wz * SumFunction(OfKXZ(S)) + (-p.den) * SumFunction(OfKGX(S))
         /\ SumFunction(ForcesZ(p, S)) =
              p.w * SumFunction(OfKZ(S)) + p.wx * SumFunction(OfKXZ(S))
                + p.wz * SumFunction(OfKZZ(S)) + (-p.den) * SumFunction(OfKGZ(S))
  <1>1. p.w \in Int /\ p.wx \in Int /\ p.wz \in Int /\ p.den \in Int /\ -p.den \in Int
    BY DEF Planes
  <1>2. ASSUME NEW u \in Int, NEW v \in Int, NEW w \in Int, NEW n \in Int,
               NEW k \in Int, NEW x \in Int, NEW z \in Int, NEW g \in Int
        PROVE  /\ k * (u + v * x + w * z - g * n) =
                     u * k + v * (k * x) + w * (k * z) + (-n) * (k * g)
               /\ k * (u + v * x + w * z - g * n) * x =
                     u * (k * x) + v * (k * x * x) + w * (k * x * z) + (-n) * (k * g * x)
               /\ k * (u + v * x + w * z - g * n) * z =
                     u * (k * z) + v * (k * x * z) + w * (k * z * z) + (-n) * (k * g * z)
    OBVIOUS
  <1>3. \A c \in S :
          /\ Reaction(p, c) = p.w * Stiffness(c) + p.wx * (Stiffness(c) * X(c))
                + p.wz * (Stiffness(c) * Z(c)) + (-p.den) * (Stiffness(c) * Gap(c))
          /\ Reaction(p, c) * X(c) = p.w * (Stiffness(c) * X(c))
                + p.wx * (Stiffness(c) * X(c) * X(c)) + p.wz * (Stiffness(c) * X(c) * Z(c))
                + (-p.den) * (Stiffness(c) * Gap(c) * X(c))
          /\ Reaction(p, c) * Z(c) = p.w * (Stiffness(c) * Z(c))
                + p.wx * (Stiffness(c) * X(c) * Z(c)) + p.wz * (Stiffness(c) * Z(c) * Z(c))
                + (-p.den) * (Stiffness(c) * Gap(c) * Z(c))
    <2> TAKE c \in S
    <2>1. /\ Stiffness(c) \in Int /\ X(c) \in Int /\ Z(c) \in Int /\ Gap(c) \in Int
      BY ContactIsTyped
    <2>2. Reaction(p, c) = Stiffness(c) * (p.w + p.wx * X(c) + p.wz * Z(c) - Gap(c) * p.den)
      BY DEF Reaction, Penetration
    <2> QED BY <1>1, <1>2, <2>1, <2>2
  <1>4. \A c \in S : Forces(p, S)[c] = p.w * OfK(S)[c] + p.wx * OfKX(S)[c]
                                     + p.wz * OfKZ(S)[c] + (-p.den) * OfKG(S)[c]
    BY <1>3 DEF Forces, OfK, OfKX, OfKZ, OfKG
  <1>5. \A c \in S : ForcesX(p, S)[c] = p.w * OfKX(S)[c] + p.wx * OfKXX(S)[c]
                                      + p.wz * OfKXZ(S)[c] + (-p.den) * OfKGX(S)[c]
    BY <1>3 DEF ForcesX, OfKX, OfKXX, OfKXZ, OfKGX
  <1>6. \A c \in S : ForcesZ(p, S)[c] = p.w * OfKZ(S)[c] + p.wx * OfKXZ(S)[c]
                                      + p.wz * OfKZZ(S)[c] + (-p.den) * OfKGZ(S)[c]
    BY <1>3 DEF ForcesZ, OfKZ, OfKXZ, OfKZZ, OfKGZ
  <1>7. SumFunction(Forces(p, S)) =
              p.w * SumFunction(OfK(S)) + p.wx * SumFunction(OfKX(S))
                + p.wz * SumFunction(OfKZ(S)) + (-p.den) * SumFunction(OfKG(S))
    <2> DEFINE e == Forces(p, S)
               f == OfK(S)
               g == OfKX(S)
               h == OfKZ(S)
               k == OfKG(S)
               n == -p.den
    <2>1. /\ e \in [S -> Int] /\ f \in [S -> Int] /\ g \in [S -> Int] /\ h \in [S -> Int]
          /\ k \in [S -> Int] /\ IsFiniteSet(S) /\ n \in Int
      BY <1>1, TermsAreTyped, ForcesAreTyped
    <2>2. \A c \in S : e[c] = p.w * f[c] + p.wx * g[c] + p.wz * h[c] + n * k[c]
      BY <1>4
    <2> HIDE DEF e, f, g, h, k, n
    <2>3. SumFunction(e) = p.w * SumFunction(f) + p.wx * SumFunction(g)
                           + p.wz * SumFunction(h) + n * SumFunction(k)
      BY <1>1, <2>1, <2>2, SumOfFour
    <2> QED BY <2>3 DEF e, f, g, h, k, n
  <1>8. SumFunction(ForcesX(p, S)) =
              p.w * SumFunction(OfKX(S)) + p.wx * SumFunction(OfKXX(S))
                + p.wz * SumFunction(OfKXZ(S)) + (-p.den) * SumFunction(OfKGX(S))
    <2> DEFINE e == ForcesX(p, S)
               f == OfKX(S)
               g == OfKXX(S)
               h == OfKXZ(S)
               k == OfKGX(S)
               n == -p.den
    <2>1. /\ e \in [S -> Int] /\ f \in [S -> Int] /\ g \in [S -> Int] /\ h \in [S -> Int]
          /\ k \in [S -> Int] /\ IsFiniteSet(S) /\ n \in Int
      BY <1>1, TermsAreTyped, ForcesAreTyped
    <2>2. \A c \in S : e[c] = p.w * f[c] + p.wx * g[c] + p.wz * h[c] + n * k[c]
      BY <1>5
    <2> HIDE DEF e, f, g, h, k, n
    <2>3. SumFunction(e) = p.w * SumFunction(f) + p.wx * SumFunction(g)
                           + p.wz * SumFunction(h) + n * SumFunction(k)
      BY <1>1, <2>1, <2>2, SumOfFour
    <2> QED BY <2>3 DEF e, f, g, h, k, n
  <1>9. SumFunction(ForcesZ(p, S)) =
              p.w * SumFunction(OfKZ(S)) + p.wx * SumFunction(OfKXZ(S))
                + p.wz * SumFunction(OfKZZ(S)) + (-p.den) * SumFunction(OfKGZ(S))
    <2> DEFINE e == ForcesZ(p, S)
               f == OfKZ(S)
               g == OfKXZ(S)
               h == OfKZZ(S)
               k == OfKGZ(S)
               n == -p.den
    <2>1. /\ e \in [S -> Int] /\ f \in [S -> Int] /\ g \in [S -> Int] /\ h \in [S -> Int]
          /\ k \in [S -> Int] /\ IsFiniteSet(S) /\ n \in Int
      BY <1>1, TermsAreTyped, ForcesAreTyped
    <2>2. \A c \in S : e[c] = p.w * f[c] + p.wx * g[c] + p.wz * h[c] + n * k[c]
      BY <1>6
    <2> HIDE DEF e, f, g, h, k, n
    <2>3. SumFunction(e) = p.w * SumFunction(f) + p.wx * SumFunction(g)
                           + p.wz * SumFunction(h) + n * SumFunction(k)
      BY <1>1, <2>1, <2>2, SumOfFour
    <2> QED BY <2>3 DEF e, f, g, h, k, n
  <1> QED BY <1>7, <1>8, <1>9

(* The reactions of a pass carry the weight, and off a line both moments.  *)
LEMMA PlaneBalances ==
  ASSUME Typed, NEW S \in SUBSET Contacts, S # {}
  PROVE  LET p == Plane(S) IN
         /\ SumFunction(Forces(p, S)) = Scale * request.weight * p.den
         /\ ~Degenerate(S) =>
              /\ SumFunction(ForcesX(p, S)) = -Scale * request.momentZ * p.den
              /\ SumFunction(ForcesZ(p, S)) = Scale * request.momentX * p.den
  <1> DEFINE p == Plane(S)
  <1>1. /\ p \in Planes
        /\ SumFunction(OfK(S)) * p.w + SumFunction(OfKX(S)) * p.wx + SumFunction(OfKZ(S)) * p.wz
             = Target(S)[1] * p.den
        /\ ~Degenerate(S) =>
             /\ SumFunction(OfKX(S)) * p.w + SumFunction(OfKXX(S)) * p.wx
                  + SumFunction(OfKXZ(S)) * p.wz = Target(S)[2] * p.den
             /\ SumFunction(OfKZ(S)) * p.w + SumFunction(OfKXZ(S)) * p.wx
                  + SumFunction(OfKZZ(S)) * p.wz = Target(S)[3] * p.den
    BY PlaneSolves
  <1>2. p.w \in Int /\ p.wx \in Int /\ p.wz \in Int /\ p.den \in Int
    BY <1>1 DEF Planes
  <1>3. /\ Target(S)[1] = Scale * request.weight + SumFunction(OfKG(S))
        /\ Target(S)[2] = -Scale * request.momentZ + SumFunction(OfKGX(S))
        /\ Target(S)[3] = Scale * request.momentX + SumFunction(OfKGZ(S))
    BY TargetOfSums
  <1>4. /\ Scale * request.weight \in Int /\ -Scale * request.momentZ \in Int
        /\ Scale * request.momentX \in Int
    BY TargetIsTyped
  <1>5. ASSUME NEW k \in Int, NEW x \in Int, NEW z \in Int, NEW g \in Int,
               NEW u \in Int, NEW v \in Int, NEW w \in Int, NEW n \in Int, NEW t \in Int,
               k * u + x * v + z * w = (t + g) * n
        PROVE  u * k + v * x + w * z + (-n) * g = t * n
    BY <1>5
  <1> DEFINE t1 == Scale * request.weight
             t2 == -Scale * request.momentZ
             t3 == Scale * request.momentX
  <1>6. /\ t1 \in Int /\ t2 \in Int /\ t3 \in Int
        /\ Target(S)[1] = t1 + SumFunction(OfKG(S))
        /\ Target(S)[2] = t2 + SumFunction(OfKGX(S))
        /\ Target(S)[3] = t3 + SumFunction(OfKGZ(S))
    BY <1>3, <1>4
  <1> SUFFICES /\ SumFunction(Forces(p, S)) = t1 * p.den
               /\ ~Degenerate(S) => /\ SumFunction(ForcesX(p, S)) = t2 * p.den
                                    /\ SumFunction(ForcesZ(p, S)) = t3 * p.den
    <2>1. ASSUME NEW k \in Int, NEW x \in Int, NEW n \in Int
          PROVE  (-k * x) * n = -k * x * n
      OBVIOUS
    <2>2. t2 * p.den = -Scale * request.momentZ * p.den
      BY <2>1, <1>2, TargetIsTyped
    <2> QED BY <2>2
  <1> HIDE DEF p, t1, t2, t3
  <1>7. SumFunction(Forces(p, S)) = t1 * p.den
    <2>1. SumFunction(OfK(S)) * p.w + SumFunction(OfKX(S)) * p.wx + SumFunction(OfKZ(S)) * p.wz
            = (t1 + SumFunction(OfKG(S))) * p.den
      BY <1>1, <1>6
    <2>2. p.w * SumFunction(OfK(S)) + p.wx * SumFunction(OfKX(S)) + p.wz * SumFunction(OfKZ(S))
            + (-p.den) * SumFunction(OfKG(S)) = t1 * p.den
      BY <1>2, <1>5, <1>6, <2>1, SumsAreTyped
    <2> QED BY <2>2, <1>1, ForcesSumUp
  <1>8. ASSUME ~Degenerate(S) PROVE SumFunction(ForcesX(p, S)) = t2 * p.den
    <2>1. SumFunction(OfKX(S)) * p.w + SumFunction(OfKXX(S)) * p.wx + SumFunction(OfKXZ(S)) * p.wz
            = (t2 + SumFunction(OfKGX(S))) * p.den
      BY <1>1, <1>6, <1>8
    <2>2. p.w * SumFunction(OfKX(S)) + p.wx * SumFunction(OfKXX(S)) + p.wz * SumFunction(OfKXZ(S))
            + (-p.den) * SumFunction(OfKGX(S)) = t2 * p.den
      BY <1>2, <1>5, <1>6, <2>1, SumsAreTyped
    <2> QED BY <2>2, <1>1, ForcesSumUp
  <1>9. ASSUME ~Degenerate(S) PROVE SumFunction(ForcesZ(p, S)) = t3 * p.den
    <2>1. SumFunction(OfKZ(S)) * p.w + SumFunction(OfKXZ(S)) * p.wx + SumFunction(OfKZZ(S)) * p.wz
            = (t3 + SumFunction(OfKGZ(S))) * p.den
      BY <1>1, <1>6, <1>9
    <2>2. p.w * SumFunction(OfKZ(S)) + p.wx * SumFunction(OfKXZ(S)) + p.wz * SumFunction(OfKZZ(S))
            + (-p.den) * SumFunction(OfKGZ(S)) = t3 * p.den
      BY <1>2, <1>5, <1>6, <2>1, SumsAreTyped
    <2> QED BY <2>2, <1>1, ForcesSumUp
  <1> QED BY <1>7, <1>8, <1>9

-----------------------------------------------------------------------------
(* The walk.                                                               *)

WalkTyped ==
  /\ Typed /\ active \in SUBSET Contacts /\ pass \in 0 .. PassBudget
  /\ verdict \in {"walking", "settled", "did_not_settle"}

(* A walk returns from a pass that found nothing to drop and nothing to    *)
(* re-admit.                                                               *)
Resting ==
  verdict = "settled" => Pulling(Plane(active)) = {} /\ Pressed(Plane(active)) = {}

SettlementInv == WalkTyped /\ Resting /\ LoadKeepsStanding

LEMMA RestingStays ==
  ASSUME UNCHANGED << request, active >>,
         Pulling(Plane(active)) = {}, Pressed(Plane(active)) = {}
  PROVE  Pulling(Plane(active))' = {} /\ Pressed(Plane(active))' = {}
  <1>1. /\ \A c : Stiffness(c)' = Stiffness(c) /\ X(c)' = X(c) /\ Z(c)' = Z(c) /\ Gap(c)' = Gap(c)
    BY DEF Stiffness, Softening, X, Z, Gap
  <1>2. MomentMatrix(active)' = MomentMatrix(active)
    BY <1>1 DEF MomentMatrix, SumOver
  <1>3. Target(active)' = Target(active)
    BY <1>1 DEF Target, SumOver
  <1>4. LevelPlane(active)' = LevelPlane(active)
    BY <1>1, <1>3 DEF LevelPlane, SumOver
  <1>5. Plane(active)' = Plane(active)
    BY <1>2, <1>3, <1>4 DEF Plane, Degenerate
  <1>6. \A c : /\ Reaction(Plane(active), c)' = Reaction(Plane(active), c)
              /\ Penetration(Plane(active), c)' = Penetration(Plane(active), c)
    BY <1>1, <1>5 DEF Reaction, Penetration
  <1> QED BY <1>6 DEF Pulling, Pressed

(* The last contact of a load that weighs anything bears the whole of it.  *)
LEMMA LastContactBears ==
  ASSUME WalkTyped, request.weight > 0, NEW c, active = {c}
  PROVE  c \notin Pulling(Plane(active))
  <1> DEFINE p == Plane(active)
             n == Scale * request.weight
  <1>1. Typed /\ active \in SUBSET Contacts /\ active # {} /\ c \in Contacts
    BY DEF WalkTyped
  <1>2. p \in Planes /\ SumFunction(Forces(p, active)) = n * p.den
    BY <1>1, PlaneIsTyped, PlaneBalances
  <1>3. p.den \in Int /\ p.den > 0
    BY <1>2 DEF Planes
  <1>4. n \in Int /\ n > 0
    BY <1>1, TargetIsTyped, PositiveFactor
  <1> HIDE DEF p, n
  <1>5. Forces(p, active) \in [{c} -> Int]
    BY <1>1, <1>2, ForcesAreTyped
  <1>6. SumFunction(Forces(p, active)) = Reaction(p, c)
    BY <1>5, SumOfOne DEF Forces
  <1>7. Reaction(p, c) > 0
    BY <1>2, <1>3, <1>4, <1>6, PositiveFactor
  <1>8. Reaction(p, c) \in Int
    BY <1>1, <1>2, ReactionIsTyped
  <1> QED BY <1>7, <1>8 DEF Pulling, p

LEMMA InitSettlementInv == Init => SettlementInv
  <1> SUFFICES ASSUME Init PROVE SettlementInv
    OBVIOUS
  <1>1. WalkTyped
    BY SettlementAssumption DEF Init, WalkTyped, Typed, PassBudget
  <1>2. Contacts # {}
    BY SettlementAssumption DEF Contacts
  <1> QED BY <1>1, <1>2 DEF Init, SettlementInv, Resting, LoadKeepsStanding

LEMMA SettlementInductive == SettlementInv /\ [Next]_vars => SettlementInv'
  <1> SUFFICES ASSUME SettlementInv, [Next]_vars PROVE SettlementInv'
    OBVIOUS
  <1>1. WalkTyped /\ PassBudget \in Nat /\ PassBudget' = PassBudget
    BY SettlementAssumption DEF SettlementInv, PassBudget
  <1>2. ASSUME NEW c \in Contacts, Drop(c) PROVE SettlementInv'
    <2>1. /\ c \in Pulling(Plane(active)) /\ active' = active \ {c}
          /\ pass' = pass + 1 /\ pass < PassBudget /\ verdict' = "walking" /\ request' = request
      BY <1>2 DEF Drop, WorstPulling, InBudget
    <2>2. WalkTyped'
      BY <1>1, <2>1 DEF WalkTyped, Typed
    <2>3. request.weight > 0 => active' # {}
      <3>1. c \in active
        BY <2>1 DEF Pulling
      <3> QED BY <1>1, <2>1, <3>1, LastContactBears
    <2> QED BY <2>1, <2>2, <2>3 DEF SettlementInv, Resting, LoadKeepsStanding
  <1>3. ASSUME NEW c \in Contacts, Readmit(c) PROVE SettlementInv'
    <2>1. /\ active' = active \cup {c}
          /\ pass' = pass + 1 /\ pass < PassBudget /\ verdict' = "walking" /\ request' = request
      BY <1>3 DEF Readmit, InBudget
    <2>2. WalkTyped'
      BY <1>1, <2>1 DEF WalkTyped, Typed
    <2> QED BY <2>1, <2>2 DEF SettlementInv, Resting, LoadKeepsStanding
  <1>4. CASE Settle
    <2>1. /\ UNCHANGED << request, active, pass >> /\ verdict' = "settled"
          /\ Pulling(Plane(active)) = {} /\ Pressed(Plane(active)) = {}
      BY <1>4 DEF Settle
    <2>2. WalkTyped'
      BY <1>1, <2>1 DEF WalkTyped, Typed
    <2>3. Resting'
      BY <2>1, RestingStays DEF Resting
    <2> QED BY <2>1, <2>2, <2>3 DEF SettlementInv, LoadKeepsStanding
  <1>5. CASE GiveUp
    <2>1. UNCHANGED << request, active, pass >> /\ verdict' = "did_not_settle"
      BY <1>5 DEF GiveUp
    <2>2. WalkTyped'
      BY <1>1, <2>1 DEF WalkTyped, Typed
    <2> QED BY <2>1, <2>2 DEF SettlementInv, Resting, LoadKeepsStanding
  <1>6. CASE UNCHANGED vars
    <2>1. UNCHANGED << request, active, pass, verdict >>
      BY <1>6 DEF vars
    <2>2. WalkTyped'
      BY <1>1, <2>1 DEF WalkTyped, Typed
    <2>3. Resting'
      BY <2>1, RestingStays DEF Resting, SettlementInv
    <2> QED BY <2>1, <2>2, <2>3 DEF SettlementInv, LoadKeepsStanding
  <1> QED BY <1>2, <1>3, <1>4, <1>5, <1>6 DEF Next, Returned

LEMMA SettlementInvHolds == Spec => []SettlementInv
  BY InitSettlementInv, SettlementInductive, PTL DEF Spec

(* The walk is typed, and the plane it divides by is a proper one: neither *)
(* the determinant nor the total stiffness is ever negative, and level     *)
(* settlement never divides by nothing.                                    *)
THEOREM SettlementTypeCorrect == Spec => []TypeOK
  <1>1. SettlementInv => TypeOK
    BY PlaneIsTyped DEF SettlementInv, WalkTyped, TypeOK, Planes
  <1> QED BY <1>1, SettlementInvHolds, PTL

(* A load that weighs anything never loses its last contact.               *)
THEOREM TheLoadKeepsStanding == Spec => []LoadKeepsStanding
  <1>1. SettlementInv => LoadKeepsStanding
    BY DEF SettlementInv
  <1> QED BY <1>1, SettlementInvHolds, PTL

LEMMA RestingIsComplementary ==
  ASSUME WalkTyped, Pulling(Plane(active)) = {}, Pressed(Plane(active)) = {}
  PROVE  Complementary(active)
  <1> DEFINE p == Plane(active)
  <1>1. Typed /\ active \in SUBSET Contacts /\ p \in Planes
    BY PlaneIsTyped DEF WalkTyped
  <1>2. \A c \in Contacts : Reaction(p, c) \in Int /\ Penetration(p, c) \in Int
    BY <1>1, ReactionIsTyped
  <1> HIDE DEF p
  <1>3. \A c \in active : Reaction(p, c) >= 0
    BY <1>1, <1>2 DEF Pulling, p
  <1>4. \A c \in Contacts \ active : Penetration(p, c) <= 0
    BY <1>1, <1>2 DEF Pressed, p
  <1> QED BY <1>3, <1>4 DEF Complementary, p

(* What solve_rigid_body_settlement returns carries the load.              *)
THEOREM SettlementCarriesTheLoad == Spec => []SettledCarriesTheLoad
  <1>1. ASSUME SettlementInv, verdict = "settled"
        PROVE  LET p == Plane(active) IN
               /\ Complementary(active)
               /\ SumFunction(Forces(p, active)) = Scale * request.weight * p.den
               /\ Degenerate(active)
                    \/ /\ SumFunction(ForcesX(p, active)) = -Scale * request.momentZ * p.den
                       /\ SumFunction(ForcesZ(p, active)) = Scale * request.momentX * p.den
    <2>1. /\ WalkTyped /\ Typed /\ active \in SUBSET Contacts
          /\ Pulling(Plane(active)) = {} /\ Pressed(Plane(active)) = {}
          /\ request.weight > 0 => active # {}
      BY <1>1 DEF SettlementInv, Resting, LoadKeepsStanding, WalkTyped
    <2>2. Complementary(active)
      BY <2>1, RestingIsComplementary
    <2>3. CASE active # {}
      BY <2>1, <2>2, <2>3, PlaneBalances
    <2>4. CASE active = {}
      <3>1. request.weight = 0 /\ Scale \in Nat
        BY <2>1, <2>4, TargetIsTyped
      <3>2. Degenerate(active) /\ Plane(active).den = 1
        BY <2>1, <2>4, NothingIsDegenerate
      <3>3. SumFunction(Forces(Plane(active), active)) = 0
        BY <2>4, SumOfNothing DEF Forces
      <3> QED BY <2>2, <3>1, <3>2, <3>3
    <2> QED BY <2>3, <2>4
  <1>2. SettlementInv => SettledCarriesTheLoad
    BY <1>1 DEF SettledCarriesTheLoad, SumOver, Forces, ForcesX, ForcesZ
  <1> QED BY <1>2, SettlementInvHolds, PTL

-----------------------------------------------------------------------------
(* The fixed point.  Two equilibria off a line press alike: the difference *)
(* of their forces does no work on the difference of their planes, and at  *)
(* each contact a deeper body presses no less.                             *)

Bearing(k, n) == IF n > 0 THEN k * n ELSE 0

Opposed(f, g) == f * g >= 0 /\ (f * g = 0 => f = 0)

LEMMA DeeperPressesMore ==
  ASSUME NEW k \in Nat, k > 0, NEW d \in Nat, d > 0, NEW e \in Nat, e > 0,
         NEW m \in Int, NEW n \in Int, NEW r \in Int, NEW q \in Int,
         r = Bearing(k, m), q * e = Bearing(k, n)
  PROVE  Opposed(r - q * d, e * m - d * n)
  <1> DEFINE f == r - q * d
             g == e * m - d * n
  <1> SUFFICES f * g >= 0 /\ (f * g = 0 => f = 0)
    BY DEF Opposed
  <1>1. f \in Int /\ g \in Int
    OBVIOUS
  <1>2. ASSUME NEW x \in Int, NEW y \in Int, x > 0, y > 0
        PROVE  x * y > 0 /\ (-x) * (-y) > 0
    BY <1>2
  <1>3. CASE m > 0 /\ n > 0
    <2>1. e * f = k * g
      <3>1. r = k * m /\ q * e = k * n
        BY <1>3 DEF Bearing
      <3>2. e * (r - q * d) = e * r - d * (q * e)
        OBVIOUS
      <3>3. e * (k * m) - d * (k * n) = k * (e * m - d * n)
        OBVIOUS
      <3> QED BY <3>1, <3>2, <3>3
    <2>2. e * (f * g) = k * (g * g)
      <3>1. ASSUME NEW x \in Int, NEW y \in Int, e * x = k * y
            PROVE  e * (x * y) = k * (y * y)
        <4>1. e * (x * y) = (e * x) * y /\ k * (y * y) = (k * y) * y
          OBVIOUS
        <4> QED BY <3>1, <4>1
      <3> HIDE DEF f, g
      <3> QED BY <1>1, <2>1, <3>1
    <2> HIDE DEF f, g
    <2>3. g * g \in Int /\ g * g >= 0 /\ (g * g = 0 => g = 0)
      BY <1>1
    <2>4. f * g \in Int
      BY <1>1
    <2>5. ASSUME NEW x \in Int, NEW y \in Int, y >= 0, e * x = k * y
          PROVE  x >= 0 /\ (x = 0 => y = 0)
      <3>1. k * y >= 0 /\ (k * y = 0 => y = 0)
        BY <2>5
      <3> QED BY <2>5, <3>1
    <2>6. f * g >= 0 /\ (f * g = 0 => g * g = 0)
      BY <2>2, <2>3, <2>4, <2>5
    <2>7. g = 0 => f = 0
      BY <2>1, <1>1
    <2> QED BY <2>3, <2>6, <2>7 DEF f, g
  <1>4. CASE m > 0 /\ n <= 0
    <2>1. r > 0 /\ q = 0
      BY <1>4, <1>2 DEF Bearing
    <2>2. e * m > 0 /\ d * n <= 0
      BY <1>4, <1>2
    <2>3. f > 0 /\ g > 0
      BY <2>1, <2>2
    <2> HIDE DEF f, g
    <2>4. f * g > 0
      BY <1>1, <1>2, <2>3
    <2> QED BY <2>4, <1>1 DEF f, g
  <1>5. CASE m <= 0 /\ n > 0
    <2>1. r = 0 /\ q * e > 0
      BY <1>5, <1>2 DEF Bearing
    <2>2. q > 0
      BY <2>1
    <2>3. e * m <= 0 /\ d * n > 0 /\ q * d > 0
      BY <1>5, <1>2, <2>2
    <2>4. f < 0 /\ g < 0
      BY <2>1, <2>3
    <2> HIDE DEF f, g
    <2>5. (-f) * (-g) > 0
      BY <1>1, <1>2, <2>4
    <2>6. f * g > 0
      BY <2>5, <1>1
    <2> QED BY <2>6, <1>1 DEF f, g
  <1>6. CASE m <= 0 /\ n <= 0
    <2>1. r = 0 /\ q = 0
      BY <1>6 DEF Bearing
    <2>2. f = 0
      BY <2>1
    <2> QED BY <2>2
  <1> QED BY <1>3, <1>4, <1>5, <1>6

(* rigid_settlement.rs:203-207: "Substituting g = g_unloaded + c F back into *)
(* F = k_series (w - g_unloaded) returns F = k (w - g) exactly".            *)
InSeries(k, c, m, depth, force) ==
  ((1 + k * c) * m) * force = Bearing(k * m, depth + c * force)

LEMMA SeriesIsExact ==
  ASSUME NEW k \in Nat, k > 0, NEW c \in Nat, NEW m \in Nat, m > 0,
         NEW depth \in Int, NEW force \in Int,
         force = Bearing(k, depth)
  PROVE  InSeries(k, c, m, depth, force)
  <1>1. CASE depth > 0
    <2>1. depth + c * force = (1 + k * c) * depth /\ force = k * depth
      BY <1>1 DEF Bearing
    <2>2. (1 + k * c) * depth > 0
      <3>1. k * c \in Nat
        OBVIOUS
      <3>2. ASSUME NEW n \in Nat PROVE (1 + n) * depth > 0
        BY <1>1
      <3> QED BY <3>1, <3>2
    <2>3. ((1 + k * c) * m) * (k * depth) = (k * m) * ((1 + k * c) * depth)
      OBVIOUS
    <2> QED BY <2>1, <2>2, <2>3 DEF Bearing, InSeries
  <1>2. CASE depth <= 0
    <2>1. force = 0
      BY <1>2 DEF Bearing
    <2>2. c * force = 0 /\ ((1 + k * c) * m) * force = 0
      BY <2>1
    <2> QED BY <1>2, <2>2 DEF Bearing, InSeries
  <1> QED BY <1>1, <1>2

(* So a body at rest on its raw springs stands on the pairs in series at   *)
(* the same plane, under the same forces.                                  *)
LEMMA RestOnThePair ==
  ASSUME Typed, NEW q \in Planes, AtRawEquilibrium(q), NEW c \in Contacts
  PROVE  /\ Scale * request.current[c] \in Int
         /\ Scale * request.current[c] * q.den = Bearing(Stiffness(c), Penetration(q, c))
  <1> DEFINE k     == request.stiffness[c]
             soft  == request.compliance[c]
             m     == Scale \div Softening(c)
             depth == q.w + q.wx * X(c) + q.wz * Z(c) - request.deck[c] * q.den
             n     == request.current[c]
             force == n * q.den
  <1>1. /\ k \in Nat /\ k > 0 /\ request.deck[c] \in Int /\ soft \in Nat /\ n \in Nat
        /\ Scale % (1 + k * soft) = 0 /\ Scale \in Nat /\ Scale > 0
    BY SettlementAssumption DEF Typed, Contacts
  <1>2. X(c) \in Int /\ Z(c) \in Int
    BY ContactIsTyped
  <1>3. q.w \in Int /\ q.wx \in Int /\ q.wz \in Int /\ q.den \in Nat /\ q.den > 0
    BY DEF Planes
  <1>4. m \in Nat /\ m > 0 /\ Scale = (1 + k * soft) * m
    <2>1. ASSUME NEW a \in Nat, a > 0, NEW b \in Nat, b > 0, a % b = 0
          PROVE  a \div b \in Nat /\ a \div b > 0 /\ a = b * (a \div b)
      BY <2>1
    <2>2. 1 + k * soft \in Nat /\ 1 + k * soft > 0
      BY <1>1
    <2> QED BY <1>1, <2>1, <2>2 DEF Softening
  <1>5. force = Bearing(k, depth)
    BY DEF AtRawEquilibrium, Bearing
  <1>6. Stiffness(c) = k * m
    BY DEF Stiffness
  <1>7. Penetration(q, c) = depth + soft * force
    <2>1. ASSUME NEW u \in Int, NEW g \in Int, NEW a \in Int, NEW b \in Int, NEW e \in Int
          PROVE  u - (g - a * b) * e = (u - g * e) + a * (b * e)
      OBVIOUS
    <2> DEFINE u == q.w + q.wx * X(c) + q.wz * Z(c)
    <2>2. u \in Int
      BY <1>2, <1>3
    <2>3. Gap(c) = request.deck[c] - soft * n
      BY DEF Gap
    <2>4. /\ q.w \in Int /\ q.wx * X(c) \in Int /\ q.wz * Z(c) \in Int
          /\ Gap(c) * q.den \in Int /\ request.deck[c] * q.den \in Int
      BY <1>1, <1>2, <1>3, ContactIsTyped
    <2>5. Penetration(q, c) = u - Gap(c) * q.den /\ depth = u - request.deck[c] * q.den
      BY <2>4 DEF Penetration
    <2> HIDE DEF u, soft, n, force, depth
    <2>6. u - (request.deck[c] - soft * n) * q.den
            = (u - request.deck[c] * q.den) + soft * (n * q.den)
      BY <1>1, <1>3, <2>1, <2>2
    <2> QED BY <2>3, <2>5, <2>6 DEF force
  <1>8. depth \in Int /\ force \in Int /\ n \in Int
    BY <1>1, <1>2, <1>3
  <1> HIDE DEF m, depth
  <1>9. Scale * force = Bearing(Stiffness(c), Penetration(q, c))
    <2> HIDE DEF k, soft, force
    <2>1. ((1 + k * soft) * m) * force = Bearing(k * m, depth + soft * force)
      <3>1. InSeries(k, soft, m, depth, force)
        BY <1>1, <1>4, <1>5, <1>8, SeriesIsExact
      <3> QED BY <3>1 DEF InSeries
    <2> QED BY <2>1, <1>4, <1>6, <1>7
  <1>10. Scale * n * q.den = Scale * force /\ Scale * n \in Int
    BY <1>1, <1>3
  <1> QED BY <1>9, <1>10

(* Sums over the contacts in play are sums over all, the others at zero.   *)
Played(p)  == [c \in Contacts |-> IF c \in active THEN Reaction(p, c) ELSE 0]
PlayedX(p) == [c \in Contacts |-> Played(p)[c] * X(c)]
PlayedZ(p) == [c \in Contacts |-> Played(p)[c] * Z(c)]

LEMMA PlayedSumsUp ==
  ASSUME Typed, active \in SUBSET Contacts, NEW p \in Planes
  PROVE  /\ Played(p) \in [Contacts -> Int] /\ PlayedX(p) \in [Contacts -> Int]
         /\ PlayedZ(p) \in [Contacts -> Int]
         /\ SumFunction(Played(p)) = SumFunction(Forces(p, active))
         /\ SumFunction(PlayedX(p)) = SumFunction(ForcesX(p, active))
         /\ SumFunction(PlayedZ(p)) = SumFunction(ForcesZ(p, active))
  <1>1. \A c \in Contacts : Reaction(p, c) \in Int /\ X(c) \in Int /\ Z(c) \in Int
    BY ReactionIsTyped, ContactIsTyped
  <1>2. Played(p) \in [Contacts -> Int]
    BY <1>1 DEF Played
  <1>3. PlayedX(p) \in [Contacts -> Int] /\ PlayedZ(p) \in [Contacts -> Int]
    <2>1. \A c \in Contacts : Played(p)[c] * X(c) \in Int /\ Played(p)[c] * Z(c) \in Int
      BY <1>1, <1>2
    <2> QED BY <2>1 DEF PlayedX, PlayedZ
  <1>4. \A c \in Contacts \ active : Played(p)[c] = 0
    BY DEF Played
  <1>5. \A c \in Contacts \ active : PlayedX(p)[c] = 0 /\ PlayedZ(p)[c] = 0
    BY <1>1, <1>4 DEF PlayedX, PlayedZ
  <1>6. \A c \in active : Played(p)[c] = Reaction(p, c)
    BY DEF Played
  <1>7. /\ [c \in active |-> Played(p)[c]] = Forces(p, active)
        /\ [c \in active |-> PlayedX(p)[c]] = ForcesX(p, active)
        /\ [c \in active |-> PlayedZ(p)[c]] = ForcesZ(p, active)
    BY <1>6 DEF PlayedX, PlayedZ, Forces, ForcesX, ForcesZ
  <1>8. IsFiniteSet(Contacts)
    BY SettlementAssumption, FS_Interval DEF Contacts
  <1>9. SumFunction(Played(p)) = SumFunction([c \in active |-> Played(p)[c]])
    BY <1>2, <1>4, <1>8, SumWhereItIsNotZero
  <1>10. SumFunction(PlayedX(p)) = SumFunction([c \in active |-> PlayedX(p)[c]])
    BY <1>3, <1>5, <1>8, SumWhereItIsNotZero
  <1>11. SumFunction(PlayedZ(p)) = SumFunction([c \in active |-> PlayedZ(p)[c]])
    BY <1>3, <1>5, <1>8, SumWhereItIsNotZero
  <1> QED BY <1>2, <1>3, <1>7, <1>9, <1>10, <1>11

(* How far the pass presses from the forces handed in, and the moments of  *)
(* that, over the pass's denominator.                                      *)
Off(p)  == [c \in Contacts |-> Played(p)[c] - Scale * request.current[c] * p.den]
OffX(p) == [c \in Contacts |-> Off(p)[c] * X(c)]
OffZ(p) == [c \in Contacts |-> Off(p)[c] * Z(c)]

LEMMA OffSumsToNothing ==
  ASSUME WalkTyped, ~Degenerate(active), CurrentCarriesTheLoad
  PROVE  LET p == Plane(active) IN
         /\ p \in Planes
         /\ Off(p) \in [Contacts -> Int] /\ OffX(p) \in [Contacts -> Int]
         /\ OffZ(p) \in [Contacts -> Int]
         /\ SumFunction(Off(p)) = 0 /\ SumFunction(OffX(p)) = 0 /\ SumFunction(OffZ(p)) = 0
  <1> DEFINE p  == Plane(active)
             n  == Scale * p.den
             u  == [c \in Contacts |-> request.current[c]]
             ux == [c \in Contacts |-> request.current[c] * X(c)]
             uz == [c \in Contacts |-> request.current[c] * Z(c)]
             v  == [c \in Contacts |-> n * u[c]]
             vx == [c \in Contacts |-> n * ux[c]]
             vz == [c \in Contacts |-> n * uz[c]]
  <1>1. Typed /\ active \in SUBSET Contacts /\ p \in Planes /\ active # {}
    BY PlaneIsTyped, NothingIsDegenerate DEF WalkTyped
  <1>2. IsFiniteSet(Contacts)
    BY SettlementAssumption, FS_Interval DEF Contacts
  <1>3. \A c \in Contacts : request.current[c] \in Int /\ X(c) \in Int /\ Z(c) \in Int
    BY <1>1, SettlementAssumption, ContactIsTyped DEF Typed, Contacts
  <1>4. /\ Scale \in Int /\ p.den \in Int /\ n \in Int
        /\ request.weight \in Int /\ request.momentX \in Int /\ request.momentZ \in Int
    <2>1. Scale \in Int /\ p.den \in Int
      BY <1>1, TargetIsTyped DEF Planes
    <2>2. request.weight \in Int /\ request.momentX \in Int /\ request.momentZ \in Int
      BY <1>1, TargetIsTyped
    <2>3. n \in Int
      BY <2>1
    <2> QED BY <2>1, <2>2, <2>3
  <1>5. /\ SumFunction(u) = request.weight /\ SumFunction(ux) = -request.momentZ
        /\ SumFunction(uz) = request.momentX
    BY DEF CurrentCarriesTheLoad, SumOver
  <1>6. u \in [Contacts -> Int] /\ ux \in [Contacts -> Int] /\ uz \in [Contacts -> Int]
    BY <1>3
  <1>7. /\ Played(p) \in [Contacts -> Int] /\ PlayedX(p) \in [Contacts -> Int]
        /\ PlayedZ(p) \in [Contacts -> Int]
        /\ SumFunction(Played(p)) = Scale * request.weight * p.den
        /\ SumFunction(PlayedX(p)) = -Scale * request.momentZ * p.den
        /\ SumFunction(PlayedZ(p)) = Scale * request.momentX * p.den
    BY <1>1, PlayedSumsUp, PlaneBalances
  <1>8. Off(p) = [c \in Contacts |-> Played(p)[c] - n * u[c]]
    <2>1. ASSUME NEW c \in Contacts
          PROVE  Scale * request.current[c] * p.den = n * u[c]
      BY <1>3, <1>4
    <2> QED BY <2>1 DEF Off
  <1> HIDE DEF p, n
  <1>9. v \in [Contacts -> Int] /\ vx \in [Contacts -> Int] /\ vz \in [Contacts -> Int]
    <2> HIDE DEF u, ux, uz
    <2> QED BY <1>4, <1>6
  <1>10. Off(p) \in [Contacts -> Int] /\ \A c \in Contacts : Played(p)[c] = Off(p)[c] + v[c]
    <2>1. \A c \in Contacts : v[c] = n * u[c] /\ v[c] \in Int /\ Played(p)[c] \in Int
      BY <1>7, <1>9
    <2> HIDE DEF u, v
    <2> QED BY <2>1, <1>8
  <1>11. /\ OffX(p) \in [Contacts -> Int] /\ OffZ(p) \in [Contacts -> Int]
         /\ \A c \in Contacts : PlayedX(p)[c] = OffX(p)[c] + vx[c]
         /\ \A c \in Contacts : PlayedZ(p)[c] = OffZ(p)[c] + vz[c]
    <2>1. ASSUME NEW c \in Contacts
          PROVE  /\ Off(p)[c] * X(c) \in Int /\ Off(p)[c] * Z(c) \in Int
                 /\ Played(p)[c] * X(c) = Off(p)[c] * X(c) + vx[c]
                 /\ Played(p)[c] * Z(c) = Off(p)[c] * Z(c) + vz[c]
      <3>1. /\ Off(p)[c] \in Int /\ X(c) \in Int /\ Z(c) \in Int
            /\ request.current[c] \in Int /\ n \in Int
            /\ Played(p)[c] = Off(p)[c] + n * request.current[c]
        BY <1>3, <1>4, <1>10
      <3>2. vx[c] = n * (request.current[c] * X(c)) /\ vz[c] = n * (request.current[c] * Z(c))
        OBVIOUS
      <3>3. ASSUME NEW a \in Int, NEW b \in Int, NEW x \in Int
            PROVE  (a + n * b) * x = a * x + n * (b * x) /\ a * x \in Int
        BY <3>1
      <3> QED BY <3>1, <3>2, <3>3
    <2> HIDE DEF vx, vz
    <2> QED BY <2>1 DEF OffX, OffZ, PlayedX, PlayedZ
  <1>12. /\ SumFunction(v) = n * SumFunction(u) /\ SumFunction(vx) = n * SumFunction(ux)
         /\ SumFunction(vz) = n * SumFunction(uz)
    <2>1. /\ \A c \in Contacts : v[c] = n * u[c]
          /\ \A c \in Contacts : vx[c] = n * ux[c]
          /\ \A c \in Contacts : vz[c] = n * uz[c]
      OBVIOUS
    <2> HIDE DEF u, ux, uz, v, vx, vz
    <2>2. SumFunction(v) = n * SumFunction(u)
      BY <1>2, <1>4, <1>6, <1>9, <2>1, SumScales
    <2>3. SumFunction(vx) = n * SumFunction(ux)
      BY <1>2, <1>4, <1>6, <1>9, <2>1, SumScales
    <2>4. SumFunction(vz) = n * SumFunction(uz)
      BY <1>2, <1>4, <1>6, <1>9, <2>1, SumScales
    <2> QED BY <2>2, <2>3, <2>4
  <1> HIDE DEF u, ux, uz, v, vx, vz
  <1>13. /\ SumFunction(Played(p)) = SumFunction(Off(p)) + SumFunction(v)
         /\ SumFunction(PlayedX(p)) = SumFunction(OffX(p)) + SumFunction(vx)
         /\ SumFunction(PlayedZ(p)) = SumFunction(OffZ(p)) + SumFunction(vz)
    <2>1. SumFunction(Played(p)) = SumFunction(Off(p)) + SumFunction(v)
      BY <1>2, <1>7, <1>9, <1>10, SumAdds
    <2>2. SumFunction(PlayedX(p)) = SumFunction(OffX(p)) + SumFunction(vx)
      BY <1>2, <1>7, <1>9, <1>11, SumAdds
    <2>3. SumFunction(PlayedZ(p)) = SumFunction(OffZ(p)) + SumFunction(vz)
      BY <1>2, <1>7, <1>9, <1>11, SumAdds
    <2> QED BY <2>1, <2>2, <2>3
  <1>14. /\ SumFunction(Played(p)) = SumFunction(v) /\ SumFunction(PlayedX(p)) = SumFunction(vx)
         /\ SumFunction(PlayedZ(p)) = SumFunction(vz)
    <2>1. ASSUME NEW k \in Int, NEW w \in Int, NEW e \in Int
          PROVE  k * w * e = (k * e) * w /\ -k * w * e = (k * e) * (-w)
      OBVIOUS
    <2> QED BY <2>1, <1>4, <1>5, <1>7, <1>12 DEF n
  <1>15. /\ SumFunction(Off(p)) \in Int /\ SumFunction(OffX(p)) \in Int
         /\ SumFunction(OffZ(p)) \in Int /\ SumFunction(v) \in Int
         /\ SumFunction(vx) \in Int /\ SumFunction(vz) \in Int
    BY <1>2, <1>9, <1>10, <1>11, SumIsInteger
  <1>16. SumFunction(Off(p)) = 0 /\ SumFunction(OffX(p)) = 0 /\ SumFunction(OffZ(p)) = 0
    BY <1>13, <1>14, <1>15
  <1> QED BY <1>1, <1>10, <1>11, <1>16 DEF p

LEMMA RestIsUnmoved ==
  ASSUME WalkTyped, Pulling(Plane(active)) = {}, Pressed(Plane(active)) = {},
         ~Degenerate(active), CurrentCarriesTheLoad,
         NEW q \in Planes, AtRawEquilibrium(q)
  PROVE  Unmoved
  <1> DEFINE p == Plane(active)
             a == q.den * p.w - p.den * q.w
             b == q.den * p.wx - p.den * q.wx
             z == q.den * p.wz - p.den * q.wz
             moved(c) == q.den * Penetration(p, c) - p.den * Penetration(q, c)
             work == [c \in Contacts |-> Off(p)[c] * moved(c)]
  <1>1. /\ Typed /\ active \in SUBSET Contacts
        /\ p \in Planes /\ Off(p) \in [Contacts -> Int] /\ OffX(p) \in [Contacts -> Int]
        /\ OffZ(p) \in [Contacts -> Int]
        /\ SumFunction(Off(p)) = 0 /\ SumFunction(OffX(p)) = 0 /\ SumFunction(OffZ(p)) = 0
    BY OffSumsToNothing DEF WalkTyped
  <1>2. /\ p.w \in Int /\ p.wx \in Int /\ p.wz \in Int /\ p.den \in Nat /\ p.den > 0
        /\ q.w \in Int /\ q.wx \in Int /\ q.wz \in Int /\ q.den \in Nat /\ q.den > 0
    BY <1>1 DEF Planes
  <1>3. a \in Int /\ b \in Int /\ z \in Int
    BY <1>2
  <1>4. IsFiniteSet(Contacts)
    BY SettlementAssumption, FS_Interval DEF Contacts
  <1> HIDE DEF p
  <1>5. ASSUME NEW c \in Contacts
        PROVE  Played(p)[c] = Bearing(Stiffness(c), Penetration(p, c))
    <2>1. /\ Stiffness(c) \in Nat /\ Penetration(p, c) \in Int /\ Reaction(p, c) \in Int
          /\ (Reaction(p, c) >= 0 <=> Penetration(p, c) >= 0)
      BY <1>1, ContactIsTyped, ReactionIsTyped
    <2>2. CASE c \in active
      <3>1. ~(Reaction(p, c) < 0)
        BY <2>2 DEF Pulling, p
      <3>2. Penetration(p, c) >= 0
        BY <2>1, <3>1
      <3>3. Played(p)[c] = Stiffness(c) * Penetration(p, c)
        BY <2>2 DEF Played, Reaction
      <3> QED BY <2>1, <3>2, <3>3 DEF Bearing
    <2>3. CASE c \notin active
      <3>1. ~(Penetration(p, c) > 0)
        BY <2>3 DEF Pressed, p
      <3>2. Played(p)[c] = 0
        BY <2>3 DEF Played
      <3> QED BY <3>1, <3>2 DEF Bearing
    <2> QED BY <2>2, <2>3
  <1>6. ASSUME NEW c \in Contacts
        PROVE  /\ work[c] \in Nat
               /\ work[c] = 0 => Off(p)[c] = 0
    <2> DEFINE n == Scale * request.current[c]
               k == Stiffness(c)
               r == Played(p)[c]
               m == Penetration(p, c)
               l == Penetration(q, c)
    <2>1. n \in Int /\ n * q.den = Bearing(k, l)
      BY <1>1, RestOnThePair
    <2>2. k \in Nat /\ k > 0 /\ m \in Int /\ l \in Int
      BY <1>1, ContactIsTyped, ReactionIsTyped
    <2>3. r \in Int /\ r = Bearing(k, m)
      BY <1>1, <1>5, PlayedSumsUp
    <2>4. Off(p)[c] = r - n * p.den
      BY DEF Off
    <2>5. work[c] = (r - n * p.den) * (q.den * m - p.den * l)
      BY <2>4
    <2> HIDE DEF n, k, r, m, l, work
    <2>6. Opposed(r - n * p.den, q.den * m - p.den * l)
      BY <1>2, <2>1, <2>2, <2>3, DeeperPressesMore
    <2>7. (r - n * p.den) * (q.den * m - p.den * l) \in Int
      BY <1>2, <2>1, <2>2, <2>3
    <2> QED BY <2>4, <2>5, <2>6, <2>7 DEF Opposed
  <1>7. ASSUME NEW c \in Contacts
        PROVE  work[c] = a * Off(p)[c] + b * OffX(p)[c] + z * OffZ(p)[c]
    <2>1. /\ X(c) \in Int /\ Z(c) \in Int /\ Gap(c) \in Int /\ Off(p)[c] \in Int
      BY <1>1, ContactIsTyped
    <2>2. ASSUME NEW d \in Int, NEW e \in Int, NEW x \in Int, NEW y \in Int, NEW g \in Int,
                 NEW pw \in Int, NEW px \in Int, NEW pz \in Int,
                 NEW qw \in Int, NEW qx \in Int, NEW qz \in Int
          PROVE  e * (pw + px * x + pz * y - g * d) - d * (qw + qx * x + qz * y - g * e)
                   = (e * pw - d * qw) + (e * px - d * qx) * x + (e * pz - d * qz) * y
      OBVIOUS
    <2>3. moved(c) = a + b * X(c) + z * Z(c)
      <3>1. /\ Penetration(p, c) = p.w + p.wx * X(c) + p.wz * Z(c) - Gap(c) * p.den
            /\ Penetration(q, c) = q.w + q.wx * X(c) + q.wz * Z(c) - Gap(c) * q.den
        BY DEF Penetration
      <3> QED BY <1>2, <2>1, <2>2, <3>1
    <2>4. OffX(p)[c] = Off(p)[c] * X(c) /\ OffZ(p)[c] = Off(p)[c] * Z(c)
      BY DEF OffX, OffZ
    <2>5. ASSUME NEW f \in Int, NEW x \in Int, NEW y \in Int, NEW u \in Int, NEW v \in Int, NEW w \in Int
          PROVE  f * (u + v * x + w * y) = u * f + v * (f * x) + w * (f * y)
      OBVIOUS
    <2>6. work[c] = Off(p)[c] * moved(c)
      OBVIOUS
    <2> HIDE DEF a, b, z, moved, work
    <2> QED BY <1>3, <2>1, <2>3, <2>4, <2>5, <2>6
  <1>8. work \in [Contacts -> Nat]
    BY <1>6
  <1> HIDE DEF work, a, b, z
  (* Forces that add up to nothing, and turn nothing, do no work.         *)
  <1>9. \A c \in Contacts : work[c] = 0
    <2> DEFINE f == Off(p)
               fx == OffX(p)
               fz == OffZ(p)
    <2>1. f \in [Contacts -> Int] /\ fx \in [Contacts -> Int] /\ fz \in [Contacts -> Int]
      BY <1>1
    <2>2. SumFunction(f) = 0 /\ SumFunction(fx) = 0 /\ SumFunction(fz) = 0
      BY <1>1
    <2>3. \A c \in Contacts : work[c] = a * f[c] + b * fx[c] + z * fz[c]
      BY <1>7
    <2> HIDE DEF f, fx, fz
    <2>4. work \in [Contacts -> Int]
      BY <1>8
    <2>5. SumFunction(work) = a * SumFunction(f) + b * SumFunction(fx) + z * SumFunction(fz)
      BY <1>3, <1>4, <2>1, <2>3, <2>4, SumOfThree
    <2>6. SumFunction(work) = 0
      BY <1>3, <2>2, <2>5
    <2>7. \A c \in Contacts : work[c] <= 0
      BY <1>4, <1>8, <2>6, SumBoundsItsTerms
    <2> QED BY <1>8, <2>7
  <1>10. \A c \in Contacts : Off(p)[c] = 0
    BY <1>6, <1>9
  <1>11. ASSUME NEW c \in Contacts
         PROVE  Scale * request.current[c] * p.den = IF c \in active THEN Reaction(p, c) ELSE 0
    <2>1. Played(p)[c] - Scale * request.current[c] * p.den = 0
      BY <1>10 DEF Off
    <2>2. Played(p)[c] \in Int /\ Scale * request.current[c] * p.den \in Int
      BY <1>1, <1>2, PlayedSumsUp, RestOnThePair
    <2>3. Played(p)[c] = IF c \in active THEN Reaction(p, c) ELSE 0
      BY DEF Played
    <2> QED BY <2>1, <2>2, <2>3
  <1> QED BY <1>11 DEF Unmoved, p

(* "The fixed point is untouched" (rigid_settlement.rs:203-209), wherever  *)
(* the walk ends on contacts off a line: a body at rest under the forces   *)
(* it is handed is answered with them, whatever compliance was measured.   *)
THEOREM RestIsAFixedPoint == Spec => [](~Degenerate(active) => FixedPointIsUntouched)
  <1>1. SettlementInv => (~Degenerate(active) => FixedPointIsUntouched)
    <2> SUFFICES ASSUME SettlementInv, ~Degenerate(active), verdict = "settled",
                        NEW q \in RestPlanes, AtRawEquilibrium(q), CurrentCarriesTheLoad
                 PROVE  Unmoved
      BY DEF FixedPointIsUntouched
    <2>1. q \in Planes
      BY SettlementAssumption DEF Planes
    <2> QED BY <2>1, RestIsUnmoved DEF SettlementInv, Resting
  <1> QED BY <1>1, SettlementInvHolds, PTL
=============================================================================
