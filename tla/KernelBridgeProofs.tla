-------------------------- MODULE KernelBridgeProofs --------------------------
(***************************************************************************)
(* The kernel bridge, for every request the schema lets through and every  *)
(* answer of the kernel: what a result names, what it balances, in whose   *)
(* axes it is and which constraint each of its constraint forces is put    *)
(* down to; the ties of a frame, as the answer holds them; and the loads   *)
(* of a deck's contacts, as the kernel is given them.  A request is        *)
(* numbered, turned into the kernel's axes and its units, and the answer   *)
(* is turned back; the lemmas say that each of these has an inverse and    *)
(* that the code uses the right one.                                       *)
(***************************************************************************)
EXTENDS DeckResponse, SumTheorems

-----------------------------------------------------------------------------
(* Vectors, units and axes.                                                *)

(* A vector is its components.                                             *)
LEMMA VecIsAVector ==
  ASSUME NEW a \in Int, NEW b \in Int, NEW c \in Int
  PROVE  Vec(a, b, c) \in Vectors /\ Vec(a, b, c).x = a /\ Vec(a, b, c).y = b /\ Vec(a, b, c).z = c
  BY DEF Vec, Vectors

LEMMA VectorIsItsAxes ==
  ASSUME NEW u \in Vectors, NEW v \in Vectors, u.x = v.x, u.y = v.y, u.z = v.z
  PROVE  u = v
  BY DEF Vectors

LEMMA VectorsAreClosed ==
  /\ Zero \in Vectors
  /\ \A u, v \in Vectors : Plus(u, v) \in Vectors /\ Minus(u, v) \in Vectors
                           /\ Cross(u, v) \in Vectors /\ Dot(u, v) \in Int
  /\ \A k \in Int, v \in Vectors : Times(k, v) \in Vectors
  /\ \A v \in Vectors : Rotate(v) \in Vectors /\ InverseRotate(v) \in Vectors /\ Unit(v) \in Vectors
  BY DEF Vectors, Vec, Zero, Plus, Minus, Cross, Dot, Times, Rotate, InverseRotate, Unit

(* Turned and turned back, a vector is what it was.                        *)
LEMMA RotateIsInverted ==
  \A v \in Vectors : InverseRotate(Rotate(v)) = v /\ Rotate(InverseRotate(v)) = v
  BY DEF Vectors, Vec, Rotate, InverseRotate

(* Turning commutes with all that is done to vectors.                      *)
LEMMA RotateIsLinear ==
  /\ \A u, v \in Vectors :
       /\ Rotate(Plus(u, v)) = Plus(Rotate(u), Rotate(v))
       /\ Rotate(Minus(u, v)) = Minus(Rotate(u), Rotate(v))
       /\ InverseRotate(Plus(u, v)) = Plus(InverseRotate(u), InverseRotate(v))
       /\ InverseRotate(Minus(u, v)) = Minus(InverseRotate(u), InverseRotate(v))
  /\ \A v \in Vectors : Rotate(Unit(v)) = Unit(Rotate(v))
  /\ Rotate(Zero) = Zero /\ InverseRotate(Zero) = Zero
  BY DEF Vectors, Vec, Zero, Rotate, InverseRotate, Plus, Minus, Unit

LEMMA TimesOfMinus ==
  ASSUME NEW k \in Int, NEW n \in Int
  PROVE  k * (-n) = -(k * n)
  OBVIOUS

LEMMA RotateScales ==
  \A k \in Int, v \in Vectors :
    /\ Rotate(Times(k, v)) = Times(k, Rotate(v))
    /\ InverseRotate(Times(k, v)) = Times(k, InverseRotate(v))
  <1> SUFFICES ASSUME NEW k \in Int, NEW v \in Vectors
               PROVE  /\ Rotate(Times(k, v)) = Times(k, Rotate(v))
                      /\ InverseRotate(Times(k, v)) = Times(k, InverseRotate(v))
    OBVIOUS
  <1>1. v.x \in Int /\ v.y \in Int /\ v.z \in Int
    BY DEF Vectors
  <1>2. k * (-v.z) = -(k * v.z) /\ k * (-v.y) = -(k * v.y)
    BY <1>1, TimesOfMinus
  <1> QED BY <1>1, <1>2 DEF Vec, Rotate, InverseRotate, Times

LEMMA ProductOfMinus ==
  ASSUME NEW a \in Int, NEW b \in Int
  PROVE  (-a) * b = -(a * b) /\ a * (-b) = -(a * b) /\ (-a) * (-b) = a * b
  OBVIOUS

LEMMA RotateKeepsProducts ==
  \A u, v \in Vectors :
    /\ Cross(Rotate(u), Rotate(v)) = Rotate(Cross(u, v))
    /\ Dot(Rotate(u), Rotate(v)) = Dot(u, v)
    /\ Cross(InverseRotate(u), InverseRotate(v)) = InverseRotate(Cross(u, v))
  <1> SUFFICES ASSUME NEW u \in Vectors, NEW v \in Vectors
               PROVE  /\ Cross(Rotate(u), Rotate(v)) = Rotate(Cross(u, v))
                      /\ Dot(Rotate(u), Rotate(v)) = Dot(u, v)
                      /\ Cross(InverseRotate(u), InverseRotate(v)) = InverseRotate(Cross(u, v))
    OBVIOUS
  <1>1. /\ u.x \in Int /\ u.y \in Int /\ u.z \in Int
        /\ v.x \in Int /\ v.y \in Int /\ v.z \in Int
    BY DEF Vectors
  <1>2. /\ (-u.z) * v.y = -(u.z * v.y) /\ (-u.z) * v.x = -(u.z * v.x) /\ (-u.z) * (-v.z) = u.z * v.z
        /\ u.y * (-v.z) = -(u.y * v.z) /\ u.x * (-v.z) = -(u.x * v.z)
        /\ (-u.y) * v.x = -(u.y * v.x) /\ (-u.y) * v.z = -(u.y * v.z)
        /\ u.x * (-v.y) = -(u.x * v.y) /\ u.z * (-v.y) = -(u.z * v.y)
    BY <1>1, ProductOfMinus
  <1>3. ASSUME NEW a \in Int, NEW b \in Int PROVE a * b \in Int
    OBVIOUS
  <1>4. /\ u.x * v.x \in Int /\ u.x * v.y \in Int /\ u.x * v.z \in Int
        /\ u.y * v.x \in Int /\ u.y * v.y \in Int /\ u.y * v.z \in Int
        /\ u.z * v.x \in Int /\ u.z * v.y \in Int /\ u.z * v.z \in Int
    BY <1>1, <1>3
  <1> QED BY <1>1, <1>2, <1>4 DEF Vec, Rotate, InverseRotate, Cross, Dot

(* A multiple of Kilo, and the multiple of a quotient.                     *)
LEMMA KiloDivides ==
  ASSUME NEW n \in Int
  PROVE  /\ n \div Kilo \in Int
         /\ n % Kilo = 0 => Kilo * (n \div Kilo) = n
         /\ (Kilo * n) \div Kilo = n
  <1>1. Kilo \in Int /\ Kilo > 0
    BY KiloAssumption
  <1>2. ASSUME NEW k \in Int, k > 0
        PROVE  /\ n \div k \in Int /\ (n % k = 0 => k * (n \div k) = n)
               /\ (k * n) \div k = n
    BY <1>2, Z3
  <1> QED BY <1>1, <1>2

LEMMA UnitsAreInverted ==
  /\ \A v \in Vectors : ToSdk(v) \in Vectors /\ ToSolver(v) \in Vectors /\ ToSdk(ToSolver(v)) = v
  /\ \A v : InKilos(v) => ToSolver(ToSdk(v)) = v
  <1>1. \A n \in Int : /\ n \div Kilo \in Int /\ Kilo * n \in Int
                       /\ n % Kilo = 0 => Kilo * (n \div Kilo) = n
                       /\ (Kilo * n) \div Kilo = n
    BY KiloDivides, KiloAssumption
  <1> QED BY <1>1 DEF InKilos, Vectors, Vec, ToSdk, ToSolver, Times

-----------------------------------------------------------------------------
(* Triads.                                                                 *)

(* The directions along the axes.                                          *)
Directions == {Vec(1, 0, 0), Vec(-1, 0, 0), Vec(0, 1, 0), Vec(0, -1, 0), Vec(0, 0, 1), Vec(0, 0, -1)}

\* Two directions square to each other, and a third square to both.
IsTriad(t) == /\ t.x \in Directions /\ t.y \in Directions /\ Dot(t.x, t.y) = 0
              /\ t.z = Cross(t.x, t.y)

\* One of three numbers is one, up to its sign, and the others are nothing.
OneHot(a, b, c) ==
  \/ a \in {1, -1} /\ b = 0 /\ c = 0
  \/ b \in {1, -1} /\ a = 0 /\ c = 0
  \/ c \in {1, -1} /\ a = 0 /\ b = 0

\* Two triples of numbers have no product.
Square3(a, b, c, d, e, f) == a * d + b * e + c * f = 0

\* The columns a b c, d e f and g h i, and then the rows, take p q r apart and
\* put it together again.
TakesApart(a, b, c, d, e, f, g, h, i, p, q, r) ==
  LET l == p * a + q * b + r * c
      m == p * d + q * e + r * f
      n == p * g + q * h + r * i
  IN  /\ l * a + m * d + n * g = p
      /\ l * b + m * e + n * h = q
      /\ l * c + m * f + n * i = r

LEMMA DirectionIsOneHot ==
  ASSUME NEW d \in Directions
  PROVE  d \in Vectors /\ d.x \in Int /\ d.y \in Int /\ d.z \in Int /\ OneHot(d.x, d.y, d.z)
  BY DEF Directions, Vec, Vectors, OneHot

LEMMA DirectionsAreVectors == Directions \subseteq Vectors
  BY DirectionIsOneHot

LEMMA OffOneHot ==
  ASSUME NEW a \in Int, NEW b \in Int, NEW c \in Int, OneHot(a, b, c),
         NEW p \in Int, NEW q \in Int, NEW r \in Int
  PROVE  LET m == p * a + q * b + r * c
         IN  (p - m * a) * a + (q - m * b) * b + (r - m * c) * c = 0
  BY DEF OneHot

LEMMA SignsOffOneHot ==
  ASSUME NEW a \in Int, NEW b \in Int, NEW c \in Int, OneHot(a, b, c),
         NEW p \in Int, NEW q \in Int, NEW r \in Int, Square3(p, q, r, a, b, c),
         NEW s \in Int, NEW t \in Int, NEW u \in Int,
         p = 0 => s = 0, q = 0 => t = 0, r = 0 => u = 0
  PROVE  Square3(a, b, c, s, t, u)
  BY DEF OneHot, Square3

\* Vectors with the components a b c and d e f, and their cross product, are
\* the columns of a matrix that is inverted by being transposed.
LEMMA OneHotTranspose ==
  ASSUME NEW a \in Int, NEW b \in Int, NEW c \in Int, OneHot(a, b, c),
         NEW d \in Int, NEW e \in Int, NEW f \in Int, OneHot(d, e, f),
         a * d + b * e + c * f = 0,
         NEW g \in Int, NEW h \in Int, NEW i \in Int,
         g = b * f - c * e, h = c * d - a * f, i = a * e - b * d,
         NEW p \in Int, NEW q \in Int, NEW r \in Int
  PROVE  /\ TakesApart(a, b, c, d, e, f, g, h, i, p, q, r)
         /\ TakesApart(a, d, g, b, e, h, c, f, i, p, q, r)
  BY DEF OneHot, TakesApart

(* The unit vector of an axial one is a direction, and the vector is as    *)
(* many of them as it is long.                                             *)
LEMMA UnitIsADirection ==
  ASSUME NEW v \in Vectors, Axial(v), v # Zero
  PROVE  /\ Unit(v) \in Directions
         /\ Dot(v, Unit(v)) \in Int /\ v = Times(Dot(v, Unit(v)), Unit(v))
  BY DEF Vectors, Axial, Zero, Vec, Unit, Directions, Dot, Times

(* What is left of a vector off a direction is square to it.               *)
LEMMA RestIsSquare ==
  ASSUME NEW d \in Directions, NEW v \in Vectors
  PROVE  LET rest == Minus(v, Times(Dot(v, d), d))
         IN  rest \in Vectors /\ Dot(d, Unit(rest)) = 0
  <1> DEFINE m == v.x * d.x + v.y * d.y + v.z * d.z
             rest == Minus(v, Times(Dot(v, d), d))
  <1>1. v.x \in Int /\ v.y \in Int /\ v.z \in Int
    BY DEF Vectors
  <1>2. d \in Vectors /\ d.x \in Int /\ d.y \in Int /\ d.z \in Int /\ OneHot(d.x, d.y, d.z)
    BY DirectionIsOneHot
  <1>3. /\ rest \in Vectors
        /\ rest.x = v.x - m * d.x /\ rest.y = v.y - m * d.y /\ rest.z = v.z - m * d.z
    <2>1. Dot(v, d) = m /\ Dot(v, d) \in Int
      BY <1>2, VectorsAreClosed DEF Dot
    <2>2. rest \in Vectors
      BY <1>2, <2>1, VectorsAreClosed
    <2> HIDE DEF m
    <2> QED BY <2>1, <2>2 DEF Minus, Times, Vec
  <1>4. Square3(rest.x, rest.y, rest.z, d.x, d.y, d.z)
    BY <1>1, <1>2, <1>3, OffOneHot DEF Square3
  <1> HIDE DEF rest
  <1>5. rest.x \in Int /\ rest.y \in Int /\ rest.z \in Int
    BY <1>3 DEF Vectors
  <1>6. /\ Unit(rest).x \in Int /\ Unit(rest).y \in Int /\ Unit(rest).z \in Int
        /\ rest.x = 0 => Unit(rest).x = 0
        /\ rest.y = 0 => Unit(rest).y = 0
        /\ rest.z = 0 => Unit(rest).z = 0
    BY <1>5 DEF Unit, Vec
  <1>7. Square3(d.x, d.y, d.z, Unit(rest).x, Unit(rest).y, Unit(rest).z)
    <2>1. PICK a \in Int, b \in Int, c \in Int : a = d.x /\ b = d.y /\ c = d.z
      BY <1>2
    <2>2. PICK p \in Int, q \in Int, r \in Int : p = rest.x /\ q = rest.y /\ r = rest.z
      BY <1>5
    <2>3. PICK s \in Int, t \in Int, u \in Int :
            s = Unit(rest).x /\ t = Unit(rest).y /\ u = Unit(rest).z
      BY <1>6
    <2>4. OneHot(a, b, c) /\ Square3(p, q, r, a, b, c)
      BY <1>2, <1>4, <2>1, <2>2
    <2>5. p = 0 => s = 0
      BY <1>6, <2>2, <2>3
    <2>6. q = 0 => t = 0
      BY <1>6, <2>2, <2>3
    <2>7. r = 0 => u = 0
      BY <1>6, <2>2, <2>3
    <2>8. Square3(a, b, c, s, t, u)
      BY <2>4, <2>5, <2>6, <2>7, SignsOffOneHot
    <2> QED BY <2>1, <2>3, <2>8
  <1> QED BY <1>3, <1>7 DEF rest, Dot, Square3

(* The triad of an element that is not refused is a triad.                 *)
LEMMA FrameTriadIsATriad ==
  ASSUME NEW axis \in Vectors, NEW localY \in Vectors, Axial(axis), axis # Zero,
         Axial(Minus(localY, Times(Dot(localY, Unit(axis)), Unit(axis)))),
         FrameTriad(axis, localY).y # Zero
  PROVE  IsTriad(FrameTriad(axis, localY)) /\ FrameTriad(axis, localY).x = Unit(axis)
  <1> DEFINE d == Unit(axis)
             rest == Minus(localY, Times(Dot(localY, d), d))
  <1>1. d \in Directions
    BY UnitIsADirection
  <1>2. rest \in Vectors /\ Dot(d, Unit(rest)) = 0
    BY <1>1, RestIsSquare
  <1>3. FrameTriad(axis, localY) = [x |-> d, y |-> Unit(rest), z |-> Cross(d, Unit(rest))]
    BY DEF FrameTriad
  <1>4. rest # Zero
    <2>1. Unit(Zero) = Zero
      BY DEF Unit, Zero, Vec
    <2> QED BY <1>3, <2>1
  <1>5. Unit(rest) \in Directions
    BY <1>2, <1>4, UnitIsADirection
  <1> QED BY <1>1, <1>2, <1>3, <1>5 DEF IsTriad

(* A vector taken apart along a triad and put together again, and back.    *)
LEMMA TriadTakesApart ==
  ASSUME NEW t, IsTriad(t), NEW v \in Vectors
  PROVE  /\ ProjectLocal(v, t) \in Vectors /\ Combine(t, v) \in Vectors
         /\ Combine(t, ProjectLocal(v, t)) = v
         /\ ProjectLocal(Combine(t, v), t) = v
  <1> DEFINE x == t.x
             y == t.y
             z == t.z
  <1>1. x \in Directions /\ y \in Directions /\ Dot(x, y) = 0 /\ z = Cross(x, y)
    BY DEF IsTriad
  <1> HIDE DEF x, y, z
  <1>2. /\ x.x \in Int /\ x.y \in Int /\ x.z \in Int /\ OneHot(x.x, x.y, x.z)
        /\ y.x \in Int /\ y.y \in Int /\ y.z \in Int /\ OneHot(y.x, y.y, y.z)
    BY <1>1, DirectionIsOneHot
  <1>3. /\ z.x \in Int /\ z.y \in Int /\ z.z \in Int
        /\ z.x = x.y * y.z - x.z * y.y /\ z.y = x.z * y.x - x.x * y.z
        /\ z.z = x.x * y.y - x.y * y.x
        /\ x.x * y.x + x.y * y.y + x.z * y.z = 0
    BY <1>1, <1>2, DirectionsAreVectors, VectorsAreClosed DEF Cross, Dot, Vec, Vectors
  <1>4. v.x \in Int /\ v.y \in Int /\ v.z \in Int
    BY DEF Vectors
  <1> DEFINE p == ProjectLocal(v, t)
             c == Combine(t, v)
  <1>5. /\ p.x = v.x * x.x + v.y * x.y + v.z * x.z
        /\ p.y = v.x * y.x + v.y * y.y + v.z * y.z
        /\ p.z = v.x * z.x + v.y * z.y + v.z * z.z
        /\ p \in Vectors
    BY <1>2, <1>3, <1>4 DEF ProjectLocal, Dot, Vec, Vectors, x, y, z
  <1>6. /\ c.x = v.x * x.x + v.y * y.x + v.z * z.x
        /\ c.y = v.x * x.y + v.y * y.y + v.z * z.y
        /\ c.z = v.x * x.z + v.y * y.z + v.z * z.z
        /\ c \in Vectors
    BY <1>2, <1>3, <1>4 DEF Combine, Plus, Times, Vec, Vectors, x, y, z
  <1> HIDE DEF p, c
  <1>7. /\ TakesApart(x.x, x.y, x.z, y.x, y.y, y.z, z.x, z.y, z.z, v.x, v.y, v.z)
        /\ TakesApart(x.x, y.x, z.x, x.y, y.y, z.y, x.z, y.z, z.z, v.x, v.y, v.z)
    BY <1>2, <1>3, <1>4, OneHotTranspose
  <1>8. Combine(t, p) = v
    <2>1. Combine(t, p) = Vec(v.x, v.y, v.z)
      BY <1>5, <1>7 DEF TakesApart, Combine, Plus, Times, Vec, x, y, z
    <2> QED BY <2>1 DEF Vec, Vectors
  <1>9. ProjectLocal(c, t) = v
    <2>1. ProjectLocal(c, t) = Vec(v.x, v.y, v.z)
      BY <1>6, <1>7 DEF TakesApart, ProjectLocal, Dot, Vec, x, y, z
    <2> QED BY <2>1 DEF Vec, Vectors
  <1> QED BY <1>5, <1>6, <1>8, <1>9 DEF p, c

LEMMA DirectionsTurn ==
  \A d \in Directions : Rotate(d) \in Directions
  BY DEF Directions, Rotate, Vec

(* An element's triad in the kernel's axes is its triad in the frame's,    *)
(* turned.                                                                 *)
LEMMA LocalTriadIsATriad ==
  ASSUME NEW axis, NEW localY, IsTriad(FrameTriad(axis, localY))
  PROVE  /\ IsTriad(LocalTriad(axis, localY))
         /\ \A v \in Vectors : ProjectLocal(InverseRotate(v), FrameTriad(axis, localY))
                                 = ProjectLocal(v, LocalTriad(axis, localY))
  <1> DEFINE t == FrameTriad(axis, localY)
             l == LocalTriad(axis, localY)
  <1>1. l.x = Rotate(t.x) /\ l.y = Rotate(t.y) /\ l.z = Rotate(t.z)
    BY DEF LocalTriad
  <1>2. t.x \in Directions /\ t.y \in Directions /\ Dot(t.x, t.y) = 0 /\ t.z = Cross(t.x, t.y)
    BY DEF IsTriad
  <1>3. t.x \in Vectors /\ t.y \in Vectors /\ t.z \in Vectors
    BY <1>2, DirectionsAreVectors, VectorsAreClosed
  <1> HIDE DEF t, l
  <1>4. IsTriad(l)
    BY <1>1, <1>2, <1>3, DirectionsTurn, RotateKeepsProducts DEF IsTriad
  <1>5. ASSUME NEW v \in Vectors
        PROVE  ProjectLocal(InverseRotate(v), t) = ProjectLocal(v, l)
    <2>1. InverseRotate(v) \in Vectors /\ Rotate(InverseRotate(v)) = v
      BY VectorsAreClosed, RotateIsInverted
    <2>2. /\ Dot(v, l.x) = Dot(InverseRotate(v), t.x)
          /\ Dot(v, l.y) = Dot(InverseRotate(v), t.y)
          /\ Dot(v, l.z) = Dot(InverseRotate(v), t.z)
      BY <1>1, <1>3, <2>1, RotateKeepsProducts
    <2> QED BY <2>2 DEF ProjectLocal
  <1> QED BY <1>4, <1>5 DEF t, l

(* What is scaled is scaled along each of a triad's axes.                  *)
LEMMA TriadScales ==
  ASSUME NEW t, IsTriad(t), NEW v \in Vectors, NEW k \in Int
  PROVE  /\ Combine(t, Times(k, v)) = Times(k, Combine(t, v))
         /\ ProjectLocal(Times(k, v), t) = Times(k, ProjectLocal(v, t))
  <1>0. t.x \in Vectors /\ t.y \in Vectors /\ t.z \in Vectors
    BY DirectionsAreVectors, VectorsAreClosed DEF IsTriad
  <1>1. ASSUME NEW a \in Int, NEW b \in Int, NEW c \in Int, NEW p \in Int, NEW q \in Int, NEW r \in Int
        PROVE  /\ (k * a) * p + (k * b) * q + (k * c) * r = k * (a * p + b * q + c * r)
               /\ a * p + b * q + c * r \in Int
    OBVIOUS
  <1>2. \A d \in Vectors : Dot(Times(k, v), d) = k * Dot(v, d)
    BY <1>1 DEF Dot, Times, Vec, Vectors
  <1>3. ProjectLocal(Times(k, v), t) = Times(k, ProjectLocal(v, t))
    BY <1>0, <1>2 DEF ProjectLocal, Times, Vec
  <1>4. Combine(t, Times(k, v)) = Times(k, Combine(t, v))
    <2>1. ASSUME NEW p \in Int, NEW q \in Int, NEW r \in Int
          PROVE  (k * v.x) * p + (k * v.y) * q + (k * v.z) * r = k * (v.x * p + v.y * q + v.z * r)
      BY <1>1 DEF Vectors
    <2>2. t.x.x \in Int /\ t.y.x \in Int /\ t.z.x \in Int
      BY <1>0 DEF Vectors
    <2>3. t.x.y \in Int /\ t.y.y \in Int /\ t.z.y \in Int
      BY <1>0 DEF Vectors
    <2>4. t.x.z \in Int /\ t.y.z \in Int /\ t.z.z \in Int
      BY <1>0 DEF Vectors
    <2>5. (k * v.x) * t.x.x + (k * v.y) * t.y.x + (k * v.z) * t.z.x
               = k * (v.x * t.x.x + v.y * t.y.x + v.z * t.z.x)
      BY <2>1, <2>2
    <2>6. (k * v.x) * t.x.y + (k * v.y) * t.y.y + (k * v.z) * t.z.y
               = k * (v.x * t.x.y + v.y * t.y.y + v.z * t.z.y)
      BY <2>1, <2>3
    <2>7. (k * v.x) * t.x.z + (k * v.y) * t.y.z + (k * v.z) * t.z.z
               = k * (v.x * t.x.z + v.y * t.y.z + v.z * t.z.z)
      BY <2>1, <2>4
    <2> QED BY <2>5, <2>6, <2>7 DEF Combine, Plus, Times, Vec
  <1> QED BY <1>3, <1>4

-----------------------------------------------------------------------------
(* Lists and numbers.                                                      *)

LEMMA UpToIsFinite ==
  ASSUME NEW n \in Nat
  PROVE  IsFiniteSet(1..n) /\ Cardinality(1..n) = n
  <1>1. 1 \in Int /\ n \in Int
    OBVIOUS
  <1>2. IsFiniteSet(1..n) /\ Cardinality(1..n) = IF 1 > n THEN 0 ELSE n - 1 + 1
    BY <1>1, FS_Interval
  <1> QED BY <1>2

LEMMA ListIsFinite ==
  ASSUME NEW s, IsList(s)
  PROVE  /\ Len(s) \in Nat /\ DOMAIN s = 1..Len(s) /\ IsFiniteSet(DOMAIN s)
         /\ Cardinality(DOMAIN s) = Len(s)
         /\ IsFiniteSet(Range(s)) /\ Range(s) = {s[n] : n \in DOMAIN s}
         /\ s \in Surjection(DOMAIN s, Range(s))
  <1>1. Len(s) \in Nat /\ DOMAIN s = 1..Len(s) /\ s \in [1..Len(s) -> Range(s)]
    BY DEF IsList
  <1>2. IsFiniteSet(1..Len(s)) /\ Cardinality(1..Len(s)) = Len(s)
    BY <1>1, UpToIsFinite
  <1>3. s \in Surjection(DOMAIN s, Range(s))
    BY <1>1 DEF Surjection, Range
  <1>4. IsFiniteSet(Range(s))
    BY <1>1, <1>2, <1>3, FS_Surjection
  <1> QED BY <1>1, <1>2, <1>3, <1>4 DEF Range

(* The stable ids of a request are numbered from one, each its own number. *)
LEMMA IdsAreNumbered ==
  ASSUME NEW ids \in SUBSET Range(Bytewise)
  PROVE  /\ IsFiniteSet(ids) /\ Cardinality(ids) \in Nat
         /\ DOMAIN Sorted(ids) = 1..Cardinality(ids)
         /\ \A id \in ids : /\ Numeric(ids, id) \in 1..Cardinality(ids)
                            /\ Sorted(ids)[Numeric(ids, id)] = id
         /\ \A n \in 1..Cardinality(ids) : /\ Sorted(ids)[n] \in ids
                                           /\ Numeric(ids, Sorted(ids)[n]) = n
  <1>1. IsFiniteSet(ids) /\ Cardinality(ids) \in Nat
    BY BytewiseAssumption, ListIsFinite, FS_Subset, FS_CardinalityType
  <1>2. ASSUME NEW id \in ids
        PROVE  Place[id] \in DOMAIN Bytewise /\ Bytewise[Place[id]] = id /\ Place[id] \in Int
    <2>1. \E n \in DOMAIN Bytewise : Bytewise[n] = id
      BY DEF Range
    <2>2. Place[id] \in DOMAIN Bytewise /\ Bytewise[Place[id]] = id
      BY <2>1 DEF Place
    <2> QED BY <2>2, BytewiseAssumption, ListIsFinite
  <1>3. (\A id \in ids : Place[id] \in Int) /\ \A a, b \in ids : Place[a] = Place[b] => a = b
    BY <1>2
  <1>4. /\ \A id \in ids : Numeric(ids, id) \in 1..Cardinality(ids)
        /\ \A a, b \in ids : Numeric(ids, a) = Numeric(ids, b) => a = b
        /\ \A n \in 1..Cardinality(ids) : \E id \in ids : Numeric(ids, id) = n
    <2>1. \A id \in ids : Numeric(ids, id) = Rank(ids, Place, id)
      BY DEF Numeric, Rank
    <2>2. NumberedByRank(ids, Place)
      BY <1>1, <1>3, RanksNumber
    <2> QED BY <2>1, <2>2 DEF NumberedByRank
  <1>5. \A n \in 1..Cardinality(ids) : Sorted(ids)[n] \in ids /\ Numeric(ids, Sorted(ids)[n]) = n
    BY <1>4 DEF Sorted
  <1> QED BY <1>1, <1>4, <1>5 DEF Sorted

(* What is kept of a sequence is what it has at each of the positions.     *)
LEMMA KeptTakesEach ==
  ASSUME NEW seq, NEW positions \in SUBSET Int, IsFiniteSet(positions)
  PROVE  /\ Cardinality(positions) \in Nat
         /\ DOMAIN Kept(seq, positions) = 1..Cardinality(positions)
         /\ Len(Kept(seq, positions)) = Cardinality(positions)
         /\ \E at \in Bijection(1..Cardinality(positions), positions) :
              \A n \in 1..Cardinality(positions) : Kept(seq, positions)[n] = seq[at[n]]
  <1> DEFINE same == [k \in positions |-> k]
             rank(k) == Cardinality({j \in positions : j <= k})
             at == [n \in 1..Cardinality(positions) |-> CHOOSE k \in positions : rank(k) = n]
  <1>1. Cardinality(positions) \in Nat
    BY FS_CardinalityType
  <1>2. /\ \A k \in positions : rank(k) \in 1..Cardinality(positions)
        /\ \A j, k \in positions : rank(j) = rank(k) => j = k
        /\ \A n \in 1..Cardinality(positions) : \E k \in positions : rank(k) = n
    <2>1. (\A k \in positions : same[k] \in Int) /\ \A j, k \in positions : same[j] = same[k] => j = k
      OBVIOUS
    <2>2. \A k \in positions : Rank(positions, same, k) = rank(k)
      <3> TAKE k \in positions
      <3>1. {j \in positions : same[j] <= same[k]} = {j \in positions : j <= k}
        OBVIOUS
      <3> QED BY <3>1 DEF Rank
    <2> HIDE DEF same, rank, at
    <2>3. NumberedByRank(positions, same)
      BY <2>1, RanksNumber
    <2> QED BY <2>2, <2>3 DEF NumberedByRank
  <1>3. /\ DOMAIN Kept(seq, positions) = 1..Cardinality(positions)
        /\ Len(Kept(seq, positions)) = Cardinality(positions)
        /\ \A n \in 1..Cardinality(positions) : Kept(seq, positions)[n] = seq[at[n]]
    BY <1>1 DEF Kept
  <1> HIDE DEF rank
  <1>4. \A n \in 1..Cardinality(positions) : at[n] \in positions /\ rank(at[n]) = n
    BY <1>2
  <1>5. at \in Bijection(1..Cardinality(positions), positions)
    <2>1. at \in [1..Cardinality(positions) -> positions]
      BY <1>4
    <2>2. \A k \in positions : \E n \in 1..Cardinality(positions) : at[n] = k
      BY <1>2, <1>4
    <2>3. \A m, n \in 1..Cardinality(positions) : at[m] = at[n] => m = n
      BY <1>4
    <2> HIDE DEF at
    <2> QED BY <2>1, <2>2, <2>3 DEF Bijection, Injection, Surjection, IsInjective
  <1> QED BY <1>1, <1>3, <1>5

(* A list without duplicates has each id once.                             *)
LEMMA IdsAreDistinct ==
  ASSUME NEW s, IsList(s), ~Duplicated(s)
  PROVE  /\ IsFiniteSet(IdsOf(s)) /\ IdsOf(s) = {e.id : e \in Range(s)}
         /\ \A m, n \in DOMAIN s : s[m].id = s[n].id => m = n
         /\ \A d, e \in Range(s) : d.id = e.id => d = e
  <1> DEFINE f == [n \in DOMAIN s |-> s[n].id]
  <1>1. /\ IsFiniteSet(DOMAIN s) /\ Cardinality(DOMAIN s) = Len(s)
        /\ Range(s) = {s[n] : n \in DOMAIN s}
    BY ListIsFinite
  <1>2. f \in Surjection(DOMAIN s, IdsOf(s))
    BY DEF IdsOf, Surjection
  <1>3. IsFiniteSet(IdsOf(s)) /\ f \in Injection(DOMAIN s, IdsOf(s))
    BY <1>1, <1>2, FS_Surjection DEF Duplicated
  <1>4. \A m, n \in DOMAIN s : s[m].id = s[n].id => m = n
    BY <1>3 DEF Injection, IsInjective
  <1> QED BY <1>1, <1>3, <1>4 DEF IdsOf

LEMMA ActiveSupportsAreListed ==
  ASSUME WellFormed(frame)
  PROVE  /\ Len(ActiveSupports) \in Nat /\ DOMAIN ActiveSupports = 1..Len(ActiveSupports)
         /\ Range(ActiveSupports) = {s \in Range(frame.supports) : s.active}
         /\ ~Duplicated(frame.supports) =>
              \A m, n \in DOMAIN ActiveSupports :
                ActiveSupports[m].id = ActiveSupports[n].id => m = n
  <1> DEFINE positions == {k \in DOMAIN frame.supports : frame.supports[k].active}
  <1>1. /\ IsList(frame.supports) /\ IsFiniteSet(DOMAIN frame.supports)
        /\ Range(frame.supports) = {frame.supports[n] : n \in DOMAIN frame.supports}
        /\ DOMAIN frame.supports \subseteq Int
    BY ListIsFinite DEF WellFormed
  <1>2. positions \in SUBSET Int /\ IsFiniteSet(positions)
    BY <1>1, FS_Subset
  <1>3. ActiveSupports = Kept(frame.supports, positions)
    BY DEF ActiveSupports
  <1>4. /\ Cardinality(positions) \in Nat
        /\ DOMAIN ActiveSupports = 1..Cardinality(positions)
        /\ Len(ActiveSupports) = Cardinality(positions)
    BY <1>2, <1>3, KeptTakesEach
  <1>5. \E at \in Bijection(DOMAIN ActiveSupports, positions) :
          \A n \in DOMAIN ActiveSupports : ActiveSupports[n] = frame.supports[at[n]]
    <2> HIDE DEF positions
    <2>1. \E at \in Bijection(1..Cardinality(positions), positions) :
            \A n \in 1..Cardinality(positions) :
              Kept(frame.supports, positions)[n] = frame.supports[at[n]]
      BY <1>2, KeptTakesEach
    <2> QED BY <1>3, <1>4, <2>1
  <1> PICK at \in Bijection(DOMAIN ActiveSupports, positions) :
        \A n \in DOMAIN ActiveSupports : ActiveSupports[n] = frame.supports[at[n]]
    BY <1>5
  <1>6. /\ \A n \in DOMAIN ActiveSupports : at[n] \in positions
        /\ \A m, n \in DOMAIN ActiveSupports : at[m] = at[n] => m = n
        /\ \A k \in positions : \E n \in DOMAIN ActiveSupports : at[n] = k
    BY DEF Bijection, Injection, Surjection, IsInjective
  <1>7. Range(ActiveSupports) = {s \in Range(frame.supports) : s.active}
    <2>1. Range(ActiveSupports) = {ActiveSupports[n] : n \in DOMAIN ActiveSupports}
      BY DEF Range
    <2>2. ASSUME NEW s \in Range(frame.supports), s.active
          PROVE  \E n \in DOMAIN ActiveSupports : ActiveSupports[n] = s
      <3>1. PICK k \in positions : frame.supports[k] = s
        BY <1>1, <2>2
      <3> QED BY <1>5, <1>6, <3>1
    <2>3. ASSUME NEW n \in DOMAIN ActiveSupports
          PROVE  ActiveSupports[n] \in Range(frame.supports) /\ ActiveSupports[n].active
      BY <1>1, <1>5, <1>6
    <2> QED BY <2>1, <2>2, <2>3
  <1>8. ASSUME ~Duplicated(frame.supports), NEW m \in DOMAIN ActiveSupports,
               NEW n \in DOMAIN ActiveSupports, ActiveSupports[m].id = ActiveSupports[n].id
        PROVE  m = n
    BY <1>1, <1>5, <1>6, <1>8, IdsAreDistinct
  <1> QED BY <1>4, <1>7, <1>8

(* The frame's nodes, elements and supports under the kernel's numbers.    *)
LEMMA NodesAreNumbered ==
  ASSUME WellFormed(frame)
  PROVE  /\ IsFiniteSet(NodeIds) /\ Cardinality(NodeIds) \in Nat
         /\ DOMAIN Sorted(NodeIds) = 1..Cardinality(NodeIds)
         /\ \A id \in NodeIds : /\ NodeNo(id) \in 1..Cardinality(NodeIds)
                                /\ Sorted(NodeIds)[NodeNo(id)] = id
                                /\ frame.nodes[id] \in Vectors
         /\ \A n \in 1..Cardinality(NodeIds) : /\ Sorted(NodeIds)[n] \in NodeIds
                                               /\ NodeNo(Sorted(NodeIds)[n]) = n
         /\ DOMAIN CompiledNodes = 1..Cardinality(NodeIds)
         /\ \A id \in NodeIds : CompiledNodes[NodeNo(id)] = Rotate(frame.nodes[id])
         /\ \A n \in DOMAIN CompiledNodes : CompiledNodes[n] \in Vectors
  <1>1. /\ IsFiniteSet(NodeIds) /\ Cardinality(NodeIds) \in Nat
        /\ DOMAIN Sorted(NodeIds) = 1..Cardinality(NodeIds)
        /\ \A id \in NodeIds : NodeNo(id) \in 1..Cardinality(NodeIds)
                               /\ Sorted(NodeIds)[NodeNo(id)] = id
        /\ \A n \in 1..Cardinality(NodeIds) : /\ Sorted(NodeIds)[n] \in NodeIds
                                              /\ NodeNo(Sorted(NodeIds)[n]) = n
    <2>1. NodeIds \in SUBSET Range(Bytewise)
      BY DEF WellFormed, NodeIds
    <2> QED BY <2>1, IdsAreNumbered DEF NodeNo
  <1>2. \A id \in NodeIds : frame.nodes[id] \in Vectors /\ Rotate(frame.nodes[id]) \in Vectors
    BY VectorsAreClosed DEF WellFormed, NodeIds
  <1>3. /\ DOMAIN CompiledNodes = 1..Cardinality(NodeIds)
        /\ \A n \in 1..Cardinality(NodeIds) :
             CompiledNodes[n] = Rotate(frame.nodes[Sorted(NodeIds)[n]])
    BY <1>1 DEF CompiledNodes
  <1> QED BY <1>1, <1>2, <1>3

LEMMA ElementsAreNumbered ==
  ASSUME WellFormed(frame), ~Duplicated(frame.elements)
  PROVE  /\ \A e \in Range(frame.elements) : e.id \in IdsOf(frame.elements) /\ ElementOf(e.id) = e
         /\ \A id \in IdsOf(frame.elements) : ElementOf(id) \in Range(frame.elements)
                                              /\ ElementOf(id).id = id
         /\ \A d, e \in Range(frame.elements) : ElementNo(d) = ElementNo(e) => d = e
  <1>1. IsList(frame.elements) /\ \A e \in Range(frame.elements) : e.id \in Range(Bytewise)
    BY DEF WellFormed, ElementFormed
  <1>2. /\ IdsOf(frame.elements) = {e.id : e \in Range(frame.elements)}
        /\ \A d, e \in Range(frame.elements) : d.id = e.id => d = e
    BY <1>1, IdsAreDistinct
  <1>3. IdsOf(frame.elements) \in SUBSET Range(Bytewise)
    BY <1>1, <1>2
  <1>4. \A a, b \in IdsOf(frame.elements) :
          Numeric(IdsOf(frame.elements), a) = Numeric(IdsOf(frame.elements), b) => a = b
    <2>1. \A id \in IdsOf(frame.elements) :
            Sorted(IdsOf(frame.elements))[Numeric(IdsOf(frame.elements), id)] = id
      BY <1>3, IdsAreNumbered
    <2> QED BY <2>1
  <1>5. \A d, e \in Range(frame.elements) : ElementNo(d) = ElementNo(e) => d = e
    BY <1>2, <1>4 DEF ElementNo
  <1> QED BY <1>2, <1>5 DEF ElementOf

LEMMA NothingFirstRefused ==
  ASSUME NEW refusals, DOMAIN refusals \subseteq Nat, FirstRefusal(refusals) = "NONE"
  PROVE  \A n \in DOMAIN refusals : refusals[n] = "NONE"
  <1> DEFINE refused == {n \in DOMAIN refusals : refusals[n] # "NONE"}
             first == CHOOSE n \in refused : \A m \in refused : n <= m
  <1>1. ASSUME refused # {}
        PROVE  first \in refused
    <2> HIDE DEF refused
    <2>1. refused \subseteq Nat
      BY DEF refused
    <2>2. PICK n \in refused : \A m \in refused : ~ (<<m, n>> \in OpToRel(<, Nat))
      BY <1>1, <2>1, NatLessThanWellFounded, WFMin
    <2>3. \A m, k \in Nat : m < k => <<m, k>> \in OpToRel(<, Nat)
      BY DEF OpToRel
    <2>4. \A m \in refused : ~(m < n)
      BY <2>1, <2>2, <2>3, Zenon
    <2>5. \A m \in refused : n <= m
      BY <2>1, <2>4
    <2> QED BY <2>5
  <1>2. refused # {} => FirstRefusal(refusals) = refusals[first]
    BY DEF FirstRefusal
  <1> HIDE DEF first
  <1> QED BY <1>1, <1>2

LEMMA NothingUnknown ==
  ASSUME NEW ids, NodesRefusal(ids) = "NONE"
  PROVE  ids \subseteq NodeIds
  BY DEF NodesRefusal

(* What a request that is not refused has: every part of it may stand, and *)
(* what it names is there.                                                 *)
LEMMA NotRefused ==
  ASSUME WellFormed(frame), CompileRefusal = "NONE"
  PROVE  /\ ~Duplicated(frame.elements) /\ ~Duplicated(frame.supports)
         /\ ~Duplicated(frame.connectors) /\ ~Duplicated(frame.constraints)
         /\ \A e \in Range(frame.elements) :
              Ended(e) /\ Delta(e) # Zero /\ FrameTriad(Delta(e), e.localY).y # Zero
         /\ \A c \in Range(frame.constraints) : NodesOf(c) \subseteq NodeIds
         /\ \A s \in Range(ActiveSupports) : ~SupportRefused(s) /\ s.node \in NodeIds
         /\ \A l \in Range(frame.loads) : LoadRefusal(l) = "NONE"
         /\ \A c \in Range(frame.connectors) : c.i \in NodeIds /\ c.j \in NodeIds
  <1> DEFINE triads   == [n \in DOMAIN frame.elements |-> TriadRefusal(frame.elements[n])]
             supports == [n \in DOMAIN ActiveSupports |-> SupportRefusal(ActiveSupports[n])]
             loads    == [n \in DOMAIN frame.loads |-> LoadRefusal(frame.loads[n])]
             tied     == UNION {NodesOf(c) : c \in Range(frame.constraints)}
             linked   == UNION {{c.i, c.j} : c \in Range(frame.connectors)}
  <1>1. /\ ~Duplicated(frame.elements) /\ ~Duplicated(frame.supports)
        /\ ~Duplicated(frame.connectors) /\ ~Duplicated(frame.constraints)
        /\ FirstRefusal(triads) = "NONE" /\ NodesRefusal(tied) = "NONE"
        /\ FirstRefusal(supports) = "NONE" /\ FirstRefusal(loads) = "NONE"
        /\ NodesRefusal(linked) = "NONE"
    BY DEF CompileRefusal
  <1>2. /\ DOMAIN frame.elements \subseteq Nat /\ DOMAIN frame.loads \subseteq Nat
        /\ DOMAIN ActiveSupports \subseteq Nat
        /\ Range(frame.elements) = {frame.elements[n] : n \in DOMAIN frame.elements}
        /\ Range(frame.loads) = {frame.loads[n] : n \in DOMAIN frame.loads}
    BY ListIsFinite, ActiveSupportsAreListed DEF WellFormed
  <1>3. ASSUME NEW e \in Range(frame.elements)
        PROVE  TriadRefusal(e) = "NONE"
    <2>1. \A n \in DOMAIN triads : triads[n] = "NONE"
      <3> HIDE DEF triads
      <3>1. DOMAIN triads \subseteq Nat
        BY <1>2 DEF triads
      <3> QED BY <1>1, <3>1, NothingFirstRefused
    <2> QED BY <1>2, <2>1
  <1>4. ASSUME NEW s \in Range(ActiveSupports)
        PROVE  SupportRefusal(s) = "NONE"
    <2>1. \A n \in DOMAIN supports : supports[n] = "NONE"
      <3> HIDE DEF supports
      <3>1. DOMAIN supports \subseteq Nat
        BY <1>2 DEF supports
      <3> QED BY <1>1, <3>1, NothingFirstRefused
    <2> QED BY <2>1 DEF Range
  <1>5. ASSUME NEW l \in Range(frame.loads)
        PROVE  LoadRefusal(l) = "NONE"
    <2>1. \A n \in DOMAIN loads : loads[n] = "NONE"
      <3> HIDE DEF loads
      <3>1. DOMAIN loads \subseteq Nat
        BY <1>2 DEF loads
      <3> QED BY <1>1, <3>1, NothingFirstRefused
    <2> QED BY <1>2, <2>1
  <1>6. tied \subseteq NodeIds /\ linked \subseteq NodeIds
    <2> HIDE DEF tied, linked
    <2> QED BY <1>1, NothingUnknown
  <1>7. \A e \in Range(frame.elements) :
          Ended(e) /\ Delta(e) # Zero /\ FrameTriad(Delta(e), e.localY).y # Zero
    BY <1>3 DEF TriadRefusal
  <1>8. \A s \in Range(ActiveSupports) : ~SupportRefused(s) /\ s.node \in NodeIds
    BY <1>4, NothingUnknown DEF SupportRefusal
  <1>9. /\ \A c \in Range(frame.constraints) : NodesOf(c) \subseteq NodeIds
        /\ \A c \in Range(frame.connectors) : c.i \in NodeIds /\ c.j \in NodeIds
    BY <1>6
  <1> QED BY <1>1, <1>5, <1>7, <1>8, <1>9

(* With as many supported nodes as active supports, each node's support is *)
(* the one that stands there.                                              *)
LEMMA SupportsStandApart ==
  ASSUME WellFormed(frame), Cardinality(SupportNodes) = Len(ActiveSupports)
  PROVE  /\ SupportNodes = {NodeNo(ActiveSupports[n].node) : n \in DOMAIN ActiveSupports}
         /\ \A m, n \in DOMAIN ActiveSupports :
              NodeNo(ActiveSupports[m].node) = NodeNo(ActiveSupports[n].node) => m = n
         /\ \A n \in DOMAIN ActiveSupports :
              SupportAt(NodeNo(ActiveSupports[n].node)) = ActiveSupports[n]
  <1> DEFINE f == [n \in DOMAIN ActiveSupports |-> NodeNo(ActiveSupports[n].node)]
  <1>1. Len(ActiveSupports) \in Nat /\ DOMAIN ActiveSupports = 1..Len(ActiveSupports)
    BY ActiveSupportsAreListed
  <1>2. /\ IsFiniteSet(DOMAIN ActiveSupports)
        /\ Cardinality(DOMAIN ActiveSupports) = Len(ActiveSupports)
    BY <1>1, UpToIsFinite
  <1>3. SupportNodes = {NodeNo(ActiveSupports[n].node) : n \in DOMAIN ActiveSupports}
    BY DEF SupportNodes, Range
  <1>4. f \in Surjection(DOMAIN ActiveSupports, SupportNodes)
    BY <1>3 DEF Surjection
  <1>5. f \in Injection(DOMAIN ActiveSupports, SupportNodes)
    BY <1>2, <1>4, FS_Surjection
  <1>6. \A m, n \in DOMAIN ActiveSupports :
          NodeNo(ActiveSupports[m].node) = NodeNo(ActiveSupports[n].node) => m = n
    BY <1>5 DEF Injection, IsInjective
  <1>7. ASSUME NEW n \in DOMAIN ActiveSupports
        PROVE  SupportAt(NodeNo(ActiveSupports[n].node)) = ActiveSupports[n]
    <2>1. {k \in DOMAIN ActiveSupports :
             NodeNo(ActiveSupports[k].node) = NodeNo(ActiveSupports[n].node)} = {n}
      BY <1>6
    <2>2. Max({n}) = n
      <3>1. {n} \in SUBSET Int /\ {n} # {}
        BY <1>1
      <3>2. IsFiniteSet({n})
        BY FS_Singleton
      <3> QED BY <3>1, <3>2, MaxIsTheLargest
    <2> QED BY <2>1, <2>2 DEF SupportAt
  <1> QED BY <1>3, <1>6, <1>7

-----------------------------------------------------------------------------
(* The compiled model.                                                     *)

\* What compile.rs makes of a frame it does not refuse.
Compiled ==
  [nodeIds |-> Sorted(NodeIds), nodes |-> CompiledNodes, elements |-> CompiledElements,
   supports |-> CompiledSupports, constraints |-> CompiledConstraints,
   connectors |-> CompiledConnectors,
   loads |-> [n \in DOMAIN frame.loads |-> CompiledLoad(frame.loads[n])],
   applied |-> Applied]

\* The frame is well formed, was not refused, and is compiled.
IsCompiled == WellFormed(frame) /\ CompileRefusal = "NONE" /\ compiled = Compiled

LEMMA SixIsTyped ==
  ASSUME NEW t \in Vectors, NEW r \in Vectors
  PROVE  /\ Six(t, r) \in [Dofs -> Int]
         /\ Translation(Six(t, r)) = t /\ Rotation(Six(t, r)) = r
  <1>1. t.x \in Int /\ t.y \in Int /\ t.z \in Int /\ r.x \in Int /\ r.y \in Int /\ r.z \in Int
    BY DEF Vectors
  <1>2. /\ t = [x |-> t.x, y |-> t.y, z |-> t.z]
        /\ r = [x |-> r.x, y |-> r.y, z |-> r.z]
    BY DEF Vectors
  <1>3. /\ Six(t, r)[0] = t.x /\ Six(t, r)[1] = t.y /\ Six(t, r)[2] = t.z
        /\ Six(t, r)[3] = r.x /\ Six(t, r)[4] = r.y /\ Six(t, r)[5] = r.z
        /\ Six(t, r) = [d \in Dofs |-> Six(t, r)[d]]
    BY DEF Six, Dofs
  <1>4. \A d \in Dofs : d = 0 \/ d = 1 \/ d = 2 \/ d = 3 \/ d = 4 \/ d = 5
    BY DEF Dofs
  <1>5. \A d \in Dofs : Six(t, r)[d] \in Int
    BY <1>1, <1>3, <1>4
  <1>6. Six(t, r) \in [Dofs -> Int]
    BY <1>3, <1>5
  <1> QED BY <1>2, <1>3, <1>6 DEF Translation, Rotation, Vec

LEMMA MotionsAreVectors ==
  ASSUME NEW m \in [Dofs -> Int]
  PROVE  Translation(m) \in Vectors /\ Rotation(m) \in Vectors
  BY DEF Dofs, Translation, Rotation, Vec, Vectors

LEMMA SdkDofIsADof ==
  /\ \A d \in DOMAIN SdkDof : SdkDof[d] \in Dofs
  /\ \A d \in Dofs : ReleaseOrder[d + 1] \in DOMAIN SdkDof
                     /\ SdkDof[ReleaseOrder[d + 1]] = d
                     /\ FrameDof[d + 1] = ReleaseOrder[d + 1]
  /\ \A d \in DOMAIN SdkDof : FrameDof[SdkDof[d] + 1] = d
  BY DEF SdkDof, Dofs, ReleaseOrder, FrameDof

(* An active support among the kernel's.                                   *)
LEMMA SupportIsCompiled ==
  ASSUME IsCompiled
  PROVE  /\ Len(compiled.supports) \in Nat
         /\ DOMAIN compiled.supports = 1..Len(compiled.supports)
         /\ DOMAIN compiled.supports = DOMAIN ActiveSupports
         /\ Len(compiled.supports) = Len(ActiveSupports)
         /\ \A n \in DOMAIN compiled.supports :
              /\ ActiveSupports[n] \in Range(frame.supports)
              /\ ActiveSupports[n].node \in NodeIds
              /\ compiled.supports[n].node = NodeNo(ActiveSupports[n].node)
              /\ compiled.supports[n].fixed = FixedDofs(ActiveSupports[n])
              /\ compiled.supports[n].springs = Springs(ActiveSupports[n])
              /\ compiled.supports[n].prescribed = Prescribed(ActiveSupports[n])
              /\ compiled.supports[n].node \in DOMAIN compiled.nodes
              /\ compiled.supports[n].springs \in [Dofs -> Int]
              /\ compiled.supports[n].prescribed \in [Dofs -> Int]
  <1>1. Len(ActiveSupports) \in Nat /\ DOMAIN ActiveSupports = 1..Len(ActiveSupports)
    BY ActiveSupportsAreListed DEF IsCompiled
  <1>2. /\ compiled.supports = CompiledSupports /\ compiled.nodes = CompiledNodes
        /\ WellFormed(frame) /\ CompileRefusal = "NONE"
    BY DEF IsCompiled, Compiled
  <1>3. /\ DOMAIN compiled.supports = DOMAIN ActiveSupports
        /\ Len(compiled.supports) = Len(ActiveSupports)
    BY <1>1, <1>2 DEF CompiledSupports
  <1>4. ASSUME NEW n \in DOMAIN ActiveSupports
        PROVE  /\ ActiveSupports[n] \in Range(frame.supports)
               /\ ActiveSupports[n].node \in NodeIds
               /\ NodeNo(ActiveSupports[n].node) \in DOMAIN compiled.nodes
               /\ Springs(ActiveSupports[n]) \in [Dofs -> Int]
               /\ Prescribed(ActiveSupports[n]) \in [Dofs -> Int]
    <2> DEFINE s == ActiveSupports[n]
    <2>1. s \in Range(ActiveSupports) /\ s \in Range(frame.supports)
      BY <1>2, ActiveSupportsAreListed DEF Range
    <2>2. /\ s.node \in NodeIds /\ InKilos(s.stiffness)
          /\ s.translation \in Vectors /\ s.rotation \in Vectors
      <3>1. s.node \in NodeIds
        BY <1>2, <2>1, NotRefused
      <3> QED BY <1>2, <2>1, <3>1 DEF WellFormed, SupportFormed
    <2>3. NodeNo(s.node) \in DOMAIN compiled.nodes
      BY <1>2, <2>2, NodesAreNumbered
    <2>4. Prescribed(s) \in [Dofs -> Int]
      BY <2>2, VectorsAreClosed, SixIsTyped DEF Prescribed
    <2>5. Springs(s) \in [Dofs -> Int]
      <3>1. Vec(s.stiffness.x, s.stiffness.z, s.stiffness.y) \in Vectors
        BY <2>2 DEF InKilos, Vectors, Vec
      <3> QED BY <3>1, VectorsAreClosed, UnitsAreInverted, SixIsTyped DEF Springs
    <2> QED BY <2>1, <2>2, <2>3, <2>4, <2>5
  <1>5. ASSUME NEW n \in DOMAIN ActiveSupports
        PROVE  /\ compiled.supports[n].node = NodeNo(ActiveSupports[n].node)
               /\ compiled.supports[n].fixed = FixedDofs(ActiveSupports[n])
               /\ compiled.supports[n].springs = Springs(ActiveSupports[n])
               /\ compiled.supports[n].prescribed = Prescribed(ActiveSupports[n])
    BY <1>2 DEF CompiledSupports
  <1> QED BY <1>1, <1>3, <1>4, <1>5

(* The kernel finds a dependent term among numbered ones, and it counts if *)
(* any does.                                                               *)
LEMMA DependentTermIsOne ==
  ASSUME NEW terms, NEW k \in Nat, DOMAIN terms = 1..k,
         \A n \in DOMAIN terms : terms[n].coefficient \in Int,
         NEW some \in DOMAIN terms, terms[some].coefficient # 0
  PROVE  DependentTerm(terms) \in DOMAIN terms /\ terms[DependentTerm(terms)].coefficient # 0
  <1> DEFINE size == [n \in DOMAIN terms |-> Magnitude(terms[n].coefficient)]
             sizes == {size[n] : n \in DOMAIN terms}
  <1>1. IsFiniteSet(DOMAIN terms) /\ DOMAIN terms \subseteq Int
    BY UpToIsFinite
  <1>2. \A n \in DOMAIN terms : size[n] \in Nat
    BY DEF Magnitude
  <1>3. size \in Surjection(DOMAIN terms, sizes)
    BY DEF Surjection
  <1>4. sizes \in SUBSET Int /\ IsFiniteSet(sizes) /\ sizes # {}
    <2>1. IsFiniteSet(sizes)
      BY <1>1, <1>3, FS_Surjection
    <2> QED BY <1>2, <2>1
  <1> DEFINE most == Max(sizes)
             largest == {n \in DOMAIN terms : size[n] = most}
  <1>5. most \in sizes /\ \A i \in sizes : i <= most
    <2> HIDE DEF sizes
    <2> QED BY <1>4, MaxIsTheLargest
  <1> HIDE DEF most
  <1>6. largest \in SUBSET Int /\ IsFiniteSet(largest) /\ largest # {}
    <2>1. largest \subseteq DOMAIN terms /\ largest # {}
      BY <1>5
    <2>2. IsFiniteSet(largest)
      BY <1>1, <2>1, FS_Subset
    <2> QED BY <1>1, <2>1, <2>2
  <1> DEFINE last == Max(largest)
  <1>7. last \in largest /\ \A i \in largest : i <= last
    <2> HIDE DEF largest
    <2> QED BY <1>6, MaxIsTheLargest
  <1> HIDE DEF last
  <1>8. ASSUME NEW m \in DOMAIN terms
        PROVE  last \in DOMAIN terms /\ (size[m] < size[last] \/ (size[m] = size[last] /\ m <= last))
    <2>1. size[m] <= most /\ size[last] = most /\ last \in DOMAIN terms
      BY <1>5, <1>7
    <2>2. size[m] = most => m <= last
      BY <1>7
    <2>3. size[m] \in Nat /\ size[last] \in Nat
      BY <1>2, <2>1
    <2> QED BY <2>1, <2>2, <2>3
  <1>9. ASSUME NEW n \in DOMAIN terms, NEW m \in DOMAIN terms
        PROVE  size[n] = Magnitude(terms[n].coefficient)
    OBVIOUS
  <1> HIDE DEF size
  <1>10. \E n \in DOMAIN terms : \A m \in DOMAIN terms :
           \/ Magnitude(terms[m].coefficient) < Magnitude(terms[n].coefficient)
           \/ (Magnitude(terms[m].coefficient) = Magnitude(terms[n].coefficient) /\ m <= n)
    BY <1>8, <1>9
  <1>11. /\ DependentTerm(terms) \in DOMAIN terms
         /\ \A m \in DOMAIN terms :
              \/ Magnitude(terms[m].coefficient) < Magnitude(terms[DependentTerm(terms)].coefficient)
              \/ (Magnitude(terms[m].coefficient) = Magnitude(terms[DependentTerm(terms)].coefficient)
                  /\ m <= DependentTerm(terms))
    BY <1>10 DEF DependentTerm
  <1>12. terms[DependentTerm(terms)].coefficient # 0
    <2>1. Magnitude(terms[some].coefficient) > 0
      BY DEF Magnitude
    <2>2. Magnitude(terms[DependentTerm(terms)].coefficient) > 0
      <3>1. Magnitude(terms[some].coefficient) <= Magnitude(terms[DependentTerm(terms)].coefficient)
        BY <1>2, <1>9, <1>11
      <3>2. /\ Magnitude(terms[some].coefficient) \in Int
            /\ Magnitude(terms[DependentTerm(terms)].coefficient) \in Int
        BY <1>2, <1>9, <1>11
      <3> QED BY <2>1, <3>1, <3>2
    <2> QED BY <2>2 DEF Magnitude
  <1> QED BY <1>11, <1>12

(* A constraint among the kernel's.                                        *)
LEMMA ConstraintIsCompiled ==
  ASSUME IsCompiled, NEW c \in Range(frame.constraints)
  PROVE  IF c.kind = "LINEAR_MPC"
           THEN /\ CompiledConstraint(c).kind = "MPC"
                /\ DOMAIN CompiledConstraint(c).terms = DOMAIN c.terms
                /\ Len(c.terms) \in Nat /\ DOMAIN c.terms = 1..Len(c.terms)
                /\ \A n \in DOMAIN c.terms :
                     /\ c.terms[n].node \in NodeIds /\ c.terms[n].dof \in DOMAIN SdkDof
                     /\ c.terms[n].coefficient \in Int
                     /\ CompiledConstraint(c).terms[n] =
                          [node |-> NodeNo(c.terms[n].node), dof |-> SdkDof[c.terms[n].dof],
                           coefficient |-> c.terms[n].coefficient]
                /\ \E n \in DOMAIN c.terms : c.terms[n].coefficient # 0
           ELSE /\ c.master \in NodeIds /\ c.slave \in NodeIds
                /\ CompiledConstraint(c).master = NodeNo(c.master)
                /\ CompiledConstraint(c).slave = NodeNo(c.slave)
                /\ IF c.kind = "ECCENTRIC_CONNECTION"
                     THEN /\ CompiledConstraint(c).kind = "ECCENTRIC"
                          /\ CompiledConstraint(c).offset = Rotate(c.offset)
                          /\ CompiledConstraint(c).offset \in Vectors
                          /\ CompiledConstraint(c).dofs =
                               {d \in Dofs : ReleaseOrder[d + 1] \notin c.releases}
                     ELSE /\ CompiledConstraint(c).kind = c.kind
                          /\ c.kind \in {"RIGID_LINK", "EQUAL_DOF"}
                          /\ c.dofs \subseteq DOMAIN SdkDof
                          /\ CompiledConstraint(c).dofs = {SdkDof[d] : d \in c.dofs}
  <1>1. ConstraintFormed(c) /\ NodesOf(c) \subseteq NodeIds
    BY NotRefused DEF IsCompiled, WellFormed
  <1>2. CASE c.kind = "LINEAR_MPC"
    <2>1. IsList(c.terms)
      BY <1>1, <1>2 DEF ConstraintFormed
    <2>2. /\ Len(c.terms) \in Nat /\ DOMAIN c.terms = 1..Len(c.terms)
          /\ Range(c.terms) = {c.terms[n] : n \in DOMAIN c.terms}
      BY <2>1, ListIsFinite
    <2>3. \A n \in DOMAIN c.terms : c.terms[n].node \in NodeIds
      BY <1>1, <1>2, <2>2 DEF NodesOf
    <2> QED BY <1>1, <1>2, <2>2, <2>3 DEF ConstraintFormed, CompiledConstraint
  <1>3. CASE c.kind = "ECCENTRIC_CONNECTION"
    BY <1>1, <1>3, VectorsAreClosed DEF ConstraintFormed, CompiledConstraint, NodesOf
  <1>4. CASE c.kind \in {"RIGID_LINK", "EQUAL_DOF"}
    BY <1>1, <1>4 DEF ConstraintFormed, CompiledConstraint, NodesOf
  <1> QED BY <1>1, <1>2, <1>3, <1>4 DEF ConstraintFormed

LEMMA QuotientIsWhole ==
  ASSUME NEW n \in Int, NEW k \in Int, k > 0
  PROVE  n \div k \in Int
  BY Z3

(* What follows from a constraint is a number.                             *)
LEMMA FollowedIsTyped ==
  ASSUME IsCompiled, NEW c \in Range(frame.constraints), NEW d \in Dofs,
         NEW u \in [DOMAIN compiled.nodes -> [Dofs -> Int]]
  PROVE  Followed(CompiledConstraint(c), d, u) \in Int
  <1> DEFINE k == CompiledConstraint(c)
  <1>1. WellFormed(frame) /\ compiled.nodes = CompiledNodes
    BY DEF IsCompiled, Compiled
  <1>2. \A id \in NodeIds : NodeNo(id) \in DOMAIN compiled.nodes
    BY <1>1, NodesAreNumbered
  <1>3. CASE c.kind = "LINEAR_MPC"
    <2>1. /\ k.kind = "MPC" /\ DOMAIN k.terms = 1..Len(c.terms) /\ Len(c.terms) \in Nat
          /\ \A n \in DOMAIN k.terms :
               /\ c.terms[n].node \in NodeIds /\ c.terms[n].dof \in DOMAIN SdkDof
               /\ c.terms[n].coefficient \in Int
               /\ k.terms[n] = [node |-> NodeNo(c.terms[n].node), dof |-> SdkDof[c.terms[n].dof],
                                coefficient |-> c.terms[n].coefficient]
          /\ \E n \in DOMAIN k.terms : c.terms[n].coefficient # 0
      BY <1>1, <1>3, ConstraintIsCompiled
    <2> HIDE DEF k
    <2>2. \A n \in DOMAIN k.terms :
            /\ k.terms[n].node \in DOMAIN compiled.nodes /\ k.terms[n].dof \in Dofs
            /\ k.terms[n].coefficient \in Int
            /\ k.terms[n].coefficient = c.terms[n].coefficient
      <3> SUFFICES ASSUME NEW n \in DOMAIN k.terms
                   PROVE  /\ k.terms[n].node \in DOMAIN compiled.nodes /\ k.terms[n].dof \in Dofs
                          /\ k.terms[n].coefficient \in Int
                          /\ k.terms[n].coefficient = c.terms[n].coefficient
        OBVIOUS
      <3>1. /\ c.terms[n].node \in NodeIds /\ c.terms[n].dof \in DOMAIN SdkDof
            /\ c.terms[n].coefficient \in Int
        BY <2>1
      <3>2. k.terms[n] = [node |-> NodeNo(c.terms[n].node), dof |-> SdkDof[c.terms[n].dof],
                          coefficient |-> c.terms[n].coefficient]
        BY <2>1
      <3>3. /\ k.terms[n].node = NodeNo(c.terms[n].node) /\ k.terms[n].dof = SdkDof[c.terms[n].dof]
            /\ k.terms[n].coefficient = c.terms[n].coefficient
        BY <3>2
      <3>4. NodeNo(c.terms[n].node) \in DOMAIN compiled.nodes /\ SdkDof[c.terms[n].dof] \in Dofs
        BY <3>1, <1>2, SdkDofIsADof
      <3> QED BY <3>1, <3>3, <3>4
    <2>3. \E n \in DOMAIN k.terms : k.terms[n].coefficient # 0
      BY <2>1, <2>2
    <2> DEFINE at == DependentTerm(k.terms)
               shares == [n \in DOMAIN k.terms |->
                            IF n = at THEN 0
                            ELSE k.terms[n].coefficient * u[k.terms[n].node][k.terms[n].dof]]
    <2>4. at \in DOMAIN k.terms /\ k.terms[at].coefficient # 0
      BY <2>1, <2>2, <2>3, DependentTermIsOne
    <2> HIDE DEF at
    <2>5. \A n \in DOMAIN k.terms : shares[n] \in Int
      <3> SUFFICES ASSUME NEW n \in DOMAIN k.terms PROVE shares[n] \in Int
        OBVIOUS
      <3>1. k.terms[n].coefficient \in Int /\ u[k.terms[n].node][k.terms[n].dof] \in Int
        BY <2>2
      <3>2. k.terms[n].coefficient * u[k.terms[n].node][k.terms[n].dof] \in Int
        BY <3>1
      <3> QED BY <3>2
    <2>6. SumFunction(shares) \in Int
      <3>1. shares \in [DOMAIN k.terms -> Int]
        BY <2>5
      <3>2. IsFiniteSet(DOMAIN k.terms)
        BY <2>1, UpToIsFinite
      <3> HIDE DEF shares
      <3> QED BY <3>1, <3>2, SumIsInteger
    <2> DEFINE own == k.terms[at].coefficient
    <2>7. own \in Int /\ Magnitude(own) \in Int /\ Magnitude(own) > 0
      BY <2>2, <2>4 DEF Magnitude
    <2>8. Followed(k, d, u) = (IF own < 0 THEN SumFunction(shares) ELSE -SumFunction(shares))
                                \div Magnitude(own)
      BY <2>1 DEF Followed, at
    <2> HIDE DEF shares, own
    <2>9. (IF own < 0 THEN SumFunction(shares) ELSE -SumFunction(shares)) \in Int
      BY <2>6
    <2> QED BY <2>7, <2>8, <2>9, QuotientIsWhole DEF k
  <1>4. CASE c.kind # "LINEAR_MPC"
    <2>1. /\ k.master \in DOMAIN compiled.nodes /\ k.slave \in DOMAIN compiled.nodes
          /\ k.kind \in {"ECCENTRIC", "RIGID_LINK", "EQUAL_DOF"}
          /\ k.kind = "ECCENTRIC" => k.offset \in Vectors
      <3>1. k.master \in DOMAIN compiled.nodes /\ k.slave \in DOMAIN compiled.nodes
        BY <1>1, <1>2, <1>4, ConstraintIsCompiled
      <3>2. CASE c.kind = "ECCENTRIC_CONNECTION"
        BY <1>1, <1>4, <3>1, <3>2, ConstraintIsCompiled
      <3>3. CASE c.kind # "ECCENTRIC_CONNECTION"
        <4>1. k.kind \in {"RIGID_LINK", "EQUAL_DOF"}
          BY <1>1, <1>4, <3>3, ConstraintIsCompiled
        <4> QED BY <3>1, <4>1
      <3> QED BY <3>2, <3>3
    <2> HIDE DEF k
    <2>2. CASE k.kind = "EQUAL_DOF"
      BY <2>1, <2>2 DEF Followed, k
    <2>3. CASE k.kind # "EQUAL_DOF"
      <3>1. Offset(k) \in Vectors
        BY <1>1, <2>1, NodesAreNumbered, VectorsAreClosed DEF Offset
      <3>2. u[k.master] \in [Dofs -> Int]
        BY <2>1
      <3> DEFINE t == Plus(Translation(u[k.master]), Cross(Rotation(u[k.master]), Offset(k)))
      <3>3. t \in Vectors /\ Rotation(u[k.master]) \in Vectors
        BY <3>1, <3>2, MotionsAreVectors, VectorsAreClosed
      <3>4. Followed(k, d, u) = Six(t, Rotation(u[k.master]))[d]
        BY <2>1, <2>3 DEF Followed
      <3> HIDE DEF t
      <3>5. Six(t, Rotation(u[k.master])) \in [Dofs -> Int]
        BY <3>3, SixIsTyped
      <3> QED BY <3>4, <3>5 DEF k
    <2> QED BY <2>2, <2>3 DEF k
  <1> QED BY <1>3, <1>4

(* The owner of a dof is the last of the constraints that eliminate it.    *)
LEMMA OwnerIsTheLast ==
  ASSUME IsCompiled, NEW n, NEW d, Owners(n, d) # {}
  PROVE  /\ Owner(n, d) \in DOMAIN frame.constraints
         /\ <<n, d>> \in Eliminates(CompiledConstraint(frame.constraints[Owner(n, d)]))
         /\ compiled.constraints[Owner(n, d)] = CompiledConstraint(frame.constraints[Owner(n, d)])
         /\ frame.constraints[Owner(n, d)] \in Range(frame.constraints)
  <1>1. compiled.constraints = CompiledConstraints /\ IsList(frame.constraints)
    BY DEF IsCompiled, Compiled, WellFormed
  <1>2. /\ DOMAIN compiled.constraints = DOMAIN frame.constraints
        /\ \A k \in DOMAIN frame.constraints :
             compiled.constraints[k] = CompiledConstraint(frame.constraints[k])
    BY <1>1 DEF CompiledConstraints
  <1>3. IsFiniteSet(DOMAIN frame.constraints) /\ DOMAIN frame.constraints \subseteq Int
    BY <1>1, ListIsFinite
  <1>4. Owners(n, d) \subseteq DOMAIN frame.constraints
    BY <1>2 DEF Owners
  <1>5. IsFiniteSet(Owners(n, d)) /\ Owners(n, d) \in SUBSET Int
    BY <1>3, <1>4, FS_Subset
  <1>6. Owner(n, d) \in Owners(n, d)
    BY <1>5, MaxIsTheLargest DEF Owner
  <1> QED BY <1>1, <1>2, <1>4, <1>6, ListIsFinite DEF Owners

(* Where the kernel may find the nodes: a number for every dof, the one    *)
(* prescribed where a support restrains it, and the one that follows from  *)
(* its masters where a constraint eliminated it.                           *)
LEMMA DisplacementsAreTyped ==
  ASSUME IsCompiled, NEW u \in Displacements
  PROVE  /\ u \in [DOMAIN compiled.nodes -> [Dofs -> Int]]
         /\ \A n \in DOMAIN compiled.nodes, d \in Dofs :
              d \in Restrained(n) => u[n][d] = PrescribedAt(n, d)
         /\ \E v \in [DOMAIN compiled.nodes -> [Dofs -> Int]] :
              \A n \in DOMAIN compiled.nodes, d \in Dofs :
                u[n][d] = IF Dependent(n, d)
                            THEN Followed(compiled.constraints[Owner(n, d)], d, v) ELSE v[n][d]
  <1> DEFINE nodes == DOMAIN compiled.nodes
             held(free) == [n \in nodes |-> [d \in Dofs |->
                              IF d \in Restrained(n) THEN PrescribedAt(n, d) ELSE free[n][d]]]
             whole(v) == [n \in nodes |-> [d \in Dofs |->
                            IF Dependent(n, d)
                              THEN Followed(compiled.constraints[Owner(n, d)], d, v)
                              ELSE v[n][d]]]
             loose == {n \in nodes : \E d \in Dofs : d \notin Restrained(n) /\ ~Dependent(n, d)}
             still == [d \in Dofs |-> 0]
             all(free) == [n \in nodes |-> IF n \in loose THEN free[n] ELSE still]
  <1>1. PICK free \in [loose -> Motions] : u = whole(held(all(free)))
    BY DEF Displacements
  <1>2. \A n \in nodes : all(free)[n] \in [Dofs -> Int]
    <2>1. still \in [Dofs -> Int]
      OBVIOUS
    <2>2. \A n \in loose : free[n] \in [Dofs -> Int]
      BY MotionsAssumption
    <2> HIDE DEF loose, still
    <2> QED BY <2>1, <2>2
  <1>3. ASSUME NEW n \in nodes, NEW d \in Dofs, d \in Restrained(n)
        PROVE  PrescribedAt(n, d) \in Int
    <2>1. \E s \in SupportsAt(n) : d \in s.fixed
      BY <1>3 DEF Restrained
    <2> DEFINE s == CHOOSE s \in SupportsAt(n) : d \in s.fixed
    <2>2. s \in Range(compiled.supports)
      BY <2>1 DEF SupportsAt
    <2>3. s.prescribed \in [Dofs -> Int]
      BY <2>2, SupportIsCompiled DEF Range
    <2> QED BY <2>3 DEF PrescribedAt
  <1> DEFINE v == held(all(free))
  <1>4. v \in [nodes -> [Dofs -> Int]]
    <2> HIDE DEF all
    <2>1. \A n \in nodes, d \in Dofs :
            (IF d \in Restrained(n) THEN PrescribedAt(n, d) ELSE all(free)[n][d]) \in Int
      BY <1>2, <1>3
    <2> QED BY <2>1
  <1>5. \A n \in nodes, d \in Dofs : d \in Restrained(n) => v[n][d] = PrescribedAt(n, d)
    OBVIOUS
  <1>6. u = whole(v)
    BY <1>1
  <1> HIDE DEF v
  <1>7. ASSUME NEW n \in nodes, NEW d \in Dofs, Dependent(n, d)
        PROVE  Followed(compiled.constraints[Owner(n, d)], d, v) \in Int
    <2>1. Owners(n, d) # {}
      BY <1>7 DEF Dependent
    <2>2. /\ compiled.constraints[Owner(n, d)] = CompiledConstraint(frame.constraints[Owner(n, d)])
          /\ frame.constraints[Owner(n, d)] \in Range(frame.constraints)
      BY <2>1, OwnerIsTheLast
    <2> QED BY <1>4, <2>2, FollowedIsTyped
  <1>8. u \in [nodes -> [Dofs -> Int]]
    <2>1. \A n \in nodes, d \in Dofs :
            (IF Dependent(n, d) THEN Followed(compiled.constraints[Owner(n, d)], d, v)
             ELSE v[n][d]) \in Int
      BY <1>4, <1>7
    <2> QED BY <1>6, <2>1
  <1>9. ASSUME NEW n \in nodes, NEW d \in Dofs, d \in Restrained(n)
        PROVE  u[n][d] = PrescribedAt(n, d)
    <2>1. ~Dependent(n, d)
      BY <1>9 DEF Dependent
    <2>2. u[n][d] = v[n][d]
      BY <1>6, <2>1
    <2> QED BY <1>5, <1>9, <2>2
  <1>10. \A n \in nodes, d \in Dofs :
           u[n][d] = IF Dependent(n, d)
                       THEN Followed(compiled.constraints[Owner(n, d)], d, v) ELSE v[n][d]
    BY <1>6
  <1> QED BY <1>4, <1>8, <1>9, <1>10

-----------------------------------------------------------------------------
(* Resultants, and reading them back.                                      *)

\* A force or moment of the kernel in the frame's axes and units.
ToFrame(v) == InverseRotate(ToSolver(v))

LEMMA SumVectorsIsAVector ==
  ASSUME NEW S, IsFiniteSet(S), NEW f \in [S -> Vectors]
  PROVE  SumVectors(f) \in Vectors
  <1> DEFINE along(axis) == [i \in S |-> f[i][axis]]
  <1>1. \A i \in S : f[i].x \in Int /\ f[i].y \in Int /\ f[i].z \in Int
    BY DEF Vectors
  <1>2. along("x") \in [S -> Int] /\ along("y") \in [S -> Int] /\ along("z") \in [S -> Int]
    BY <1>1
  <1>3. SumVectors(f) = Vec(SumFunction(along("x")), SumFunction(along("y")), SumFunction(along("z")))
    BY DEF SumVectors
  <1> HIDE DEF along
  <1>4. SumFunction(along("x")) \in Int /\ SumFunction(along("y")) \in Int
        /\ SumFunction(along("z")) \in Int
    BY <1>2, SumIsInteger
  <1> QED BY <1>3, <1>4, VecIsAVector

LEMMA SumIsReadBack ==
  ASSUME NEW S, IsFiniteSet(S), NEW f \in [S -> Vectors],
         NEW g \in [S -> Vectors], \A i \in S : g[i] = ToFrame(f[i])
  PROVE  SumVectors(g) = ToFrame(SumVectors(f))
  <1> DEFINE fx == [i \in S |-> f[i].x]
             fy == [i \in S |-> f[i].y]
             fz == [i \in S |-> f[i].z]
             gx == [i \in S |-> g[i].x]
             gy == [i \in S |-> g[i].y]
             gz == [i \in S |-> g[i].z]
  <1>1. Kilo \in Int /\ -Kilo \in Int
    BY KiloAssumption
  <1>2. /\ fx \in [S -> Int] /\ fy \in [S -> Int] /\ fz \in [S -> Int]
        /\ gx \in [S -> Int] /\ gy \in [S -> Int] /\ gz \in [S -> Int]
    BY DEF Vectors
  <1>3. ASSUME NEW i \in S
        PROVE  gx[i] = Kilo * fx[i] /\ gy[i] = Kilo * fz[i] /\ gz[i] = (-Kilo) * fy[i]
    <2>1. f[i] \in Vectors /\ f[i].x \in Int /\ f[i].y \in Int /\ f[i].z \in Int
      BY DEF Vectors
    <2>2. g[i].x = Kilo * f[i].x /\ g[i].y = Kilo * f[i].z /\ g[i].z = -(Kilo * f[i].y)
      BY DEF ToFrame, ToSolver, InverseRotate, Times, Vec
    <2>3. (-Kilo) * f[i].y = -(Kilo * f[i].y)
      BY <1>1, <2>1, ProductOfMinus
    <2> QED BY <2>2, <2>3
  <1>4. /\ SumVectors(f) = Vec(SumFunction(fx), SumFunction(fy), SumFunction(fz))
        /\ SumVectors(g) = Vec(SumFunction(gx), SumFunction(gy), SumFunction(gz))
    BY DEF SumVectors
  <1> HIDE DEF fx, fy, fz, gx, gy, gz
  <1>5. /\ SumFunction(gx) = Kilo * SumFunction(fx)
        /\ SumFunction(gy) = Kilo * SumFunction(fz)
        /\ SumFunction(gz) = (-Kilo) * SumFunction(fy)
    <2>1. SumFunction(gx) = Kilo * SumFunction(fx)
      BY <1>1, <1>2, <1>3, SumScales
    <2>2. SumFunction(gy) = Kilo * SumFunction(fz)
      BY <1>1, <1>2, <1>3, SumScales
    <2>3. SumFunction(gz) = (-Kilo) * SumFunction(fy)
      BY <1>1, <1>2, <1>3, SumScales
    <2> QED BY <2>1, <2>2, <2>3
  <1>6. SumFunction(fx) \in Int /\ SumFunction(fy) \in Int /\ SumFunction(fz) \in Int
    BY <1>2, SumIsInteger
  <1>7. (-Kilo) * SumFunction(fy) = -(Kilo * SumFunction(fy))
    BY <1>1, <1>6, ProductOfMinus
  <1> QED BY <1>4, <1>5, <1>7 DEF ToFrame, ToSolver, InverseRotate, Times, Vec

LEMMA LeverScales ==
  ASSUME NEW k \in Int, NEW a \in Int, NEW b \in Int, NEW c \in Int, NEW d \in Int, NEW m \in Int
  PROVE  k * ((a * b - c * d) + m) = (a * (k * b) - c * (k * d)) + k * m
  OBVIOUS

(* A moment is read back as the moment of what is read back.               *)
LEMMA MomentIsReadBack ==
  /\ \A v \in Vectors : ToFrame(v) \in Vectors
  /\ ToFrame(Zero) = Zero
  /\ \A p, f, m \in Vectors :
       ToFrame(Plus(Cross(p, f), m)) = Plus(Cross(InverseRotate(p), ToFrame(f)), ToFrame(m))
  <1>1. \A v \in Vectors : ToFrame(v) \in Vectors
    BY UnitsAreInverted, VectorsAreClosed DEF ToFrame
  <1>2. ToFrame(Zero) = Zero
    BY KiloAssumption DEF ToFrame, ToSolver, InverseRotate, Times, Vec, Zero
  <1>3. ASSUME NEW p \in Vectors, NEW f \in Vectors, NEW m \in Vectors
        PROVE  ToFrame(Plus(Cross(p, f), m)) = Plus(Cross(InverseRotate(p), ToFrame(f)), ToFrame(m))
    <2>1. /\ p.x \in Int /\ p.y \in Int /\ p.z \in Int /\ f.x \in Int /\ f.y \in Int /\ f.z \in Int
          /\ m.x \in Int /\ m.y \in Int /\ m.z \in Int /\ Kilo \in Int
      BY KiloAssumption DEF Vectors
    <2>2. /\ Kilo * ((p.y * f.z - p.z * f.y) + m.x) = (p.y * (Kilo * f.z) - p.z * (Kilo * f.y)) + Kilo * m.x
          /\ Kilo * ((p.z * f.x - p.x * f.z) + m.y) = (p.z * (Kilo * f.x) - p.x * (Kilo * f.z)) + Kilo * m.y
          /\ Kilo * ((p.x * f.y - p.y * f.x) + m.z) = (p.x * (Kilo * f.y) - p.y * (Kilo * f.x)) + Kilo * m.z
      BY <2>1, LeverScales
    <2>3. ToSolver(Plus(Cross(p, f), m)) = Plus(Cross(p, ToSolver(f)), ToSolver(m))
      BY <2>2 DEF ToSolver, Plus, Cross, Times, Vec
    <2>4. ToSolver(f) \in Vectors /\ ToSolver(m) \in Vectors /\ Cross(p, ToSolver(f)) \in Vectors
      BY UnitsAreInverted, VectorsAreClosed
    <2>5. InverseRotate(Plus(Cross(p, ToSolver(f)), ToSolver(m)))
            = Plus(InverseRotate(Cross(p, ToSolver(f))), InverseRotate(ToSolver(m)))
      BY <2>4, RotateIsLinear
    <2>6. InverseRotate(Cross(p, ToSolver(f))) = Cross(InverseRotate(p), InverseRotate(ToSolver(f)))
      BY <2>4, RotateKeepsProducts
    <2> QED BY <2>3, <2>5, <2>6 DEF ToFrame
  <1> QED BY <1>1, <1>2, <1>3

\* What is placed in the kernel's axes and units is what is placed in the frame's.
PlacesAlike(k, f) ==
  /\ k.point \in Vectors /\ k.force \in Vectors /\ k.freeMoment \in Vectors
  /\ ToFrame(k.force) = f.force
  /\ ToFrame(Plus(Cross(k.point, k.force), k.freeMoment)) = Plus(Cross(f.point, f.force), f.freeMoment)

LEMMA ResultantIsReadBack ==
  ASSUME NEW S, IsFiniteSet(S), NEW g, NEW h, DOMAIN g = S, DOMAIN h = S,
         \A i \in S : PlacesAlike(g[i], h[i])
  PROVE  /\ ResultantOf(g).force \in Vectors /\ ResultantOf(g).moment \in Vectors
         /\ ResultantOf(h).force = ToFrame(ResultantOf(g).force)
         /\ ResultantOf(h).moment = ToFrame(ResultantOf(g).moment)
  <1> DEFINE gf == [i \in S |-> g[i].force]
             gm == [i \in S |-> Plus(Cross(g[i].point, g[i].force), g[i].freeMoment)]
             hf == [i \in S |-> h[i].force]
             hm == [i \in S |-> Plus(Cross(h[i].point, h[i].force), h[i].freeMoment)]
  <1>1. /\ ResultantOf(g) = [force |-> SumVectors(gf), moment |-> SumVectors(gm)]
        /\ ResultantOf(h) = [force |-> SumVectors(hf), moment |-> SumVectors(hm)]
    BY DEF ResultantOf
  <1>2. ASSUME NEW i \in S
        PROVE  /\ gf[i] \in Vectors /\ gm[i] \in Vectors /\ hf[i] \in Vectors /\ hm[i] \in Vectors
               /\ hf[i] = ToFrame(gf[i]) /\ hm[i] = ToFrame(gm[i])
    <2>1. /\ g[i].point \in Vectors /\ g[i].force \in Vectors /\ g[i].freeMoment \in Vectors
          /\ hf[i] = ToFrame(gf[i]) /\ hm[i] = ToFrame(gm[i])
      BY DEF PlacesAlike
    <2>2. gf[i] \in Vectors /\ gm[i] \in Vectors
      BY <2>1, VectorsAreClosed
    <2> QED BY <2>1, <2>2, MomentIsReadBack
  <1>3. gf \in [S -> Vectors] /\ gm \in [S -> Vectors] /\ hf \in [S -> Vectors] /\ hm \in [S -> Vectors]
    BY <1>2
  <1> HIDE DEF gf, gm, hf, hm
  <1>4. SumVectors(hf) = ToFrame(SumVectors(gf)) /\ SumVectors(hm) = ToFrame(SumVectors(gm))
    <2>1. SumVectors(hf) = ToFrame(SumVectors(gf))
      BY <1>2, <1>3, SumIsReadBack
    <2>2. SumVectors(hm) = ToFrame(SumVectors(gm))
      BY <1>2, <1>3, SumIsReadBack
    <2> QED BY <2>1, <2>2
  <1>5. SumVectors(gf) \in Vectors /\ SumVectors(gm) \in Vectors
    BY <1>3, SumVectorsIsAVector
  <1> QED BY <1>1, <1>4, <1>5

-----------------------------------------------------------------------------
(* The loads as the kernel places them.                                    *)

LEMMA KilosTurn ==
  /\ \A v : InKilos(v) => InKilos(Rotate(v))
  /\ \A v, d : InKilos(v) /\ d \in Directions => Dot(v, d) \in Int /\ Dot(v, d) % Kilo = 0
  <1>1. Kilo \in Int /\ Kilo > 0
    BY KiloAssumption
  <1>2. ASSUME NEW n \in Int, NEW k \in Int, k > 0, n % k = 0
        PROVE  (-n) % k = 0
    <2>1. PICK q \in Int : n = k * q
      <3>1. n \div k \in Int /\ n = k * (n \div k)
        BY <1>2, Z3
      <3> QED BY <3>1
    <2>2. -n = k * (-q)
      BY <2>1, TimesOfMinus
    <2>3. ASSUME NEW m \in Int PROVE (k * m) % k = 0
      BY <1>2, Z3
    <2>4. -q \in Int
      OBVIOUS
    <2> QED BY <2>2, <2>3, <2>4
  <1>3. \A n \in Int : n % Kilo = 0 => (-n) % Kilo = 0
    BY <1>1, <1>2
  <1>4. \A v : InKilos(v) => InKilos(Rotate(v))
    <2> SUFFICES ASSUME NEW v, InKilos(v) PROVE InKilos(Rotate(v))
      OBVIOUS
    <2>1. /\ v.x \in Int /\ v.y \in Int /\ v.z \in Int
          /\ v.x % Kilo = 0 /\ v.y % Kilo = 0 /\ v.z % Kilo = 0
      BY DEF InKilos, Vectors
    <2>2. -v.z \in Int /\ (-v.z) % Kilo = 0
      BY <1>3, <2>1
    <2>3. /\ Rotate(v) \in Vectors
          /\ Rotate(v).x = v.x /\ Rotate(v).y = -v.z /\ Rotate(v).z = v.y
      BY <2>1, <2>2, VecIsAVector DEF Rotate
    <2> QED BY <2>1, <2>2, <2>3 DEF InKilos
  <1>5. ASSUME NEW v, InKilos(v), NEW d \in Directions
        PROVE  Dot(v, d) \in Int /\ Dot(v, d) % Kilo = 0
    <2>1. /\ v.x \in Int /\ v.y \in Int /\ v.z \in Int
          /\ v.x % Kilo = 0 /\ v.y % Kilo = 0 /\ v.z % Kilo = 0
      BY <1>5 DEF InKilos, Vectors
    <2>2. \/ Dot(v, d) = v.x \/ Dot(v, d) = -v.x \/ Dot(v, d) = v.y
          \/ Dot(v, d) = -v.y \/ Dot(v, d) = v.z \/ Dot(v, d) = -v.z
      BY <2>1 DEF Directions, Vec, Dot
    <2>3. (-v.x) % Kilo = 0 /\ (-v.y) % Kilo = 0 /\ (-v.z) % Kilo = 0
      BY <1>3, <2>1
    <2> QED BY <2>1, <2>2, <2>3
  <1> QED BY <1>4, <1>5

LEMMA TriadIsOfDirections ==
  ASSUME NEW t, IsTriad(t)
  PROVE  t.x \in Directions /\ t.y \in Directions /\ t.z \in Directions
  <1>1. ASSUME NEW a \in Directions, NEW b \in Directions, Dot(a, b) = 0
        PROVE  Cross(a, b) \in Directions
    BY <1>1 DEF Directions, Dot, Cross, Vec
  <1> QED BY <1>1 DEF IsTriad

(* A force in whole kilo-units comes back from an element's axes.          *)
LEMMA LocalForceIsReadBack ==
  ASSUME NEW t, IsTriad(t), NEW v, InKilos(v)
  PROVE  LET f == Combine(t, ToSdk(ProjectLocal(Rotate(v), t)))
         IN  f \in Vectors /\ ToFrame(f) = v
  <1> DEFINE p == ProjectLocal(Rotate(v), t)
             f == Combine(t, ToSdk(p))
  <1>1. v \in Vectors /\ Rotate(v) \in Vectors /\ InKilos(Rotate(v))
    BY KilosTurn, VectorsAreClosed DEF InKilos
  <1>2. InKilos(p)
    <2>1. p \in Vectors
      BY <1>1, TriadTakesApart
    <2>2. /\ Dot(Rotate(v), t.x) % Kilo = 0 /\ Dot(Rotate(v), t.y) % Kilo = 0
          /\ Dot(Rotate(v), t.z) % Kilo = 0
      BY <1>1, KilosTurn, TriadIsOfDirections
    <2> QED BY <2>1, <2>2 DEF InKilos, ProjectLocal, Vec
  <1>3. p \in Vectors /\ ToSdk(p) \in Vectors /\ ToSolver(ToSdk(p)) = p
    BY <1>2, UnitsAreInverted DEF InKilos
  <1>4. Combine(t, p) = Rotate(v)
    BY <1>1, TriadTakesApart
  <1> HIDE DEF p
  <1>5. f \in Vectors
    BY <1>3, TriadTakesApart
  <1>6. ToSolver(f) = Combine(t, ToSolver(ToSdk(p)))
    <2>1. Kilo \in Int
      BY KiloAssumption
    <2> QED BY <1>3, <2>1, TriadScales DEF ToSolver
  <1>7. ToFrame(f) = v
    BY <1>1, <1>3, <1>4, <1>6, RotateIsInverted DEF ToFrame
  <1> QED BY <1>5, <1>7 DEF p

LEMMA NodalForceIsReadBack ==
  \A v : InKilos(v) => ToSdk(Rotate(v)) \in Vectors /\ ToFrame(ToSdk(Rotate(v))) = v
  BY KilosTurn, UnitsAreInverted, RotateIsInverted, VectorsAreClosed DEF InKilos, ToFrame

(* An element's axes, compiled.                                            *)
LEMMA ElementIsCompiled ==
  ASSUME IsCompiled, NEW e \in Range(frame.elements)
  PROVE  LET x == CHOOSE x \in Range(compiled.elements) : x.no = ElementNo(e)
             t == LocalTriad(Delta(e), e.localY)
         IN  /\ IsTriad(t) /\ IsTriad(FrameTriad(Delta(e), e.localY))
             /\ x.y = t.y /\ KernelAxis(x) = t.x /\ t.z = Cross(t.x, t.y)
             /\ t.x = Rotate(Unit(Delta(e))) /\ Unit(Delta(e)) \in Vectors
             /\ Delta(e) \in Vectors /\ Length(e) \in Int
             /\ compiled.nodes[x.i] = Rotate(frame.nodes[e.start])
             /\ frame.nodes[e.start] \in Vectors
  <1> DEFINE x == CHOOSE x \in Range(compiled.elements) : x.no = ElementNo(e)
             t == LocalTriad(Delta(e), e.localY)
             r == [no |-> ElementNo(e), i |-> NodeNo(e.start), j |-> NodeNo(e.end),
                   y |-> t.y, E |-> e.E, section |-> ScaledSection(e)]
  <1>1. WellFormed(frame) /\ CompileRefusal = "NONE" /\ compiled.nodes = CompiledNodes
        /\ compiled.elements = CompiledElements
    BY DEF IsCompiled, Compiled
  <1>2. /\ ~Duplicated(frame.elements) /\ Ended(e)
        /\ Delta(e) # Zero /\ FrameTriad(Delta(e), e.localY).y # Zero
    BY <1>1, NotRefused
  <1>3. ElementFormed(frame, e)
    BY <1>1 DEF WellFormed
  <1>4. /\ e.start \in NodeIds /\ e.end \in NodeIds /\ e.localY \in Vectors
        /\ frame.nodes[e.start] \in Vectors /\ frame.nodes[e.end] \in Vectors
    BY <1>1, <1>2, <1>3, NodesAreNumbered DEF ElementFormed, Ended
  <1>5. Delta(e) \in Vectors /\ Unit(Delta(e)) \in Vectors
    BY <1>4, VectorsAreClosed DEF Delta
  <1>6. IsTriad(FrameTriad(Delta(e), e.localY)) /\ FrameTriad(Delta(e), e.localY).x = Unit(Delta(e))
    <2>1. /\ Axial(Delta(e))
          /\ Axial(Minus(e.localY, Times(Dot(e.localY, Unit(Delta(e))), Unit(Delta(e)))))
      BY <1>2, <1>3 DEF ElementFormed, Ended, NodeIds, Delta
    <2> QED BY <1>2, <1>4, <1>5, <2>1, FrameTriadIsATriad
  <1>7. IsTriad(t) /\ t.x = Rotate(Unit(Delta(e)))
    <2>1. IsTriad(t)
      BY <1>6, LocalTriadIsATriad
    <2>2. t.x = Rotate(FrameTriad(Delta(e), e.localY).x)
      BY DEF LocalTriad
    <2> QED BY <1>6, <2>1, <2>2
  <1>8. t.z = Cross(t.x, t.y)
    BY <1>7 DEF IsTriad
  <1>9. x = r
    <2>1. DOMAIN compiled.elements = Range(frame.elements)
          /\ \A d \in Range(frame.elements) : compiled.elements[d].no = ElementNo(d)
          /\ compiled.elements[e] = r
      BY <1>1 DEF CompiledElements
    <2>2. Range(compiled.elements) = {compiled.elements[d] : d \in Range(frame.elements)}
      BY <2>1 DEF Range
    <2>3. \A d \in Range(frame.elements) : ElementNo(d) = ElementNo(e) => d = e
      BY <1>1, <1>2, ElementsAreNumbered
    <2> HIDE DEF r
    <2>4. \A y \in Range(compiled.elements) : y.no = ElementNo(e) => y = r
      BY <2>1, <2>2, <2>3
    <2>5. r \in Range(compiled.elements) /\ r.no = ElementNo(e)
      BY <2>1, <2>2
    <2> QED BY <2>4, <2>5
  <1> HIDE DEF x, t
  <1>10. x.i = NodeNo(e.start) /\ x.j = NodeNo(e.end) /\ x.y = t.y
    BY <1>9
  <1>11. /\ compiled.nodes[x.i] = Rotate(frame.nodes[e.start])
         /\ compiled.nodes[x.j] = Rotate(frame.nodes[e.end])
    BY <1>1, <1>4, <1>10, NodesAreNumbered
  <1>12. KernelAxis(x) = t.x
    BY <1>4, <1>5, <1>7, <1>11, RotateIsLinear DEF KernelAxis, Delta
  <1>13. Length(e) \in Int
    BY <1>5, VectorsAreClosed DEF Length
  <1> QED BY <1>4, <1>5, <1>6, <1>7, <1>8, <1>10, <1>11, <1>12, <1>13 DEF x, t

\* A load where the frame has it, as calculate_resultant takes it.
InFrame(l) ==
  LET e == ElementOf(l.at)
  IN  CASE l.kind = "FORCE"  -> [point |-> frame.nodes[l.at], force |-> l.force, freeMoment |-> Zero]
        [] l.kind = "MOMENT" -> [point |-> Zero, force |-> Zero, freeMoment |-> l.moment]
        [] l.kind = "POINT"  -> [point |-> l.point, force |-> l.force, freeMoment |-> l.moment]
        [] OTHER ->
             [point |-> Plus(frame.nodes[e.start],
                             Times(((l.from + l.to) * Length(e)) \div (2 * Quarters), Unit(Delta(e)))),
              force |-> Times(((l.to - l.from) * Length(e)) \div Quarters, l.force),
              freeMoment |-> Zero]

LEMMA PlacedInTheFrame ==
  ASSUME NEW k, NEW f, k.point \in Vectors, k.force \in Vectors, k.freeMoment \in Vectors,
         f.point = InverseRotate(k.point), f.force = ToFrame(k.force),
         f.freeMoment = ToFrame(k.freeMoment)
  PROVE  PlacesAlike(k, f)
  BY MomentIsReadBack DEF PlacesAlike

LEMMA LoadedLength ==
  ASSUME NEW p \in Int, NEW q \in Int, NEW n \in Int,
         (p * n) % Quarters = 0, (q * n) % Quarters = 0, ((p + q) * n) % (2 * Quarters) = 0
  PROVE  /\ ((p * n) \div Quarters) \in Int /\ ((q * n) \div Quarters) \in Int
         /\ ((q * n) \div Quarters) - ((p * n) \div Quarters) = ((q - p) * n) \div Quarters
         /\ (((p * n) \div Quarters) + ((q * n) \div Quarters)) \div 2
              = ((p + q) * n) \div (2 * Quarters)
         /\ ((q - p) * n) \div Quarters \in Int /\ ((p + q) * n) \div (2 * Quarters) \in Int
  <1>1. PICK a \in Int, b \in Int : a = p * n /\ b = q * n
    <2>1. p * n \in Int /\ q * n \in Int
      OBVIOUS
    <2> QED BY <2>1
  <1>2. (q - p) * n = b - a /\ (p + q) * n = a + b
    BY <1>1
  <1>3. /\ a \div 4 \in Int /\ b \div 4 \in Int /\ (b - a) \div 4 \in Int /\ (a + b) \div 8 \in Int
        /\ (a % 4 = 0 /\ b % 4 = 0) => (b \div 4) - (a \div 4) = (b - a) \div 4
        /\ (a % 4 = 0 /\ b % 4 = 0 /\ (a + b) % 8 = 0)
             => ((a \div 4) + (b \div 4)) \div 2 = (a + b) \div 8
    BY Z3
  <1> QED BY <1>1, <1>2, <1>3 DEF Quarters

LEMMA PlaceAlongIsTurned ==
  ASSUME NEW s \in Vectors, NEW d \in Vectors, NEW n \in Int
  PROVE  /\ Plus(Rotate(s), Times(n, Rotate(d))) \in Vectors
         /\ InverseRotate(Plus(Rotate(s), Times(n, Rotate(d)))) = Plus(s, Times(n, d))
  <1>1. Times(n, d) \in Vectors /\ Rotate(Times(n, d)) = Times(n, Rotate(d)) /\ Plus(s, Times(n, d)) \in Vectors
    BY VectorsAreClosed, RotateScales
  <1>2. Plus(Rotate(s), Times(n, Rotate(d))) = Rotate(Plus(s, Times(n, d)))
    BY <1>1, RotateIsLinear
  <1> QED BY <1>1, <1>2, RotateIsInverted, VectorsAreClosed

(* Every load is placed by the kernel's numbers, axes and units where the  *)
(* frame has it, and as large.                                             *)
LEMMA LoadIsPlacedAlike ==
  ASSUME IsCompiled, NEW l \in Range(frame.loads)
  PROVE  PlacesAlike(Placed(CompiledLoad(l)), InFrame(l))
  <1> DEFINE k == Placed(CompiledLoad(l))
             f == InFrame(l)
  <1>1. WellFormed(frame) /\ CompileRefusal = "NONE" /\ compiled.nodes = CompiledNodes
    BY DEF IsCompiled, Compiled
  <1>2. LoadFormed(frame, l) /\ LoadRefusal(l) = "NONE"
    BY <1>1, NotRefused DEF WellFormed
  <1>3. InKilos(l.force) /\ InKilos(l.moment)
    BY <1>2 DEF LoadFormed
  <1>4. CASE l.kind \in {"FORCE", "MOMENT"}
    <2>1. l.at \in NodeIds
      BY <1>2, <1>4, NothingUnknown DEF LoadRefusal
    <2>2. /\ compiled.nodes[NodeNo(l.at)] = Rotate(frame.nodes[l.at])
          /\ frame.nodes[l.at] \in Vectors /\ Rotate(frame.nodes[l.at]) \in Vectors
      BY <1>1, <2>1, NodesAreNumbered, VectorsAreClosed
    <2>3. CASE l.kind = "FORCE"
      <3>1. k = [point |-> Rotate(frame.nodes[l.at]), force |-> ToSdk(Rotate(l.force)),
                 freeMoment |-> Zero]
        BY <2>2, <2>3 DEF Placed, CompiledLoad
      <3>2. f = [point |-> frame.nodes[l.at], force |-> l.force, freeMoment |-> Zero]
        BY <2>3 DEF InFrame
      <3>3. /\ InverseRotate(Rotate(frame.nodes[l.at])) = frame.nodes[l.at]
            /\ ToSdk(Rotate(l.force)) \in Vectors /\ ToFrame(ToSdk(Rotate(l.force))) = l.force
            /\ Zero \in Vectors /\ ToFrame(Zero) = Zero
        BY <1>3, <2>2, RotateIsInverted, NodalForceIsReadBack, VectorsAreClosed, MomentIsReadBack
      <3> HIDE DEF k, f
      <3>4. /\ k.point \in Vectors /\ k.force \in Vectors /\ k.freeMoment \in Vectors
            /\ f.point = InverseRotate(k.point) /\ f.force = ToFrame(k.force)
            /\ f.freeMoment = ToFrame(k.freeMoment)
        BY <2>2, <3>1, <3>2, <3>3
      <3>5. PlacesAlike(k, f)
        BY <3>4, PlacedInTheFrame
      <3> QED BY <3>5 DEF k, f
    <2>4. CASE l.kind = "MOMENT"
      <3>1. k = [point |-> Rotate(frame.nodes[l.at]), force |-> Zero,
                 freeMoment |-> ToSdk(Rotate(l.moment))]
        BY <2>2, <2>4 DEF Placed, CompiledLoad
      <3>2. f = [point |-> Zero, force |-> Zero, freeMoment |-> l.moment]
        BY <2>4 DEF InFrame
      <3>3. /\ ToSdk(Rotate(l.moment)) \in Vectors /\ ToFrame(ToSdk(Rotate(l.moment))) = l.moment
            /\ Zero \in Vectors /\ ToFrame(Zero) = Zero
        BY <1>3, NodalForceIsReadBack, VectorsAreClosed, MomentIsReadBack
      <3>4. \A p \in Vectors : Cross(p, Zero) = Zero
        BY DEF Cross, Zero, Vec, Vectors
      <3>5. InverseRotate(Rotate(frame.nodes[l.at])) = frame.nodes[l.at]
        BY <2>2, RotateIsInverted
      <3> HIDE DEF k, f
      <3>6. /\ k.point \in Vectors /\ k.force \in Vectors /\ k.freeMoment \in Vectors
            /\ f.force = ToFrame(k.force)
        BY <2>2, <3>1, <3>2, <3>3
      <3>7. ToFrame(Plus(Cross(k.point, k.force), k.freeMoment))
              = Plus(Cross(InverseRotate(k.point), ToFrame(k.force)), ToFrame(k.freeMoment))
        BY <3>6, MomentIsReadBack
      <3>8. /\ Cross(InverseRotate(k.point), ToFrame(k.force)) = Zero
            /\ Cross(f.point, f.force) = Zero /\ ToFrame(k.freeMoment) = f.freeMoment
        BY <2>2, <3>1, <3>2, <3>3, <3>4, <3>5
      <3>9. PlacesAlike(k, f)
        BY <3>6, <3>7, <3>8 DEF PlacesAlike
      <3> QED BY <3>9 DEF k, f
    <2> QED BY <1>4, <2>3, <2>4
  <1>5. CASE l.kind \in {"POINT", "DISTRIBUTED"}
    <2> DEFINE e == ElementOf(l.at)
               x == CHOOSE x \in Range(compiled.elements) : x.no = ElementNo(e)
               t == LocalTriad(Delta(e), e.localY)
    <2>1. e \in Range(frame.elements) /\ e.id = l.at /\ Ended(e) /\ ~LoadRefused(l)
      <3>1. l.at \in IdsOf(frame.elements) /\ Ended(e) /\ ~LoadRefused(l)
        BY <1>2, <1>5 DEF LoadRefusal
      <3> QED BY <1>1, <3>1, NotRefused, ElementsAreNumbered
    <2>2. /\ IsTriad(t) /\ x.y = t.y /\ KernelAxis(x) = t.x /\ t.z = Cross(t.x, t.y)
          /\ t.x = Rotate(Unit(Delta(e))) /\ Unit(Delta(e)) \in Vectors
          /\ Length(e) \in Int
          /\ compiled.nodes[x.i] = Rotate(frame.nodes[e.start])
          /\ frame.nodes[e.start] \in Vectors
      BY <2>1, ElementIsCompiled
    <2> DEFINE p == ToSdk(LocalForce(l))
               part == Combine([x |-> t.x, y |-> t.y, z |-> t.z], p)
               at(a) == Plus(Rotate(frame.nodes[e.start]), Times(a, Rotate(Unit(Delta(e)))))
    <2>3. part \in Vectors /\ ToFrame(part) = l.force
      <3>1. part = Combine(t, ToSdk(ProjectLocal(Rotate(l.force), t)))
        BY DEF Combine, LocalForce
      <3> HIDE DEF part, t
      <3> QED BY <1>3, <2>2, <3>1, LocalForceIsReadBack
    <2>4. Zero \in Vectors /\ ToFrame(Zero) = Zero
      BY VectorsAreClosed, MomentIsReadBack
    <2>5. CASE l.kind = "POINT"
      <3> DEFINE n == Metres(l, l.from)
      <3>1. k = [point |-> at(n), force |-> part, freeMoment |-> Zero]
        <4>1. CompiledLoad(l) = [kind |-> "POINT", element |-> ElementNo(e), a |-> n, p |-> p]
          BY <2>5 DEF CompiledLoad
        <4> HIDE DEF n, p, t, e
        <4> QED BY <2>2, <4>1 DEF Placed
      <3>2. f = [point |-> l.point, force |-> l.force, freeMoment |-> l.moment]
        BY <2>5 DEF InFrame
      <3>3. l.point = Along(e, l.from) /\ l.moment = Zero
        BY <2>1, <2>5 DEF LoadRefused
      <3>4. n \in Int /\ n = (l.from * Length(e)) \div Quarters
        <4>1. l.from \in Int
          BY <1>2, <1>5 DEF LoadFormed
        <4>2. l.from * Length(e) \in Int
          BY <2>2, <4>1
        <4>3. Quarters \in Int /\ Quarters > 0
          BY DEF Quarters
        <4> QED BY <4>2, <4>3, QuotientIsWhole DEF Metres
      <3>5. at(n) \in Vectors /\ InverseRotate(at(n)) = l.point
        <4>1. l.point = Plus(frame.nodes[e.start], Times(n, Unit(Delta(e))))
          BY <3>3, <3>4 DEF Along
        <4> HIDE DEF n, e
        <4> QED BY <2>2, <3>4, <4>1, PlaceAlongIsTurned
      <3> HIDE DEF n, k, f, at, part
      <3>6. /\ k.point \in Vectors /\ k.force \in Vectors /\ k.freeMoment \in Vectors
            /\ f.point = InverseRotate(k.point) /\ f.force = ToFrame(k.force)
            /\ f.freeMoment = ToFrame(k.freeMoment)
        BY <2>3, <2>4, <3>1, <3>2, <3>3, <3>5
      <3>7. PlacesAlike(k, f)
        BY <3>6, PlacedInTheFrame
      <3> QED BY <3>7 DEF k, f
    <2>6. CASE l.kind = "DISTRIBUTED"
      <3> DEFINE a == Metres(l, l.from)
                 b == Metres(l, l.to)
                 middle == ((l.from + l.to) * Length(e)) \div (2 * Quarters)
                 long == ((l.to - l.from) * Length(e)) \div Quarters
      <3>1. k = [point |-> at((a + b) \div 2), force |-> Times(b - a, part), freeMoment |-> Zero]
        <4>1. CompiledLoad(l) = [kind |-> "DISTRIBUTED", element |-> ElementNo(e), a |-> a, b |-> b, p |-> p]
          BY <2>6 DEF CompiledLoad
        <4> HIDE DEF a, b, p, t, e
        <4> QED BY <2>2, <4>1 DEF Placed
      <3>2. f = [point |-> Plus(frame.nodes[e.start], Times(middle, Unit(Delta(e)))),
                 force |-> Times(long, l.force), freeMoment |-> Zero]
        BY <2>6 DEF InFrame
      <3>3. /\ b - a = long /\ (a + b) \div 2 = middle
            /\ long \in Int /\ middle \in Int
        <4>1. /\ l.from \in Int /\ l.to \in Int
              /\ (l.from * Length(e)) % Quarters = 0 /\ (l.to * Length(e)) % Quarters = 0
              /\ ((l.from + l.to) * Length(e)) % (2 * Quarters) = 0
          <5>1. l.from \in Int /\ l.to \in Int
            BY <1>2, <1>5 DEF LoadFormed
          <5> QED BY <1>2, <2>1, <2>6, <5>1 DEF LoadFormed, Ended, NodeIds, Length, Delta
        <4>2. a = (l.from * Length(e)) \div Quarters /\ b = (l.to * Length(e)) \div Quarters
          BY DEF Metres
        <4> HIDE DEF e, a, b
        <4>3. PICK n \in Int : n = Length(e)
          BY <2>2
        <4> QED BY <4>1, <4>2, <4>3, LoadedLength
      <3> HIDE DEF a, b, middle, long
      <3>4. /\ at(middle) \in Vectors
            /\ InverseRotate(at(middle)) = Plus(frame.nodes[e.start], Times(middle, Unit(Delta(e))))
        <4> HIDE DEF e
        <4> QED BY <2>2, <3>3, PlaceAlongIsTurned
      <3>5. Times(long, part) \in Vectors /\ ToFrame(Times(long, part)) = Times(long, l.force)
        <4>1. Times(long, part) \in Vectors /\ ToSolver(part) \in Vectors
          BY <2>3, <3>3, VectorsAreClosed, UnitsAreInverted
        <4>2. ToSolver(Times(long, part)) = Times(long, ToSolver(part))
          <5>1. part.x \in Int /\ part.y \in Int /\ part.z \in Int /\ Kilo \in Int
            BY <2>3, KiloAssumption DEF Vectors
          <5>2. \A n \in Int : Kilo * (long * n) = long * (Kilo * n)
            BY <3>3, <5>1
          <5> HIDE DEF part
          <5> QED BY <5>1, <5>2 DEF ToSolver, Times, Vec
        <4> HIDE DEF part
        <4> QED BY <2>3, <3>3, <4>1, <4>2, RotateScales DEF ToFrame
      <3> HIDE DEF k, f, at, part
      <3>6. /\ k.point \in Vectors /\ k.force \in Vectors /\ k.freeMoment \in Vectors
            /\ f.point = InverseRotate(k.point) /\ f.force = ToFrame(k.force)
            /\ f.freeMoment = ToFrame(k.freeMoment)
        BY <2>4, <3>1, <3>2, <3>3, <3>4, <3>5
      <3>7. PlacesAlike(k, f)
        BY <3>6, PlacedInTheFrame
      <3> QED BY <3>7 DEF k, f
    <2> QED BY <1>5, <2>5, <2>6
  <1>6. l.kind \in {"FORCE", "MOMENT", "POINT", "DISTRIBUTED"}
    BY <1>2 DEF LoadFormed
  <1> QED BY <1>4, <1>5, <1>6

(* The audit's resultant of the loads is the kernel's, read back.          *)
LEMMA SentIsApplied ==
  ASSUME IsCompiled
  PROVE  /\ Sent.force \in Vectors /\ Sent.moment \in Vectors
         /\ compiled.applied.force = ToFrame(Sent.force)
         /\ compiled.applied.moment = ToFrame(Sent.moment)
  <1> DEFINE S == DOMAIN frame.loads
             g == [n \in S |-> Placed(CompiledLoad(frame.loads[n]))]
             h == [n \in S |-> InFrame(frame.loads[n])]
  <1>1. IsList(frame.loads) /\ compiled.applied = Applied
        /\ compiled.loads = [n \in S |-> CompiledLoad(frame.loads[n])]
    BY DEF IsCompiled, Compiled, WellFormed
  <1>2. IsFiniteSet(S) /\ Range(frame.loads) = {frame.loads[n] : n \in S}
    BY <1>1, ListIsFinite
  <1>3. Sent = ResultantOf(g)
    BY <1>1 DEF Sent
  <1>4. compiled.applied = ResultantOf(h)
    BY <1>1 DEF Applied, InFrame
  <1>5. \A n \in S : PlacesAlike(g[n], h[n])
    <2>1. \A n \in S : PlacesAlike(Placed(CompiledLoad(frame.loads[n])), InFrame(frame.loads[n]))
      BY <1>2, LoadIsPlacedAlike
    <2> QED BY <2>1
  <1>6. DOMAIN g = S /\ DOMAIN h = S
    OBVIOUS
  <1> HIDE DEF g, h, S
  <1> QED BY <1>2, <1>3, <1>4, <1>5, <1>6, ResultantIsReadBack

-----------------------------------------------------------------------------
(* What the kernel hands back.                                             *)

(* The reactions of a sound answer: one for each of its supports, in order.*)
LEMMA ReactionsAreTyped ==
  ASSUME IsCompiled, NEW u \in Displacements
  PROVE  /\ DOMAIN Reactions(u) = DOMAIN compiled.supports
         /\ \A n \in DOMAIN compiled.supports :
              \E f \in Vectors, m \in Vectors :
                Reactions(u)[n] = [node |-> compiled.supports[n].node, force |-> f, moment |-> m]
         /\ \A n \in DOMAIN compiled.supports :
              compiled.supports[n].fixed # Dofs =>
                /\ Reactions(u)[n].force = Translation(Sprung(compiled.supports[n], u))
                /\ Reactions(u)[n].moment = Rotation(Sprung(compiled.supports[n], u))
  <1> DEFINE S == DOMAIN compiled.supports
             given(s) == [point |-> compiled.nodes[s.node],
                          force |-> Translation(Sprung(s, u)), freeMoment |-> Rotation(Sprung(s, u))]
             all == [n \in S |-> given(compiled.supports[n])]
             rest == ResultantOf(all)
             force == Times(-1, Plus(rest.force, Sent.force))
             moment(s) == Minus(Times(-1, Plus(rest.moment, Sent.moment)),
                                Cross(compiled.nodes[s.node], force))
  <1>1. Reactions(u) =
          [n \in S |->
             IF compiled.supports[n].fixed = Dofs /\ n = Carrier
               THEN [node |-> compiled.supports[n].node, force |-> force,
                     moment |-> moment(compiled.supports[n])]
               ELSE [node |-> compiled.supports[n].node,
                     force |-> given(compiled.supports[n]).force,
                     moment |-> given(compiled.supports[n]).freeMoment]]
    BY DEF Reactions
  <1>2. ASSUME NEW n \in S
        PROVE  /\ all[n].point \in Vectors /\ all[n].force \in Vectors /\ all[n].freeMoment \in Vectors
               /\ all[n] = given(compiled.supports[n])
    <2> DEFINE s == compiled.supports[n]
    <2>1. s.node \in DOMAIN compiled.nodes /\ s.springs \in [Dofs -> Int]
      BY SupportIsCompiled
    <2>2. compiled.nodes[s.node] \in Vectors
      BY <2>1, NodesAreNumbered DEF IsCompiled, Compiled
    <2>3. u[s.node] \in [Dofs -> Int]
      BY <2>1, DisplacementsAreTyped
    <2> HIDE DEF s
    <2>4. Sprung(s, u) \in [Dofs -> Int]
      <3>1. \A d \in Dofs : (IF d \in s.fixed THEN 0 ELSE -s.springs[d] * u[s.node][d]) \in Int
        <4> TAKE d \in Dofs
        <4>1. s.springs[d] \in Int /\ u[s.node][d] \in Int
          BY <2>1, <2>3
        <4>2. ASSUME NEW a \in Int, NEW b \in Int PROVE -a * b \in Int
          OBVIOUS
        <4> QED BY <4>1, <4>2
      <3> QED BY <3>1 DEF Sprung
    <2>5. Translation(Sprung(s, u)) \in Vectors /\ Rotation(Sprung(s, u)) \in Vectors
      BY <2>4, MotionsAreVectors
    <2> QED BY <2>2, <2>5 DEF s
  <1> DEFINE gf == [n \in S |-> all[n].force]
             gm == [n \in S |-> Plus(Cross(all[n].point, all[n].force), all[n].freeMoment)]
  <1>3. rest.force \in Vectors /\ rest.moment \in Vectors
    <2>1. DOMAIN all = S
      OBVIOUS
    <2> HIDE DEF all
    <2>2. rest = [force |-> SumVectors(gf), moment |-> SumVectors(gm)]
      BY <2>1 DEF ResultantOf
    <2>3. gf \in [S -> Vectors] /\ gm \in [S -> Vectors]
      <3>1. \A n \in S : gf[n] \in Vectors /\ gm[n] \in Vectors
        BY <1>2, VectorsAreClosed
      <3> QED BY <3>1
    <2>4. IsFiniteSet(S)
      BY SupportIsCompiled, UpToIsFinite
    <2> HIDE DEF gf, gm, rest
    <2> QED BY <2>2, <2>3, <2>4, SumVectorsIsAVector
  <1>4. Sent.force \in Vectors /\ Sent.moment \in Vectors
    BY SentIsApplied
  <1> HIDE DEF rest
  <1>5. force \in Vectors
    BY <1>3, <1>4, VectorsAreClosed
  <1> HIDE DEF force
  <1>6. ASSUME NEW n \in S
        PROVE  /\ moment(compiled.supports[n]) \in Vectors
               /\ given(compiled.supports[n]).force \in Vectors
               /\ given(compiled.supports[n]).freeMoment \in Vectors
    <2>1. compiled.nodes[compiled.supports[n].node] \in Vectors
      BY <1>2
    <2>2. Times(-1, Plus(rest.moment, Sent.moment)) \in Vectors
      BY <1>3, <1>4, VectorsAreClosed
    <2> QED BY <1>2, <1>5, <2>1, <2>2, VectorsAreClosed
  <1>7. ASSUME NEW n \in S
        PROVE  \E f \in Vectors, m \in Vectors :
                 Reactions(u)[n] = [node |-> compiled.supports[n].node, force |-> f, moment |-> m]
    <2>1. CASE compiled.supports[n].fixed = Dofs /\ n = Carrier
      <3>1. Reactions(u)[n] = [node |-> compiled.supports[n].node, force |-> force,
                               moment |-> moment(compiled.supports[n])]
        BY <1>1, <2>1
      <3> HIDE DEF moment
      <3> QED BY <1>5, <1>6, <3>1
    <2>2. CASE ~(compiled.supports[n].fixed = Dofs /\ n = Carrier)
      <3>1. Reactions(u)[n] = [node |-> compiled.supports[n].node,
                               force |-> given(compiled.supports[n]).force,
                               moment |-> given(compiled.supports[n]).freeMoment]
        BY <1>1, <2>2
      <3> HIDE DEF given
      <3> QED BY <1>6, <3>1
    <2> QED BY <2>1, <2>2
  <1>8. ASSUME NEW n \in S, compiled.supports[n].fixed # Dofs
        PROVE  /\ Reactions(u)[n].force = Translation(Sprung(compiled.supports[n], u))
               /\ Reactions(u)[n].moment = Rotation(Sprung(compiled.supports[n], u))
    BY <1>1, <1>8
  <1>9. DOMAIN Reactions(u) = S
    BY <1>1
  <1> QED BY <1>7, <1>8, <1>9

\* What the kernel made of a compiled model, or what it made of it spoilt.
KernelAnswered ==
  \E u \in Displacements, forces \in {ConstraintForces, <<>>} :
    raw \in {Whole(u, forces)} \cup Spoilt(Whole(u, forces))

LEMMA RawIsShaped ==
  ASSUME IsCompiled, KernelAnswered
  PROVE  /\ DOMAIN raw.reactions = DOMAIN compiled.supports
         /\ \A n \in DOMAIN compiled.supports :
              \E f \in Vectors, m \in Vectors :
                raw.reactions[n] = [node |-> compiled.supports[n].node, force |-> f, moment |-> m]
         /\ Len(raw.reactions) = Len(ActiveSupports)
         /\ \/ raw.forces = ConstraintForces \/ raw.forces = <<>>
            \/ raw.forces = Append(ConstraintForces, [node |-> 1, dof |-> 6, value |-> 1])
            \/ raw.forces = Append(<<>>, [node |-> 1, dof |-> 6, value |-> 1])
  <1>1. PICK u \in Displacements, forces \in {ConstraintForces, <<>>} :
          raw \in {Whole(u, forces)} \cup Spoilt(Whole(u, forces))
    BY DEF KernelAnswered
  <1> DEFINE good == Whole(u, forces)
             bad(r, axis, v) == IF axis = "force" THEN [r EXCEPT ![1].force = Plus(@, v)]
                                ELSE [r EXCEPT ![1].moment = Plus(@, v)]
  <1>2. good.reactions = Reactions(u) /\ good.forces = forces
    BY DEF Whole
  <1>3. /\ DOMAIN Reactions(u) = DOMAIN compiled.supports
        /\ \A n \in DOMAIN compiled.supports :
             \E f \in Vectors, m \in Vectors :
               Reactions(u)[n] = [node |-> compiled.supports[n].node, force |-> f, moment |-> m]
    BY <1>1, ReactionsAreTyped
  <1>4. good = [finite |-> good.finite, nodes |-> good.nodes, reactions |-> good.reactions,
                elements |-> good.elements, forces |-> good.forces, diagnoses |-> good.diagnoses]
    BY DEF Whole
  <1> HIDE DEF good
  <1>5. /\ \/ raw.reactions = Reactions(u)
           \/ raw.reactions = [Reactions(u) EXCEPT ![1].force = Plus(@, Vec(0, 0, 1))]
           \/ raw.reactions = [Reactions(u) EXCEPT ![1].moment = Plus(@, Vec(3, 0, 0))]
        /\ raw.forces = forces \/ raw.forces = Append(forces, [node |-> 1, dof |-> 6, value |-> 1])
    <2>1. CASE raw = good
      BY <1>2, <2>1
    <2>2. CASE raw \in Spoilt(good)
      <3>1. CASE raw = [good EXCEPT !.finite = FALSE]
        BY <1>2, <1>4, <3>1
      <3>2. CASE raw = [good EXCEPT !.nodes = Kept(@, 2..Len(@))]
        BY <1>2, <1>4, <3>2
      <3>3. CASE raw = [good EXCEPT !.nodes = @ \o @]
        BY <1>2, <1>4, <3>3
      <3>4. CASE raw = [good EXCEPT !.nodes[1].no = Len(good.nodes) + 1]
        BY <1>2, <1>4, <3>4
      <3>5. CASE raw = [good EXCEPT !.forces = Append(@, [node |-> 1, dof |-> 6, value |-> 1])]
        BY <1>2, <1>4, <3>5
      <3>6. CASE raw = [good EXCEPT !.reactions[1].force = Plus(@, Vec(0, 0, 1)),
                                    !.diagnoses = <<"over_constrained_dof", "unheard_of">>]
        BY <1>2, <1>4, <3>6
      <3>7. CASE raw = [good EXCEPT !.reactions[1].moment = Plus(@, Vec(3, 0, 0)),
                                    !.diagnoses = <<"singular_matrix">>]
        BY <1>2, <1>4, <3>7
      <3> QED BY <2>2, <3>1, <3>2, <3>3, <3>4, <3>5, <3>6, <3>7 DEF Spoilt
    <2> QED BY <1>1, <2>1, <2>2 DEF good
  <1>6. /\ DOMAIN raw.reactions = DOMAIN compiled.supports
        /\ \A n \in DOMAIN compiled.supports :
             \E f \in Vectors, m \in Vectors :
               raw.reactions[n] = [node |-> compiled.supports[n].node, force |-> f, moment |-> m]
    <2>1. CASE raw.reactions = Reactions(u)
      BY <1>3, <2>1
    <2>2. CASE raw.reactions = [Reactions(u) EXCEPT ![1].force = Plus(@, Vec(0, 0, 1))]
      <3>1. DOMAIN raw.reactions = DOMAIN compiled.supports
        BY <1>3, <2>2
      <3>2. ASSUME NEW n \in DOMAIN compiled.supports
            PROVE  \E f \in Vectors, m \in Vectors :
                     raw.reactions[n] = [node |-> compiled.supports[n].node, force |-> f, moment |-> m]
        <4>1. PICK f \in Vectors, m \in Vectors :
                Reactions(u)[n] = [node |-> compiled.supports[n].node, force |-> f, moment |-> m]
          BY <1>3
        <4>2. Plus(f, Vec(0, 0, 1)) \in Vectors
          BY VecIsAVector, VectorsAreClosed
        <4>3. raw.reactions[n] = [node |-> compiled.supports[n].node, force |-> f, moment |-> m]
              \/ raw.reactions[n] = [node |-> compiled.supports[n].node,
                                     force |-> Plus(f, Vec(0, 0, 1)), moment |-> m]
          BY <1>3, <2>2, <4>1
        <4> QED BY <4>2, <4>3
      <3> QED BY <3>1, <3>2
    <2>3. CASE raw.reactions = [Reactions(u) EXCEPT ![1].moment = Plus(@, Vec(3, 0, 0))]
      <3>1. DOMAIN raw.reactions = DOMAIN compiled.supports
        BY <1>3, <2>3
      <3>2. ASSUME NEW n \in DOMAIN compiled.supports
            PROVE  \E f \in Vectors, m \in Vectors :
                     raw.reactions[n] = [node |-> compiled.supports[n].node, force |-> f, moment |-> m]
        <4>1. PICK f \in Vectors, m \in Vectors :
                Reactions(u)[n] = [node |-> compiled.supports[n].node, force |-> f, moment |-> m]
          BY <1>3
        <4>2. Plus(m, Vec(3, 0, 0)) \in Vectors
          BY VecIsAVector, VectorsAreClosed
        <4>3. raw.reactions[n] = [node |-> compiled.supports[n].node, force |-> f, moment |-> m]
              \/ raw.reactions[n] = [node |-> compiled.supports[n].node, force |-> f,
                                     moment |-> Plus(m, Vec(3, 0, 0))]
          BY <1>3, <2>3, <4>1
        <4> QED BY <4>2, <4>3
      <3> QED BY <3>1, <3>2
    <2> QED BY <1>5, <2>1, <2>2, <2>3
  <1>7. Len(raw.reactions) = Len(ActiveSupports)
    <2>1. DOMAIN raw.reactions = 1..Len(ActiveSupports) /\ Len(ActiveSupports) \in Nat
      BY <1>6, SupportIsCompiled, ActiveSupportsAreListed DEF IsCompiled
    <2> QED BY <2>1
  <1> QED BY <1>1, <1>5, <1>6, <1>7

(* The reactions of a complete answer, under the names of their supports.  *)
LEMMA ReactionsAreNamed ==
  ASSUME IsCompiled, KernelAnswered, Covered
  PROVE  /\ Cardinality(SupportNodes) = Len(ActiveSupports)
         /\ DOMAIN NormalizedReactions = IdsOf(ActiveSupports)
         /\ \A n \in DOMAIN ActiveSupports :
              /\ SupportAt(raw.reactions[n].node) = ActiveSupports[n]
              /\ NormalizedReactions[ActiveSupports[n].id] =
                   [force  |-> ToFrame(raw.reactions[n].force),
                    moment |-> ToFrame(raw.reactions[n].moment)]
  <1>1. /\ WellFormed(frame) /\ ~Duplicated(frame.supports)
        /\ Len(ActiveSupports) \in Nat /\ DOMAIN ActiveSupports = 1..Len(ActiveSupports)
    BY NotRefused, ActiveSupportsAreListed DEF IsCompiled
  <1>2. /\ DOMAIN raw.reactions = DOMAIN ActiveSupports
        /\ \A n \in DOMAIN ActiveSupports :
             raw.reactions[n].node = NodeNo(ActiveSupports[n].node)
    <2>1. DOMAIN raw.reactions = DOMAIN ActiveSupports
      BY RawIsShaped, SupportIsCompiled
    <2>2. ASSUME NEW n \in DOMAIN ActiveSupports
          PROVE  raw.reactions[n].node = NodeNo(ActiveSupports[n].node)
      <3>1. n \in DOMAIN compiled.supports
            /\ compiled.supports[n].node = NodeNo(ActiveSupports[n].node)
        BY SupportIsCompiled
      <3>2. PICK f \in Vectors, m \in Vectors :
              raw.reactions[n] = [node |-> compiled.supports[n].node, force |-> f, moment |-> m]
        BY <3>1, RawIsShaped
      <3> QED BY <3>1, <3>2
    <2> QED BY <2>1, <2>2
  <1>3. Cardinality(SupportNodes) = Len(ActiveSupports)
    <2>1. Len(Numbers("node", raw.reactions)) = Cardinality(SupportNodes)
      BY DEF Covered, UniqueAndComplete
    <2>2. Len(Numbers("node", raw.reactions)) = Len(ActiveSupports)
      BY <1>1, <1>2 DEF Numbers
    <2> QED BY <2>1, <2>2
  <1>4. /\ SupportNodes = {NodeNo(ActiveSupports[n].node) : n \in DOMAIN ActiveSupports}
        /\ \A n \in DOMAIN ActiveSupports :
             SupportAt(NodeNo(ActiveSupports[n].node)) = ActiveSupports[n]
    BY <1>1, <1>3, SupportsStandApart
  <1>5. \A n \in DOMAIN ActiveSupports : SupportAt(raw.reactions[n].node) = ActiveSupports[n]
    BY <1>2, <1>4
  <1>6. {SupportAt(n).id : n \in SupportNodes} = IdsOf(ActiveSupports)
    BY <1>4 DEF IdsOf
  <1>7. ASSUME NEW n \in DOMAIN ActiveSupports
        PROVE  NormalizedReactions[ActiveSupports[n].id] =
                 [force  |-> ToFrame(raw.reactions[n].force),
                  moment |-> ToFrame(raw.reactions[n].moment)]
    <2> DEFINE id == ActiveSupports[n].id
               r == CHOOSE x \in Range(raw.reactions) : SupportAt(x.node).id = id
    <2>1. id \in IdsOf(ActiveSupports)
      BY DEF IdsOf
    <2>2. Range(raw.reactions) = {raw.reactions[k] : k \in DOMAIN ActiveSupports}
      BY <1>2 DEF Range
    <2>3. \A k \in DOMAIN ActiveSupports : ActiveSupports[k].id = id => k = n
      BY <1>1, ActiveSupportsAreListed
    <2>4. \A x \in Range(raw.reactions) : SupportAt(x.node).id = id => x = raw.reactions[n]
      BY <1>5, <2>2, <2>3
    <2>5. raw.reactions[n] \in Range(raw.reactions) /\ SupportAt(raw.reactions[n].node).id = id
      BY <1>5, <2>2
    <2>6. r = raw.reactions[n]
      <3> HIDE DEF id
      <3> QED BY <2>4, <2>5
    <2>7. NormalizedReactions[id] =
            [force |-> InverseRotate(ToSolver(r.force)), moment |-> InverseRotate(ToSolver(r.moment))]
      BY <1>6, <2>1 DEF NormalizedReactions
    <2> HIDE DEF r, id
    <2> QED BY <2>6, <2>7 DEF ToFrame, id
  <1>8. DOMAIN NormalizedReactions = IdsOf(ActiveSupports)
    BY <1>6 DEF NormalizedReactions
  <1> QED BY <1>3, <1>5, <1>7, <1>8

LEMMA SumVectorsRenamed ==
  ASSUME NEW S, IsFiniteSet(S), NEW T, NEW b \in Bijection(S, T),
         NEW f \in [S -> Vectors], NEW g \in [T -> Vectors], \A i \in S : f[i] = g[b[i]]
  PROVE  SumVectors(f) = SumVectors(g)
  <1> DEFINE fx == [i \in S |-> f[i].x]
             fy == [i \in S |-> f[i].y]
             fz == [i \in S |-> f[i].z]
             gx == [i \in T |-> g[i].x]
             gy == [i \in T |-> g[i].y]
             gz == [i \in T |-> g[i].z]
  <1>1. /\ fx \in [S -> Int] /\ fy \in [S -> Int] /\ fz \in [S -> Int]
        /\ gx \in [T -> Int] /\ gy \in [T -> Int] /\ gz \in [T -> Int]
    BY DEF Vectors
  <1>2. \A i \in S : b[i] \in T
    BY DEF Bijection, Injection
  <1>3. \A i \in S : fx[i] = gx[b[i]] /\ fy[i] = gy[b[i]] /\ fz[i] = gz[b[i]]
    BY <1>2
  <1>4. /\ SumVectors(f) = Vec(SumFunction(fx), SumFunction(fy), SumFunction(fz))
        /\ SumVectors(g) = Vec(SumFunction(gx), SumFunction(gy), SumFunction(gz))
    BY DEF SumVectors
  <1> HIDE DEF fx, fy, fz, gx, gy, gz
  <1>5. SumFunction(fx) = SumFunction(gx)
    BY <1>1, <1>3, SumRenamed
  <1>6. SumFunction(fy) = SumFunction(gy)
    BY <1>1, <1>3, SumRenamed
  <1>7. SumFunction(fz) = SumFunction(gz)
    BY <1>1, <1>3, SumRenamed
  <1> QED BY <1>4, <1>5, <1>6, <1>7

LEMMA FunctionIsAList ==
  ASSUME NEW n \in Nat, NEW Y, NEW f \in [1..n -> Y]
  PROVE  f \in Seq(Y) /\ Len(f) = n /\ DOMAIN f = 1..n
  OBVIOUS

(* A complete answer has as many nodes as the frame.                       *)
LEMMA NodesAreRead ==
  ASSUME IsCompiled, KernelAnswered, Covered
  PROVE  /\ Len(raw.nodes) = Cardinality(NodeIds)
         /\ DOMAIN raw.nodes = 1..Cardinality(NodeIds)
  <1>1. PICK u \in Displacements, forces \in {ConstraintForces, <<>>} :
          raw \in {Whole(u, forces)} \cup Spoilt(Whole(u, forces))
    BY DEF KernelAnswered
  <1> DEFINE good == Whole(u, forces)
             count == Cardinality(NodeIds)
             Y == [no : Nat, motion : [Dofs -> Int]]
  <1>2. compiled.nodes = CompiledNodes /\ WellFormed(frame)
    BY DEF IsCompiled, Compiled
  <1>3. count \in Nat /\ DOMAIN compiled.nodes = 1..count
    BY <1>2, NodesAreNumbered
  <1>4. good.nodes \in Seq(Y) /\ Len(good.nodes) = count /\ DOMAIN good.nodes = 1..count
    <2>1. u \in [DOMAIN compiled.nodes -> [Dofs -> Int]]
      BY DisplacementsAreTyped
    <2>2. good.nodes = [n \in 1..count |-> [no |-> n, motion |-> u[n]]]
      BY <1>3 DEF Whole
    <2>3. good.nodes \in [1..count -> Y]
      BY <1>3, <2>1, <2>2
    <2> HIDE DEF good, Y, count
    <2> QED BY <1>3, <2>3, FunctionIsAList
  <1>5. good = [finite |-> good.finite, nodes |-> good.nodes, reactions |-> good.reactions,
                elements |-> good.elements, forces |-> good.forces, diagnoses |-> good.diagnoses]
    BY DEF Whole
  <1> HIDE DEF good, Y
  <1>6. \/ raw.nodes = good.nodes
        \/ raw.nodes = Kept(good.nodes, 2..Len(good.nodes))
        \/ raw.nodes = good.nodes \o good.nodes
        \/ raw.nodes = [good.nodes EXCEPT ![1].no = Len(good.nodes) + 1]
    <2>1. CASE raw = good
      BY <2>1
    <2>2. CASE raw \in Spoilt(good)
      BY <1>5, <2>2 DEF Spoilt
    <2> QED BY <1>1, <2>1, <2>2 DEF good
  <1>7. \E k \in Nat : DOMAIN raw.nodes = 1..k
    <2>1. CASE raw.nodes = good.nodes
      BY <1>3, <1>4, <2>1
    <2>2. CASE raw.nodes = Kept(good.nodes, 2..Len(good.nodes))
      <3>1. 2..Len(good.nodes) \in SUBSET Int /\ IsFiniteSet(2..Len(good.nodes))
        <4>1. 2..count \subseteq 1..count
          BY <1>3
        <4> QED BY <1>3, <1>4, <4>1, UpToIsFinite, FS_Subset
      <3>2. /\ Cardinality(2..Len(good.nodes)) \in Nat
            /\ DOMAIN Kept(good.nodes, 2..Len(good.nodes)) = 1..Cardinality(2..Len(good.nodes))
        BY <3>1, KeptTakesEach
      <3> QED BY <2>2, <3>2
    <2>3. CASE raw.nodes = good.nodes \o good.nodes
      <3>1. raw.nodes \in Seq(Y)
        BY <1>4, <2>3
      <3> QED BY <3>1
    <2>4. CASE raw.nodes = [good.nodes EXCEPT ![1].no = Len(good.nodes) + 1]
      BY <1>3, <1>4, <2>4
    <2> QED BY <1>6, <2>1, <2>2, <2>3, <2>4
  <1>8. PICK k \in Nat : DOMAIN raw.nodes = 1..k
    BY <1>7
  <1>9. Len(raw.nodes) = k /\ Len(Numbers("no", raw.nodes)) = k
    BY <1>8 DEF Numbers
  <1>10. Len(Numbers("no", raw.nodes)) = count
    <2>1. Cardinality(DOMAIN compiled.nodes) = count
      BY <1>3, UpToIsFinite
    <2> QED BY <2>1 DEF Covered, UniqueAndComplete
  <1> QED BY <1>8, <1>9, <1>10

(* The audit's resultant of the reactions is that of the kernel's own      *)
(* reactions at the kernel's own nodes, read back.                         *)
LEMMA ReactedIsWeighed ==
  ASSUME IsCompiled, KernelAnswered, Covered
  PROVE  LET reacted == ResultantOf([n \in DOMAIN raw.reactions |->
                     [point |-> compiled.nodes[raw.reactions[n].node],
                      force |-> raw.reactions[n].force, freeMoment |-> raw.reactions[n].moment]])
         IN  /\ ReactionResultant(NormalizedReactions).force = ToFrame(reacted.force)
             /\ ReactionResultant(NormalizedReactions).moment = ToFrame(reacted.moment)
  <1> DEFINE S == DOMAIN ActiveSupports
             T == IdsOf(ActiveSupports)
             b == [n \in S |-> ActiveSupports[n].id]
             placed(n) == [point |-> compiled.nodes[raw.reactions[n].node],
                           force |-> raw.reactions[n].force, freeMoment |-> raw.reactions[n].moment]
             own(id) == CHOOSE x \in Range(frame.supports) : x.id = id
             named(id) == [point |-> frame.nodes[own(id).node],
                           force |-> NormalizedReactions[id].force,
                           freeMoment |-> NormalizedReactions[id].moment]
             g == [n \in S |-> placed(n)]
             h == [n \in S |-> named(b[n])]
             k == [id \in T |-> named(id)]
  <1>1. /\ WellFormed(frame) /\ ~Duplicated(frame.supports) /\ compiled.nodes = CompiledNodes
        /\ Len(ActiveSupports) \in Nat /\ DOMAIN ActiveSupports = 1..Len(ActiveSupports)
    BY NotRefused, ActiveSupportsAreListed DEF IsCompiled, Compiled
  <1>2. DOMAIN raw.reactions = S /\ DOMAIN compiled.supports = S /\ DOMAIN NormalizedReactions = T
    BY RawIsShaped, SupportIsCompiled, ReactionsAreNamed
  <1>3. IsFiniteSet(S)
    BY <1>1, UpToIsFinite
  <1>4. b \in Bijection(S, T)
    <2>1. \A m, n \in S : b[m] = b[n] => m = n
      BY <1>1, ActiveSupportsAreListed
    <2>2. b \in [S -> T] /\ \A id \in T : \E n \in S : b[n] = id
      BY DEF IdsOf
    <2> HIDE DEF b
    <2> QED BY <2>1, <2>2 DEF Bijection, Injection, Surjection, IsInjective
  <1>5. ASSUME NEW n \in S
        PROVE  /\ PlacesAlike(placed(n), named(b[n]))
               /\ named(b[n]).force \in Vectors
               /\ Plus(Cross(named(b[n]).point, named(b[n]).force), named(b[n]).freeMoment) \in Vectors
    <2> DEFINE a == ActiveSupports[n]
    <2>1. /\ a \in Range(frame.supports) /\ a.node \in NodeIds
          /\ compiled.supports[n].node = NodeNo(a.node)
      BY <1>2, SupportIsCompiled
    <2>2. PICK f \in Vectors, m \in Vectors :
            raw.reactions[n] = [node |-> compiled.supports[n].node, force |-> f, moment |-> m]
      BY <1>2, RawIsShaped
    <2>3. /\ compiled.nodes[NodeNo(a.node)] = Rotate(frame.nodes[a.node])
          /\ frame.nodes[a.node] \in Vectors
      BY <1>1, <2>1, NodesAreNumbered
    <2>4. placed(n) = [point |-> Rotate(frame.nodes[a.node]), force |-> f, freeMoment |-> m]
      BY <2>1, <2>2, <2>3
    <2>5. NormalizedReactions[a.id] = [force |-> ToFrame(f), moment |-> ToFrame(m)]
      BY <2>2, ReactionsAreNamed
    <2>6. own(a.id) = a
      <3>1. IsList(frame.supports)
        BY <1>1 DEF WellFormed
      <3>2. \A x \in Range(frame.supports) : x.id = a.id => x = a
        BY <1>1, <2>1, <3>1, IdsAreDistinct
      <3> HIDE DEF a
      <3> QED BY <2>1, <3>2
    <2>7. named(b[n]) = [point |-> frame.nodes[a.node], force |-> ToFrame(f), freeMoment |-> ToFrame(m)]
      <3>1. b[n] = a.id
        OBVIOUS
      <3>2. named(a.id) = [point |-> frame.nodes[a.node], force |-> ToFrame(f),
                           freeMoment |-> ToFrame(m)]
        <4> HIDE DEF a, own
        <4> QED BY <2>5, <2>6
      <3> HIDE DEF named, a, b
      <3> QED BY <3>1, <3>2
    <2> HIDE DEF placed, named, own, b, a
    <2>8. Rotate(frame.nodes[a.node]) \in Vectors
          /\ InverseRotate(Rotate(frame.nodes[a.node])) = frame.nodes[a.node]
      BY <2>3, VectorsAreClosed, RotateIsInverted
    <2>9. PlacesAlike(placed(n), named(b[n]))
      BY <2>4, <2>7, <2>8, PlacedInTheFrame
    <2>10. ToFrame(f) \in Vectors /\ ToFrame(m) \in Vectors
      BY MomentIsReadBack
    <2>11. Plus(Cross(frame.nodes[a.node], ToFrame(f)), ToFrame(m)) \in Vectors
      BY <2>3, <2>10, VectorsAreClosed
    <2> QED BY <2>7, <2>9, <2>10, <2>11
  <1>6. ReactionResultant(NormalizedReactions) = ResultantOf(k)
    BY <1>2 DEF ReactionResultant
  <1> HIDE DEF placed, named, b
  <1>7. ResultantOf(h).force = ToFrame(ResultantOf(g).force)
        /\ ResultantOf(h).moment = ToFrame(ResultantOf(g).moment)
    <2>1. \A n \in S : PlacesAlike(g[n], h[n])
      BY <1>5
    <2>2. DOMAIN g = S /\ DOMAIN h = S
      OBVIOUS
    <2> HIDE DEF g, h, S
    <2> QED BY <1>3, <2>1, <2>2, ResultantIsReadBack
  <1>8. ResultantOf(h) = ResultantOf(k)
    <2> DEFINE hf == [n \in S |-> h[n].force]
               kf == [id \in T |-> k[id].force]
               hm == [n \in S |-> Plus(Cross(h[n].point, h[n].force), h[n].freeMoment)]
               km == [id \in T |-> Plus(Cross(k[id].point, k[id].force), k[id].freeMoment)]
    <2>1. \A n \in S : b[n] \in T /\ h[n] = k[b[n]]
      BY <1>4 DEF Bijection, Injection
    <2>2. \A id \in T : \E n \in S : b[n] = id
      BY <1>4 DEF Bijection, Surjection
    <2>3. \A n \in S : hf[n] \in Vectors /\ hm[n] \in Vectors /\ hf[n] = kf[b[n]] /\ hm[n] = km[b[n]]
      BY <1>5, <2>1
    <2>4. \A id \in T : kf[id] \in Vectors /\ km[id] \in Vectors
      BY <2>2, <2>3
    <2>5. /\ hf \in [S -> Vectors] /\ hm \in [S -> Vectors]
          /\ kf \in [T -> Vectors] /\ km \in [T -> Vectors]
      BY <2>3, <2>4
    <2>6. /\ ResultantOf(h) = [force |-> SumVectors(hf), moment |-> SumVectors(hm)]
          /\ ResultantOf(k) = [force |-> SumVectors(kf), moment |-> SumVectors(km)]
      BY DEF ResultantOf
    <2> HIDE DEF h, k, hf, kf, hm, km, S, T
    <2>7. SumVectors(hf) = SumVectors(kf)
      BY <1>3, <1>4, <2>3, <2>5, SumVectorsRenamed
    <2>8. SumVectors(hm) = SumVectors(km)
      BY <1>3, <1>4, <2>3, <2>5, SumVectorsRenamed
    <2> QED BY <2>6, <2>7, <2>8
  <1> QED BY <1>2, <1>6, <1>7, <1>8 DEF placed

-----------------------------------------------------------------------------
(* The inductive invariant: what each stage leaves behind.                 *)

AnswerIsRead ==
  answer = [nodes |-> NormalizedNodes, reactions |-> NormalizedReactions,
            elements |-> NormalizedElements, connectors |-> NormalizedConnectors,
            constraints |-> NormalizedConstraintForces, diagnostics |-> NormalizedDiagnoses,
            stations |-> answer.stations]

BridgeInv ==
  /\ WellFormed(frame)
  /\ stage \in {"contacts", "frame", "compiled", "solved", "answered", "recovered", "refused"}
  /\ stage \in {"compiled", "solved", "answered", "recovered"} => IsCompiled
  /\ stage \in {"solved", "answered", "recovered"} => KernelAnswered
  /\ Answered => ~Corrupt /\ AnswerIsRead

LEMMA InitBridgeInv == Init => BridgeInv
  BY FramesAssumption DEF Init, Asking, BridgeInv, Answered

(* What a request compiles to depends on the request only.                 *)
LEMMA FrameStays ==
  ASSUME UNCHANGED frame
  PROVE  Compiled' = Compiled /\ CompileRefusal' = CompileRefusal
  <1>1. NodeIds' = NodeIds /\ CompiledNodes' = CompiledNodes
    BY DEF NodeIds, CompiledNodes
  <1>2. CompiledElements' = CompiledElements
    BY DEF CompiledElements, Delta, ElementNo, NodeNo, NodeIds
  <1>3. ActiveSupports' = ActiveSupports
    BY DEF ActiveSupports
  <1>4. CompiledSupports' = CompiledSupports
    BY DEF CompiledSupports, ActiveSupports, SupportNo, NodeNo, NodeIds
  <1>5. CompiledConstraints' = CompiledConstraints
    BY DEF CompiledConstraints, CompiledConstraint, NodeNo, NodeIds
  <1>6. CompiledConnectors' = CompiledConnectors
    BY DEF CompiledConnectors, NodeNo, NodeIds
  <1>7. [n \in DOMAIN frame.loads |-> CompiledLoad(frame.loads[n])]'
          = [n \in DOMAIN frame.loads |-> CompiledLoad(frame.loads[n])]
    BY DEF CompiledLoad, LocalForce, Metres, Length, Delta, ElementNo, ElementOf, NodeNo, NodeIds
  <1>8. Applied' = Applied
    BY DEF Applied, ElementOf, Length, Delta
  <1>9. Compiled' = Compiled
    BY <1>1, <1>2, <1>4, <1>5, <1>6, <1>7, <1>8 DEF Compiled
  <1>10. CompileRefusal' = CompileRefusal
    BY DEF CompileRefusal, TriadRefusal, SupportRefusal, LoadRefusal, NodesRefusal, FirstRefusal, Ended,
           NodesOf, NodeIds, ActiveSupports, LoadRefused, LocalForce, Along, Length, Delta, ElementOf
  <1> QED BY <1>9, <1>10

LEMMA ModelStays ==
  ASSUME UNCHANGED <<frame, compiled>>
  PROVE  /\ IsCompiled' = IsCompiled
         /\ Displacements' = Displacements /\ ConstraintForces' = ConstraintForces
         /\ \A u, forces : Whole(u, forces)' = Whole(u, forces)
  <1>1. IsCompiled' = IsCompiled
    BY FrameStays DEF IsCompiled
  <1>2. Displacements' = Displacements
    BY DEF Displacements, Restrained, SupportsAt, PrescribedAt, Dependent, Owners, Owner, Followed, Offset
  <1>3. ConstraintForces' = ConstraintForces
    BY DEF ConstraintForces, Dependent, Restrained, SupportsAt, Owners
  <1>4. \A u, forces : Whole(u, forces)' = Whole(u, forces)
    BY DEF Whole, Reactions, Carrier, Sent, Placed, KernelAxis
  <1> QED BY <1>1, <1>2, <1>3, <1>4

LEMMA AnswerStays ==
  ASSUME UNCHANGED <<frame, compiled, raw>>
  PROVE  /\ IsCompiled' = IsCompiled /\ (KernelAnswered' <=> KernelAnswered) /\ Corrupt' = Corrupt
         /\ NormalizedNodes' = NormalizedNodes /\ NormalizedReactions' = NormalizedReactions
         /\ NormalizedElements' = NormalizedElements /\ NormalizedConnectors' = NormalizedConnectors
         /\ NormalizedConstraintForces' = NormalizedConstraintForces
         /\ NormalizedDiagnoses' = NormalizedDiagnoses
  <1>1. IsCompiled' = IsCompiled
    BY ModelStays
  <1>2. KernelAnswered' <=> KernelAnswered
    BY ModelStays DEF KernelAnswered
  <1>3. NormalizedNodes' = NormalizedNodes
    BY DEF NormalizedNodes, MotionOf, NodeNo, NodeIds
  <1>4. NormalizedReactions' = NormalizedReactions
    BY DEF NormalizedReactions, SupportNodes, SupportAt, ActiveSupports, NodeNo, NodeIds
  <1>5. NormalizedElements' = NormalizedElements
    BY DEF NormalizedElements, ElementOf, ElementNo, Delta
  <1>6. NormalizedConnectors' = NormalizedConnectors
    BY DEF NormalizedConnectors, MotionOf, NodeNo, NodeIds
  <1>7. NormalizedConstraintForces' = NormalizedConstraintForces
    BY DEF NormalizedConstraintForces, Attributed, Candidates, TermOf
  <1>8. NormalizedDiagnoses' = NormalizedDiagnoses
    BY DEF NormalizedDiagnoses, Kept
  <1>9. Corrupt' = Corrupt
    <2>1. Covered' = Covered
      BY DEF Covered, SupportNodes, ActiveSupports, NodeNo, NodeIds
    <2>2. ReactionResultant(NormalizedReactions)' = ReactionResultant(NormalizedReactions)
      BY <1>4 DEF ReactionResultant
    <2>3. (\E f \in Range(raw.forces) : Candidates(f) = {})'
            = (\E f \in Range(raw.forces) : Candidates(f) = {})
      BY DEF Candidates
    <2> QED BY <2>1, <2>2, <2>3 DEF Corrupt
  <1> QED BY <1>1, <1>2, <1>3, <1>4, <1>5, <1>6, <1>7, <1>8, <1>9

LEMMA BridgeStep ==
  ASSUME BridgeInv, [Next]_vars
  PROVE  BridgeInv'
  <1>1. CASE Compile
    <2>1. CASE CompileRefusal # "NONE"
      BY <1>1, <2>1 DEF Compile, BridgeInv, Answered
    <2>2. CASE CompileRefusal = "NONE"
      <3>1. stage' = "compiled" /\ frame' = frame /\ compiled' = Compiled
        BY <1>1, <2>2 DEF Compile, Compiled
      <3>2. Compiled' = Compiled /\ CompileRefusal' = CompileRefusal
        BY <3>1, FrameStays
      <3>3. WellFormed(frame)'
        BY <3>1 DEF BridgeInv
      <3>4. IsCompiled'
        BY <2>2, <3>1, <3>2, <3>3 DEF IsCompiled
      <3> QED BY <3>1, <3>4 DEF BridgeInv, Answered
    <2> QED BY <2>1, <2>2
  <1>2. CASE Solve
    <2>1. UNCHANGED <<frame, compiled>> /\ stage = "compiled"
      BY <1>2 DEF Solve
    <2>2. IsCompiled /\ IsCompiled' /\ WellFormed(frame)'
      BY <2>1, ModelStays DEF BridgeInv
    <2>3. CASE stage' = "refused"
      BY <2>2, <2>3 DEF BridgeInv, Answered
    <2>4. CASE stage' # "refused"
      <3>1. stage' = "solved"
            /\ \E u \in Displacements, forces \in {ConstraintForces, <<>>} :
                 raw' \in {Whole(u, forces)} \cup Spoilt(Whole(u, forces))
        BY <1>2, <2>4 DEF Solve
      <3>2. KernelAnswered'
        BY <2>1, <3>1, ModelStays DEF KernelAnswered
      <3> QED BY <2>2, <3>1, <3>2 DEF BridgeInv, Answered
    <2> QED BY <2>3, <2>4
  <1>3. CASE Normalize
    <2>1. UNCHANGED <<frame, compiled, raw>> /\ stage = "solved"
      BY <1>3 DEF Normalize
    <2>2. IsCompiled' /\ KernelAnswered' /\ WellFormed(frame)' /\ Corrupt' = Corrupt
      BY <2>1, AnswerStays DEF BridgeInv
    <2>3. CASE Corrupt
      BY <1>3, <2>2, <2>3 DEF Normalize, BridgeInv, Answered
    <2>4. CASE ~Corrupt
      <3>1. stage' = "answered"
            /\ answer' = [nodes |-> NormalizedNodes, reactions |-> NormalizedReactions,
                          elements |-> NormalizedElements, connectors |-> NormalizedConnectors,
                          constraints |-> NormalizedConstraintForces,
                          diagnostics |-> NormalizedDiagnoses, stations |-> {}]
        BY <1>3, <2>4 DEF Normalize
      <3>2. AnswerIsRead'
        BY <2>1, <3>1, AnswerStays DEF AnswerIsRead
      <3> QED BY <2>2, <2>4, <3>1, <3>2 DEF BridgeInv, Answered
    <2> QED BY <2>3, <2>4
  <1>4. CASE Recover
    <2>1. UNCHANGED <<frame, compiled, raw>> /\ stage = "answered"
      BY <1>4 DEF Recover
    <2>2. IsCompiled' /\ KernelAnswered' /\ WellFormed(frame)' /\ ~Corrupt'
      BY <2>1, AnswerStays DEF BridgeInv, Answered
    <2>3. CASE stage' = "refused"
      BY <2>2, <2>3 DEF BridgeInv, Answered
    <2>4. CASE stage' # "refused"
      <3>1. PICK ask \in StationAsks :
              /\ stage' = "recovered"
              /\ answer' = [answer EXCEPT !.stations =
                   {[element |-> id,
                     start |-> ToSolver((CHOOSE x \in Range(raw.elements) :
                                           x.no = ElementNo(ElementOf(id))).start)] :
                      id \in Range(ask)}]
        BY <1>4, <2>4 DEF Recover
      <3>2. AnswerIsRead
        BY <2>1 DEF BridgeInv, Answered
      <3> DEFINE stations == {[element |-> id,
                               start |-> ToSolver((CHOOSE x \in Range(raw.elements) :
                                                     x.no = ElementNo(ElementOf(id))).start)] :
                                id \in Range(ask)}
      <3>3. answer' = [answer EXCEPT !.stations = stations]
        BY <3>1
      <3> HIDE DEF stations
      <3>4. answer' = [nodes |-> NormalizedNodes, reactions |-> NormalizedReactions,
                       elements |-> NormalizedElements, connectors |-> NormalizedConnectors,
                       constraints |-> NormalizedConstraintForces,
                       diagnostics |-> NormalizedDiagnoses, stations |-> stations]
        BY <3>2, <3>3 DEF AnswerIsRead
      <3>5. AnswerIsRead'
        BY <2>1, <3>4, AnswerStays DEF AnswerIsRead
      <3> QED BY <2>2, <3>1, <3>5 DEF BridgeInv, Answered
    <2> QED BY <2>3, <2>4
  <1>5. CASE UNCHANGED vars
    <2>1. UNCHANGED <<frame, compiled, raw>> /\ stage' = stage /\ answer' = answer
      BY <1>5 DEF vars
    <2>2. AnswerIsRead => AnswerIsRead'
      BY <2>1, AnswerStays DEF AnswerIsRead
    <2> QED BY <2>1, <2>2, AnswerStays DEF BridgeInv, Answered
  <1> QED BY <1>1, <1>2, <1>3, <1>4, <1>5 DEF Next

LEMMA BridgeInvHolds == Spec => []BridgeInv
  <1>1. Init => BridgeInv
    BY InitBridgeInv
  <1>2. BridgeInv /\ [Next]_vars => BridgeInv'
    BY BridgeStep
  <1> QED BY <1>1, <1>2, PTL DEF Spec

LEMMA AnsweredHasAll ==
  ASSUME BridgeInv, Answered
  PROVE  /\ IsCompiled /\ KernelAnswered /\ Covered /\ ~Corrupt
         /\ answer.nodes = NormalizedNodes /\ answer.reactions = NormalizedReactions
         /\ answer.elements = NormalizedElements /\ answer.connectors = NormalizedConnectors
         /\ answer.constraints = NormalizedConstraintForces
  BY DEF BridgeInv, Answered, Corrupt, AnswerIsRead

-----------------------------------------------------------------------------
LEMMA AnswerIsComplete == BridgeInv => TypeOK
  <1>1. ASSUME BridgeInv
        PROVE  TypeOK
    <2>1. stage \in {"contacts", "frame", "compiled", "solved", "answered", "recovered", "refused"}
      BY <1>1 DEF BridgeInv
    <2>2. ASSUME Answered
          PROVE  /\ DOMAIN answer.nodes = NodeIds
                 /\ DOMAIN answer.reactions = IdsOf(ActiveSupports)
                 /\ DOMAIN answer.elements = IdsOf(frame.elements)
                 /\ DOMAIN answer.connectors = IdsOf(frame.connectors)
                 /\ Len(raw.nodes) = Cardinality(NodeIds)
                 /\ Len(raw.reactions) = Len(ActiveSupports)
      <3>1. /\ IsCompiled /\ KernelAnswered /\ Covered
            /\ answer.nodes = NormalizedNodes /\ answer.reactions = NormalizedReactions
            /\ answer.elements = NormalizedElements /\ answer.connectors = NormalizedConnectors
        BY <1>1, <2>2, AnsweredHasAll
      <3>2. /\ DOMAIN answer.nodes = NodeIds /\ DOMAIN answer.elements = IdsOf(frame.elements)
            /\ DOMAIN answer.connectors = IdsOf(frame.connectors)
        BY <3>1 DEF NormalizedNodes, NormalizedElements, NormalizedConnectors
      <3>3. DOMAIN answer.reactions = IdsOf(ActiveSupports)
        BY <3>1, ReactionsAreNamed
      <3>4. Len(raw.reactions) = Len(ActiveSupports)
        BY <3>1, RawIsShaped
      <3>5. Len(raw.nodes) = Cardinality(NodeIds)
        BY <3>1, NodesAreRead
      <3> QED BY <3>2, <3>3, <3>4, <3>5
    <2> QED BY <2>1, <2>2 DEF TypeOK
  <1> QED BY <1>1

(* A result names every node, active support, element and connector of the *)
(* frame, once, and nothing else: the numbers given to the kernel are      *)
(* turned back into names, and an answer that leaves out, repeats or adds  *)
(* a number is refused (normalize.rs: require_unique_complete).            *)
THEOREM ResultsAreComplete == Spec => []TypeOK
  BY AnswerIsComplete, BridgeInvHolds, PTL

LEMMA AnswerBalances == BridgeInv => AcceptedResultBalances
  <1>1. ASSUME BridgeInv
        PROVE  AcceptedResultBalances
    <2> DEFINE back(r) == [force |-> InverseRotate(ToSolver(r.force)),
                           moment |-> InverseRotate(ToSolver(r.moment))]
               reacted == ResultantOf([n \in DOMAIN raw.reactions |->
                     [point |-> compiled.nodes[raw.reactions[n].node],
                      force |-> raw.reactions[n].force, freeMoment |-> raw.reactions[n].moment]])
               weighed == ReactionResultant(NormalizedReactions)
    <2>1. ASSUME Answered
          PROVE  Accepted(back(Sent), back(reacted))
      <3>1. IsCompiled /\ KernelAnswered /\ Covered /\ ~Corrupt
        BY <1>1, <2>1, AnsweredHasAll
      <3>2. compiled.applied.force = ToFrame(Sent.force) /\ compiled.applied.moment = ToFrame(Sent.moment)
        BY <3>1, SentIsApplied
      <3>3. weighed.force = ToFrame(reacted.force) /\ weighed.moment = ToFrame(reacted.moment)
        BY <3>1, ReactedIsWeighed
      <3>4. Accepted(compiled.applied, weighed)
        BY <3>1 DEF Corrupt
      <3> HIDE DEF reacted, weighed
      <3>5. /\ back(Sent).force = compiled.applied.force /\ back(Sent).moment = compiled.applied.moment
            /\ back(reacted).force = weighed.force /\ back(reacted).moment = weighed.moment
        BY <3>2, <3>3 DEF ToFrame
      <3> HIDE DEF back
      <3> QED BY <3>4, <3>5 DEF Accepted
    <2> QED BY <2>1 DEF AcceptedResultBalances
  <1> QED BY <1>1

(* A result balances the loads as the kernel was given them, placed along  *)
(* the compiled elements and about the kernel's origin, to within the      *)
(* audit's tolerance: what the audit weighs is the frame's own resultant,  *)
(* computed on another path, against reactions already renamed and turned, *)
(* and the two paths agree exactly (compile.rs: compile_loads and          *)
(* calculate_resultant; equilibrium.rs).                                   *)
THEOREM ResultsBalance == Spec => []AcceptedResultBalances
  BY AnswerBalances, BridgeInvHolds, PTL

-----------------------------------------------------------------------------
(* Constraint forces.                                                      *)

LEMMA DofsAreCounted ==
  ASSUME NEW k \in Int, NEW count \in Nat, k \in 1..6 * count
  PROVE  /\ (k + 5) \div 6 \in 1..count /\ (k - 1) % 6 \in 0..5
         /\ k = 6 * (((k + 5) \div 6) - 1) + ((k - 1) % 6) + 1
  <1>1. k >= 1 /\ k <= 6 * count
    OBVIOUS
  <1> QED BY <1>1, Z3

(* The kernel has one force for each dof that a constraint eliminated.     *)
LEMMA ForcesAreOfDependents ==
  ASSUME IsCompiled
  PROVE  /\ \E k \in Nat : DOMAIN ConstraintForces = 1..k
         /\ \A n \in DOMAIN ConstraintForces :
              \E i \in DOMAIN compiled.nodes, d \in Dofs :
                /\ ConstraintForces[n] = [node |-> i, dof |-> d, value |-> 1 + d]
                /\ Dependent(i, d)
         /\ \A m, n \in DOMAIN ConstraintForces :
              ConstraintForces[m] = ConstraintForces[n] => m = n
  <1> DEFINE count == Cardinality(NodeIds)
             node(k) == (k + 5) \div 6
             dof(k) == (k - 1) % 6
             all == 1..6 * count
             forces == [k \in all |-> [node |-> node(k), dof |-> dof(k), value |-> 1 + dof(k)]]
             held == {k \in all : Dependent(node(k), dof(k))}
  <1>1. compiled.nodes = CompiledNodes /\ WellFormed(frame)
    BY DEF IsCompiled, Compiled
  <1>2. count \in Nat /\ DOMAIN compiled.nodes = 1..count
    BY <1>1, NodesAreNumbered
  <1>3. ConstraintForces = Kept(forces, held)
    <2>1. Cardinality(DOMAIN compiled.nodes) = count
      BY <1>2, UpToIsFinite
    <2> QED BY <2>1 DEF ConstraintForces
  <1>4. \A k \in all : /\ node(k) \in 1..count /\ dof(k) \in 0..5 /\ k \in Int
                       /\ k = 6 * (node(k) - 1) + dof(k) + 1
    BY <1>2, DofsAreCounted
  <1>5. held \in SUBSET all /\ held \in SUBSET Int /\ IsFiniteSet(held)
    <2>1. 6 * count \in Nat
      BY <1>2
    <2>2. IsFiniteSet(all)
      BY <2>1, UpToIsFinite
    <2>3. held \subseteq all /\ all \subseteq Int
      OBVIOUS
    <2> HIDE DEF held, all
    <2> QED BY <2>2, <2>3, FS_Subset
  <1>6. \A k \in held : /\ forces[k] = [node |-> node(k), dof |-> dof(k), value |-> 1 + dof(k)]
                        /\ Dependent(node(k), dof(k))
    OBVIOUS
  <1> HIDE DEF held, all, forces, node, dof
  <1>7. /\ Cardinality(held) \in Nat /\ DOMAIN ConstraintForces = 1..Cardinality(held)
        /\ \E at \in Bijection(1..Cardinality(held), held) :
             \A n \in 1..Cardinality(held) : ConstraintForces[n] = forces[at[n]]
    BY <1>3, <1>5, KeptTakesEach
  <1>8. PICK at \in Bijection(1..Cardinality(held), held) :
          \A n \in 1..Cardinality(held) : ConstraintForces[n] = forces[at[n]]
    BY <1>7
  <1>9. /\ \A n \in DOMAIN ConstraintForces : at[n] \in held
        /\ \A m, n \in DOMAIN ConstraintForces : at[m] = at[n] => m = n
    BY <1>7 DEF Bijection, Injection, IsInjective
  <1>10. ASSUME NEW n \in DOMAIN ConstraintForces
         PROVE  \E i \in DOMAIN compiled.nodes, d \in Dofs :
                  /\ ConstraintForces[n] = [node |-> i, dof |-> d, value |-> 1 + d]
                  /\ Dependent(i, d)
    <2>1. /\ ConstraintForces[n] = [node |-> node(at[n]), dof |-> dof(at[n]), value |-> 1 + dof(at[n])]
          /\ Dependent(node(at[n]), dof(at[n]))
      BY <1>6, <1>7, <1>8, <1>9
    <2>2. node(at[n]) \in DOMAIN compiled.nodes /\ dof(at[n]) \in Dofs
      BY <1>2, <1>4, <1>5, <1>9 DEF Dofs
    <2> QED BY <2>1, <2>2
  <1>11. ASSUME NEW m \in DOMAIN ConstraintForces, NEW n \in DOMAIN ConstraintForces,
                ConstraintForces[m] = ConstraintForces[n]
         PROVE  m = n
    <2>1. node(at[m]) = node(at[n]) /\ dof(at[m]) = dof(at[n])
      <3>1. forces[at[m]] = forces[at[n]]
        BY <1>7, <1>8, <1>11
      <3>2. [node |-> node(at[m]), dof |-> dof(at[m]), value |-> 1 + dof(at[m])]
              = [node |-> node(at[n]), dof |-> dof(at[n]), value |-> 1 + dof(at[n])]
        BY <1>6, <1>9, <3>1
      <3> QED BY <3>2
    <2>2. /\ at[m] = 6 * (node(at[m]) - 1) + dof(at[m]) + 1
          /\ at[n] = 6 * (node(at[n]) - 1) + dof(at[n]) + 1
      BY <1>4, <1>5, <1>9
    <2>3. at[m] = at[n]
      BY <2>1, <2>2
    <2> QED BY <1>9, <2>3
  <1> QED BY <1>7, <1>10, <1>11

(* Those of an answer that is not refused are all of them or none.         *)
LEMMA ForcesAreTheKernels ==
  ASSUME IsCompiled, KernelAnswered, ~Corrupt
  PROVE  raw.forces = ConstraintForces \/ raw.forces = <<>>
  <1> DEFINE odd == [node |-> 1, dof |-> 6, value |-> 1]
  <1>1. \/ raw.forces = ConstraintForces \/ raw.forces = <<>>
        \/ raw.forces = Append(ConstraintForces, odd) \/ raw.forces = Append(<<>>, odd)
    BY RawIsShaped
  <1>2. odd \notin Range(raw.forces)
    <2>1. Candidates(odd) = {}
      BY DEF Candidates, Dofs
    <2> HIDE DEF odd
    <2> QED BY <2>1 DEF Corrupt
  <1> DEFINE Y == {ConstraintForces[n] : n \in DOMAIN ConstraintForces} \cup {odd}
  <1> HIDE DEF odd
  <1>3. ASSUME NEW s \in Seq(Y)
        PROVE  odd \in Range(Append(s, odd))
    <2>1. odd \in Y
      OBVIOUS
    <2> HIDE DEF Y
    <2>2. Len(s) + 1 \in DOMAIN Append(s, odd) /\ Append(s, odd)[Len(s) + 1] = odd
      BY <2>1
    <2> QED BY <2>2 DEF Range
  <1>4. ConstraintForces \in Seq(Y)
    <2>1. PICK k \in Nat : DOMAIN ConstraintForces = 1..k
      BY ForcesAreOfDependents
    <2>2. ConstraintForces = [n \in DOMAIN ConstraintForces |-> ConstraintForces[n]]
      BY DEF ConstraintForces, Kept
    <2>3. ConstraintForces \in [1..k -> Y]
      BY <2>1, <2>2
    <2> HIDE DEF Y
    <2> QED BY <2>3, FunctionIsAList
  <1>5. <<>> \in Seq(Y)
    <2> HIDE DEF Y
    <2> QED OBVIOUS
  <1> QED BY <1>1, <1>2, <1>3, <1>4, <1>5

(* The owner of a dof names it.                                            *)
LEMMA OwnerIsACandidate ==
  ASSUME IsCompiled, NEW i \in DOMAIN compiled.nodes, NEW d \in Dofs, Dependent(i, d)
  PROVE  /\ Owner(i, d) \in DOMAIN frame.constraints
         /\ Names(frame.constraints[Owner(i, d)], compiled.nodeIds[i], FrameDof[d + 1])
  <1> DEFINE c == frame.constraints[Owner(i, d)]
             k == CompiledConstraint(c)
  <1>1. Owners(i, d) # {}
    BY DEF Dependent
  <1>2. /\ Owner(i, d) \in DOMAIN frame.constraints /\ c \in Range(frame.constraints)
        /\ <<i, d>> \in Eliminates(k)
    BY <1>1, OwnerIsTheLast
  <1>3. compiled.nodeIds = Sorted(NodeIds) /\ WellFormed(frame)
    BY DEF IsCompiled, Compiled
  <1>4. \A id \in NodeIds : NodeNo(id) = i => compiled.nodeIds[i] = id
    BY <1>3, NodesAreNumbered
  <1> HIDE DEF c, k
  <1>5. CASE c.kind = "LINEAR_MPC"
    <2>1. /\ k.kind = "MPC" /\ DOMAIN k.terms = 1..Len(c.terms) /\ Len(c.terms) \in Nat
          /\ DOMAIN c.terms = 1..Len(c.terms)
          /\ \A n \in DOMAIN k.terms :
               /\ c.terms[n].node \in NodeIds /\ c.terms[n].dof \in DOMAIN SdkDof
               /\ c.terms[n].coefficient \in Int
               /\ k.terms[n] = [node |-> NodeNo(c.terms[n].node), dof |-> SdkDof[c.terms[n].dof],
                                coefficient |-> c.terms[n].coefficient]
          /\ \E n \in DOMAIN k.terms : c.terms[n].coefficient # 0
      BY <1>2, <1>3, <1>5, ConstraintIsCompiled DEF k
    <2> DEFINE at == DependentTerm(k.terms)
    <2>2. \A n \in DOMAIN k.terms : k.terms[n].coefficient = c.terms[n].coefficient
      <3> TAKE n \in DOMAIN k.terms
      <3>1. k.terms[n] = [node |-> NodeNo(c.terms[n].node), dof |-> SdkDof[c.terms[n].dof],
                          coefficient |-> c.terms[n].coefficient]
        BY <2>1
      <3> QED BY <3>1
    <2>3. at \in DOMAIN k.terms
      <3>1. \A n \in DOMAIN k.terms : k.terms[n].coefficient \in Int
        BY <2>1, <2>2
      <3>2. PICK some \in DOMAIN k.terms : k.terms[some].coefficient # 0
        BY <2>1, <2>2
      <3> QED BY <2>1, <3>1, <3>2, DependentTermIsOne
    <2>4. <<i, d>> = <<k.terms[at].node, k.terms[at].dof>>
      BY <1>2, <2>1 DEF Eliminates
    <2> HIDE DEF at
    <2>5. k.terms[at] = [node |-> NodeNo(c.terms[at].node), dof |-> SdkDof[c.terms[at].dof],
                         coefficient |-> c.terms[at].coefficient]
      BY <2>1, <2>3
    <2>6. NodeNo(c.terms[at].node) = i /\ SdkDof[c.terms[at].dof] = d
      BY <2>4, <2>5
    <2>7. compiled.nodeIds[i] = c.terms[at].node
      BY <1>4, <2>1, <2>3, <2>6
    <2>8. FrameDof[d + 1] = c.terms[at].dof
      BY <2>1, <2>3, <2>6, SdkDofIsADof
    <2>9. c.terms[at] \in Range(c.terms)
      BY <2>1, <2>3 DEF Range
    <2> QED BY <1>2, <1>5, <2>7, <2>8, <2>9 DEF Names, c
  <1>6. CASE c.kind # "LINEAR_MPC"
    <2>1. c.slave \in NodeIds /\ k.slave = NodeNo(c.slave) /\ k.kind # "MPC"
      <3>1. c.slave \in NodeIds /\ k.slave = NodeNo(c.slave)
        BY <1>2, <1>3, <1>6, ConstraintIsCompiled DEF k
      <3>2. k.kind # "MPC"
        <4>1. CASE c.kind = "ECCENTRIC_CONNECTION"
          BY <1>2, <1>3, <1>6, <4>1, ConstraintIsCompiled DEF k
        <4>2. CASE c.kind # "ECCENTRIC_CONNECTION"
          <5>1. k.kind = c.kind /\ c.kind \in {"RIGID_LINK", "EQUAL_DOF"}
            BY <1>2, <1>3, <1>6, <4>2, ConstraintIsCompiled DEF k
          <5> QED BY <5>1
        <4> QED BY <4>1, <4>2
      <3> QED BY <3>1, <3>2
    <2>2. i = k.slave /\ d \in k.dofs
      BY <1>2, <2>1 DEF Eliminates
    <2>3. compiled.nodeIds[i] = c.slave
      BY <1>4, <2>1, <2>2
    <2>4. CASE c.kind = "ECCENTRIC_CONNECTION"
      <3>1. k.dofs = {e \in Dofs : ReleaseOrder[e + 1] \notin c.releases}
        BY <1>2, <1>3, <1>6, <2>4, ConstraintIsCompiled DEF k
      <3>2. FrameDof[d + 1] \notin c.releases
        BY <2>2, <3>1, SdkDofIsADof
      <3> QED BY <1>2, <2>3, <2>4, <3>2 DEF Names, c
    <2>5. CASE c.kind # "ECCENTRIC_CONNECTION"
      <3>1. k.dofs = {SdkDof[e] : e \in c.dofs} /\ c.dofs \subseteq DOMAIN SdkDof
        BY <1>2, <1>3, <1>6, <2>5, ConstraintIsCompiled DEF k
      <3>2. FrameDof[d + 1] \in c.dofs
        BY <2>2, <3>1, SdkDofIsADof
      <3> QED BY <1>2, <1>6, <2>3, <2>5, <3>2 DEF Names, c
    <2> QED BY <2>4, <2>5
  <1> QED BY <1>5, <1>6

\* A force the kernel reported for the dof d of node i.
ReportedAt(f, i, d) == f = [node |-> i, dof |-> d, value |-> 1 + d]

LEMMA ReportedForces ==
  ASSUME IsCompiled, KernelAnswered, ~Corrupt
  PROVE  /\ \A f \in Range(raw.forces) :
              \E i \in DOMAIN compiled.nodes, d \in Dofs : ReportedAt(f, i, d) /\ Dependent(i, d)
         /\ IsFiniteSet(Range(raw.forces)) /\ Cardinality(Range(raw.forces)) = Len(raw.forces)
  <1>1. CASE raw.forces = ConstraintForces
    <2>1. PICK k \in Nat : DOMAIN raw.forces = 1..k
      BY <1>1, ForcesAreOfDependents
    <2>2. Range(raw.forces) = {raw.forces[n] : n \in DOMAIN raw.forces}
      BY DEF Range
    <2>3. \A f \in Range(raw.forces) :
            \E i \in DOMAIN compiled.nodes, d \in Dofs : ReportedAt(f, i, d) /\ Dependent(i, d)
      BY <1>1, <2>2, ForcesAreOfDependents DEF ReportedAt
    <2>4. raw.forces \in Surjection(1..k, Range(raw.forces))
          /\ raw.forces \in Injection(1..k, Range(raw.forces))
      <3>1. raw.forces = [n \in 1..k |-> raw.forces[n]]
        BY <1>1, <2>1 DEF ConstraintForces, Kept
      <3>2. \A m, n \in 1..k : raw.forces[m] = raw.forces[n] => m = n
        BY <1>1, <2>1, ForcesAreOfDependents
      <3>3. raw.forces \in [1..k -> Range(raw.forces)]
        BY <2>1, <2>2, <3>1
      <3> QED BY <2>1, <2>2, <3>2, <3>3 DEF Surjection, Injection, IsInjective
    <2>5. IsFiniteSet(1..k) /\ Cardinality(1..k) = k
      BY UpToIsFinite
    <2>6. IsFiniteSet(Range(raw.forces)) /\ Cardinality(Range(raw.forces)) = k
      BY <2>4, <2>5, FS_Surjection
    <2>7. Len(raw.forces) = k
      BY <2>1
    <2> QED BY <2>3, <2>6, <2>7
  <1>2. CASE raw.forces = <<>>
    <2>1. Range(raw.forces) = {} /\ Len(raw.forces) = 0
      BY <1>2 DEF Range
    <2> QED BY <2>1, FS_EmptySet
  <1> QED BY <1>1, <1>2, ForcesAreTheKernels

LEMMA AnswerIsAttributed == BridgeInv => ConstraintForcesAreAttributed
  <1>1. ASSUME BridgeInv, Answered
        PROVE  /\ \A f \in Range(raw.forces) :
                    Attributed(f) # "AGGREGATED_AMBIGUOUS" =>
                      Attributed(f) = frame.constraints[Owner(f.node, f.dof)].id
               /\ SumFunction([key \in DOMAIN answer.constraints |->
                                 Cardinality(answer.constraints[key])]) = Len(raw.forces)
    <2> DEFINE R == Range(raw.forces)
               class(key) == {g \in R : Attributed(g) = key}
               terms(key) == {TermOf(f) : f \in class(key)}
               keys == {Attributed(f) : f \in R}
               attributed == [f \in R |-> Attributed(f)]
    <2>1. /\ IsCompiled /\ KernelAnswered /\ ~Corrupt
          /\ answer.constraints = NormalizedConstraintForces
      BY <1>1, AnsweredHasAll
    <2>2. /\ \A f \in R : \E i \in DOMAIN compiled.nodes, d \in Dofs :
                            ReportedAt(f, i, d) /\ Dependent(i, d)
          /\ IsFiniteSet(R) /\ Cardinality(R) = Len(raw.forces)
      BY <2>1, ReportedForces
    <2>3. ASSUME NEW f \in R, Attributed(f) # "AGGREGATED_AMBIGUOUS"
          PROVE  Attributed(f) = frame.constraints[Owner(f.node, f.dof)].id
      <3>1. PICK i \in DOMAIN compiled.nodes, d \in Dofs : ReportedAt(f, i, d) /\ Dependent(i, d)
        BY <2>2
      <3>2. f.node = i /\ f.dof = d
        BY <3>1 DEF ReportedAt
      <3>3. Owner(i, d) \in Candidates(f)
        BY <2>1, <3>1, <3>2, OwnerIsACandidate DEF Candidates
      <3>4. Cardinality(Candidates(f)) = 1
            /\ Attributed(f) = frame.constraints[CHOOSE k \in Candidates(f) : TRUE].id
        BY <2>3 DEF Attributed
      <3>5. Candidates(f) = {Owner(i, d)}
        <4>1. Candidates(f) \subseteq DOMAIN frame.constraints
          BY DEF Candidates
        <4>2. IsFiniteSet(DOMAIN frame.constraints)
          BY <2>1, ListIsFinite DEF IsCompiled, WellFormed
        <4>3. IsFiniteSet(Candidates(f))
          BY <4>1, <4>2, FS_Subset
        <4>4. PICK x : Candidates(f) = {x}
          BY <3>4, <4>3, FS_Singleton
        <4> QED BY <3>3, <4>4
      <3> QED BY <3>2, <3>4, <3>5
    <2>4. \A f, g \in R : TermOf(f) = TermOf(g) => f = g
      <3> SUFFICES ASSUME NEW f \in R, NEW g \in R, TermOf(f) = TermOf(g)
                   PROVE  f = g
        OBVIOUS
      <3>1. PICK i \in DOMAIN compiled.nodes, d \in Dofs : ReportedAt(f, i, d)
        BY <2>2
      <3>2. PICK j \in DOMAIN compiled.nodes, e \in Dofs : ReportedAt(g, j, e)
        BY <2>2
      <3>3. compiled.nodeIds[i] = compiled.nodeIds[j] /\ FrameDof[d + 1] = FrameDof[e + 1]
        BY <3>1, <3>2 DEF ReportedAt, TermOf
      <3>4. i = j
        <4>1. /\ compiled.nodeIds = Sorted(NodeIds) /\ WellFormed(frame)
              /\ i \in 1..Cardinality(NodeIds) /\ j \in 1..Cardinality(NodeIds)
          BY <2>1, NodesAreNumbered DEF IsCompiled, Compiled
        <4>2. NodeNo(Sorted(NodeIds)[i]) = i /\ NodeNo(Sorted(NodeIds)[j]) = j
          BY <4>1, NodesAreNumbered
        <4> QED BY <3>3, <4>1, <4>2
      <3>5. d = e
        BY <3>3 DEF FrameDof, Dofs
      <3> QED BY <3>1, <3>2, <3>4, <3>5 DEF ReportedAt
    <2>5. answer.constraints = [key \in keys |-> terms(key)]
      BY <2>1 DEF NormalizedConstraintForces
    <2>6. ASSUME NEW key \in keys
          PROVE  Cardinality(terms(key)) = Cardinality({g \in R : attributed[g] = key})
      <3>1. class(key) = {g \in R : attributed[g] = key} /\ class(key) \subseteq R
        OBVIOUS
      <3>2. IsFiniteSet(class(key))
        BY <2>2, <3>1, FS_Subset
      <3> DEFINE t == [f \in class(key) |-> TermOf(f)]
      <3>3. t \in Surjection(class(key), terms(key))
        BY DEF Surjection
      <3>4. t \in Injection(class(key), terms(key))
        <4>1. t \in [class(key) -> terms(key)]
          OBVIOUS
        <4>2. \A f, g \in class(key) : t[f] = t[g] => f = g
          BY <2>4, <3>1
        <4> QED BY <4>1, <4>2 DEF Injection, IsInjective
      <3>5. Cardinality(terms(key)) = Cardinality(class(key))
        <4> HIDE DEF t, class, terms
        <4> QED BY <3>2, <3>3, <3>4, FS_Surjection
      <3> QED BY <3>1, <3>5
    <2>7. [key \in DOMAIN answer.constraints |-> Cardinality(answer.constraints[key])]
            = [key \in keys |-> Cardinality({g \in R : attributed[g] = key})]
      <3>1. DOMAIN answer.constraints = keys /\ \A key \in keys : answer.constraints[key] = terms(key)
        BY <2>5
      <3> HIDE DEF terms, attributed, keys
      <3> QED BY <2>6, <3>1
    <2>8. SumFunction([key \in keys |-> Cardinality({g \in R : attributed[g] = key})])
            = Cardinality(R)
      <3>1. attributed \in [R -> keys]
        OBVIOUS
      <3>2. IsFiniteSet(keys)
        <4>1. attributed \in Surjection(R, keys)
          BY DEF Surjection
        <4> HIDE DEF attributed, keys, R
        <4> QED BY <2>2, <4>1, FS_Surjection
      <3> HIDE DEF attributed, keys, R
      <3> QED BY <2>2, <3>1, <3>2, ClassesCount
    <2> QED BY <2>2, <2>3, <2>7, <2>8
  <1>2. ASSUME BridgeInv
        PROVE  ConstraintForcesAreAttributed
    BY <1>1, <1>2 DEF ConstraintForcesAreAttributed
  <1> QED BY <1>2

(* A constraint force is attributed to a constraint only if that constraint*)
(* caused it, that is if the kernel eliminated that dof for it; and no     *)
(* force the kernel reported is missing: the candidates read from the      *)
(* frame's names always hold the constraint that eliminated the dof in the *)
(* kernel's numbers (normalize.rs: normalize_constraint_forces).           *)
THEOREM ForcesAreAttributed == Spec => []ConstraintForcesAreAttributed
  BY AnswerIsAttributed, BridgeInvHolds, PTL

-----------------------------------------------------------------------------
(* The answer in the frame's own axes.                                     *)

(* What a complete answer tells of the nodes is what the kernel found, and *)
(* an answer without a diagnosis has the kernel's own reactions.           *)
LEMMA AnswerIsTheKernels ==
  ASSUME IsCompiled, KernelAnswered, Covered
  PROVE  \E u \in Displacements :
           /\ \A n \in DOMAIN compiled.nodes : MotionOf(n) = u[n]
           /\ Undiagnosed => raw.reactions = Reactions(u)
  <1>1. PICK u \in Displacements, forces \in {ConstraintForces, <<>>} :
          raw \in {Whole(u, forces)} \cup Spoilt(Whole(u, forces))
    BY DEF KernelAnswered
  <1> DEFINE good == Whole(u, forces)
             count == Cardinality(NodeIds)
             Y == [no : Nat, motion : [Dofs -> Int]]
  <1>2. count \in Nat /\ DOMAIN compiled.nodes = 1..count
    BY NodesAreNumbered DEF IsCompiled, Compiled
  <1>3. u \in [DOMAIN compiled.nodes -> [Dofs -> Int]]
    BY DisplacementsAreTyped
  <1>4. /\ good.nodes = [n \in 1..count |-> [no |-> n, motion |-> u[n]]]
        /\ good.reactions = Reactions(u) /\ good.diagnoses = <<>>
        /\ good = [finite |-> good.finite, nodes |-> good.nodes, reactions |-> good.reactions,
                   elements |-> good.elements, forces |-> good.forces, diagnoses |-> good.diagnoses]
    BY <1>2 DEF Whole
  <1>5. good.nodes \in Seq(Y) /\ Len(good.nodes) = count /\ DOMAIN good.nodes = 1..count
    <2>1. good.nodes \in [1..count -> Y]
      BY <1>2, <1>3, <1>4
    <2> HIDE DEF good, Y, count
    <2> QED BY <1>2, <2>1, FunctionIsAList
  <1> HIDE DEF good, Y
  <1>6. /\ \/ raw.nodes = good.nodes
           \/ raw.nodes = Kept(good.nodes, 2..Len(good.nodes))
           \/ raw.nodes = good.nodes \o good.nodes
           \/ raw.nodes = [good.nodes EXCEPT ![1].no = Len(good.nodes) + 1]
        /\ raw.reactions = good.reactions \/ raw.diagnoses # <<>>
    <2>1. CASE raw = good
      BY <2>1
    <2>2. CASE raw \in Spoilt(good)
      <3> HIDE DEF count
      <3>1. CASE raw = [good EXCEPT !.finite = FALSE]
        BY <1>4, <3>1
      <3>2. CASE raw = [good EXCEPT !.nodes = Kept(@, 2..Len(@))]
        BY <1>4, <3>2
      <3>3. CASE raw = [good EXCEPT !.nodes = @ \o @]
        BY <1>4, <3>3
      <3>4. CASE raw = [good EXCEPT !.nodes[1].no = Len(good.nodes) + 1]
        BY <1>4, <3>4
      <3>5. CASE raw = [good EXCEPT !.forces = Append(@, [node |-> 1, dof |-> 6, value |-> 1])]
        BY <1>4, <3>5
      <3>6. CASE raw = [good EXCEPT !.reactions[1].force = Plus(@, Vec(0, 0, 1)),
                                    !.diagnoses = <<"over_constrained_dof", "unheard_of">>]
        <4>1. raw.nodes = good.nodes /\ raw.diagnoses = <<"over_constrained_dof", "unheard_of">>
          BY <1>4, <3>6
        <4> QED BY <4>1
      <3>7. CASE raw = [good EXCEPT !.reactions[1].moment = Plus(@, Vec(3, 0, 0)),
                                    !.diagnoses = <<"singular_matrix">>]
        <4>1. raw.nodes = good.nodes /\ raw.diagnoses = <<"singular_matrix">>
          BY <1>4, <3>7
        <4> QED BY <4>1
      <3> QED BY <2>2, <3>1, <3>2, <3>3, <3>4, <3>5, <3>6, <3>7 DEF Spoilt
    <2> QED BY <1>1, <2>1, <2>2 DEF good
  <1>7. DOMAIN raw.nodes = 1..count /\ \A k \in 1..count : raw.nodes[k].no \in 1..count
    <2>1. Len(raw.nodes) = count /\ DOMAIN raw.nodes = 1..count
      BY NodesAreRead
    <2>2. \A k \in DOMAIN Numbers("no", raw.nodes) :
            Numbers("no", raw.nodes)[k] \in DOMAIN compiled.nodes
      BY DEF Covered, UniqueAndComplete
    <2> QED BY <1>2, <2>1, <2>2 DEF Numbers
  <1>8. count > 0 => raw.nodes = good.nodes
    <2> SUFFICES ASSUME count > 0
                 PROVE  raw.nodes = good.nodes
      OBVIOUS
    <2>1. ASSUME raw.nodes = Kept(good.nodes, 2..Len(good.nodes))
          PROVE  FALSE
      <3>1. 2..count \subseteq 1..count /\ 1 \notin 2..count /\ 1 \in 1..count
        BY <1>2
      <3>2. IsFiniteSet(2..count) /\ 2..count \in SUBSET Int
        BY <1>2, <3>1, UpToIsFinite, FS_Subset
      <3>3. Cardinality(2..count) # count
        BY <1>2, <3>1, UpToIsFinite, FS_Subset
      <3>4. DOMAIN Kept(good.nodes, 2..count) = 1..Cardinality(2..count)
            /\ Cardinality(2..count) \in Nat
        BY <3>2, KeptTakesEach
      <3> HIDE DEF count
      <3> QED BY <1>2, <1>5, <1>7, <2>1, <3>3, <3>4
    <2>2. ASSUME raw.nodes = good.nodes \o good.nodes
          PROVE  FALSE
      <3>1. DOMAIN raw.nodes = 1..(count + count)
        BY <1>2, <1>5, <2>2
      <3> HIDE DEF count
      <3> QED BY <1>2, <1>7, <3>1
    <2>3. ASSUME raw.nodes = [good.nodes EXCEPT ![1].no = Len(good.nodes) + 1]
          PROVE  FALSE
      <3>1. raw.nodes[1].no = count + 1
        BY <1>2, <1>4, <1>5, <2>3
      <3> HIDE DEF count
      <3> QED BY <1>2, <1>7, <3>1
    <2> QED BY <1>6, <2>1, <2>2, <2>3
  <1>9. ASSUME NEW n \in DOMAIN compiled.nodes
        PROVE  MotionOf(n) = u[n]
    <2>1. raw.nodes = [k \in 1..count |-> [no |-> k, motion |-> u[k]]]
      BY <1>2, <1>4, <1>8
    <2>2. \A k \in DOMAIN raw.nodes : raw.nodes[k].no = n <=> k = n
      BY <2>1
    <2>3. n \in DOMAIN raw.nodes
      BY <1>2, <2>1
    <2>4. (CHOOSE k \in DOMAIN raw.nodes : raw.nodes[k].no = n) = n
      BY <2>2, <2>3
    <2> QED BY <1>2, <2>1, <2>4 DEF MotionOf
  <1> QED BY <1>1, <1>4, <1>6, <1>9 DEF Undiagnosed


(* What the kernel reports of the elements, a wrong answer's too: each of  *)
(* them under its number, with vectors at its ends.                        *)
LEMMA ElementsAreReported ==
  ASSUME IsCompiled, KernelAnswered
  PROVE  /\ \A x \in Range(raw.elements) : x.start \in Vectors /\ x.end \in Vectors
         /\ \A e \in Range(frame.elements) : \E x \in Range(raw.elements) : x.no = ElementNo(e)
  <1> DEFINE S == {[no |-> x.no, start |-> Vec(1, 2, 3), end |-> Vec(-1, 4, -2)] :
                     x \in Range(compiled.elements)}
             E == Range(frame.elements)
             report == [e \in E |-> [no |-> compiled.elements[e].no,
                                     start |-> Vec(1, 2, 3), end |-> Vec(-1, 4, -2)]]
  <1>1. raw.elements = SetToSeq(S)
    <2>1. PICK u \in Displacements, forces \in {ConstraintForces, <<>>} :
            raw \in {Whole(u, forces)} \cup Spoilt(Whole(u, forces))
      BY DEF KernelAnswered
    <2> DEFINE good == Whole(u, forces)
    <2>2. good.elements = SetToSeq(S)
      BY DEF Whole
    <2>3. good = [finite |-> good.finite, nodes |-> good.nodes, reactions |-> good.reactions,
                  elements |-> good.elements, forces |-> good.forces, diagnoses |-> good.diagnoses]
      BY DEF Whole
    <2> HIDE DEF good, S
    <2>4. raw.elements = good.elements
      <3>1. CASE raw = good
        BY <3>1
      <3>2. CASE raw \in Spoilt(good)
        BY <2>3, <3>2 DEF Spoilt
      <3> QED BY <2>1, <3>1, <3>2 DEF good
    <2> QED BY <2>2, <2>4
  <1>2. /\ WellFormed(frame) /\ IsFiniteSet(E)
        /\ DOMAIN compiled.elements = E
        /\ \A e \in E : compiled.elements[e].no = ElementNo(e)
    BY ListIsFinite DEF IsCompiled, Compiled, WellFormed, CompiledElements
  <1>3. S = {report[e] : e \in E}
    <2>1. Range(compiled.elements) = {compiled.elements[e] : e \in E}
      BY <1>2 DEF Range
    <2>2. ASSUME NEW y \in S
          PROVE  \E e \in E : y = report[e]
      <3>1. PICK x \in Range(compiled.elements) :
              y = [no |-> x.no, start |-> Vec(1, 2, 3), end |-> Vec(-1, 4, -2)]
        OBVIOUS
      <3>2. PICK e \in E : x = compiled.elements[e]
        BY <2>1
      <3> QED BY <3>1, <3>2
    <2>3. ASSUME NEW e \in E
          PROVE  report[e] \in S
      <3>1. compiled.elements[e] \in Range(compiled.elements)
        BY <2>1
      <3> QED BY <3>1
    <2> HIDE DEF S, report
    <2> QED BY <2>2, <2>3
  <1>4. IsFiniteSet(S)
    <2>1. report \in Surjection(E, S)
      BY <1>3 DEF Surjection
    <2> HIDE DEF S, E, report
    <2> QED BY <1>2, <2>1, FS_Surjection
  <1>5. Range(raw.elements) = S
    <2> DEFINE n == Cardinality(S)
               f == SetToSeq(S)
    <2>1. n \in Nat /\ \E g \in [1..n -> S] : IsInjective(g)
      <3> HIDE DEF S
      <3> QED BY <1>4, FS_CardinalityType DEF ExistsBijection, Bijection, Injection
    <2>2. f \in [1..n -> S] /\ IsInjective(f)
      BY <2>1 DEF SetToSeq
    <2>3. f \in Surjection(1..n, S)
      <3> HIDE DEF S, f, n
      <3>1. f \in Injection(1..n, S)
        BY <2>2 DEF Injection
      <3>2. Cardinality(1..n) = Cardinality(S)
        BY <2>1, UpToIsFinite DEF n
      <3> QED BY <1>4, <3>1, <3>2, FS_Injection
    <2> HIDE DEF S, f
    <2> QED BY <1>1, <2>2, <2>3 DEF Surjection, Range, f
  <1>6. \A e \in E : report[e] \in S /\ report[e].no = ElementNo(e)
    BY <1>2, <1>3
  <1>7. \A x \in S : x.start \in Vectors /\ x.end \in Vectors
    <2>1. Vec(1, 2, 3) \in Vectors /\ Vec(-1, 4, -2) \in Vectors
      BY DEF Vec, Vectors
    <2>2. \A x \in S : x.start = Vec(1, 2, 3) /\ x.end = Vec(-1, 4, -2)
      OBVIOUS
    <2> QED BY <2>1, <2>2
  <1> HIDE DEF S, report
  <1> QED BY <1>5, <1>6, <1>7

(* A member's forces, projected on its axes in the frame, are what the     *)
(* kernel reported along its axes there.                                   *)
LEMMA ElementsAnswer ==
  ASSUME IsCompiled, KernelAnswered, answer.elements = NormalizedElements,
         NEW e \in Range(frame.elements)
  PROVE  ElementAnswers(e)
  <1> DEFINE r == CHOOSE x \in Range(raw.elements) : x.no = ElementNo(e)
             f == FrameTriad(Delta(e), e.localY)
             l == LocalTriad(Delta(e), e.localY)
             read(v) == InverseRotate(Combine(l, ToSolver(v)))
  <1>1. WellFormed(frame) /\ ~Duplicated(frame.elements)
    BY NotRefused DEF IsCompiled
  <1>2. e.id \in IdsOf(frame.elements) /\ ElementOf(e.id) = e
    BY <1>1, ElementsAreNumbered
  <1>3. answer.elements[e.id] = [start |-> read(r.start), end |-> read(r.end)]
    BY <1>2 DEF NormalizedElements
  <1>4. r.start \in Vectors /\ r.end \in Vectors
    <2>1. r \in Range(raw.elements)
      BY ElementsAreReported
    <2> HIDE DEF r
    <2> QED BY <2>1, ElementsAreReported
  <1>5. IsTriad(l) /\ IsTriad(f)
    BY ElementIsCompiled
  <1>6. ASSUME NEW v \in Vectors
        PROVE  ProjectLocal(read(v), f) = ToSolver(v)
    <2>1. ToSolver(v) \in Vectors
      BY UnitsAreInverted
    <2>2. /\ Combine(l, ToSolver(v)) \in Vectors
          /\ ProjectLocal(Combine(l, ToSolver(v)), l) = ToSolver(v)
      <3> HIDE DEF l
      <3> QED BY <1>5, <2>1, TriadTakesApart
    <2>3. ProjectLocal(read(v), f) = ProjectLocal(Combine(l, ToSolver(v)), l)
      BY <1>5, <2>2, LocalTriadIsATriad
    <2> QED BY <2>2, <2>3
  <1>7. /\ ProjectLocal(answer.elements[e.id].start, f) = ToSolver(r.start)
        /\ ProjectLocal(answer.elements[e.id].end, f) = ToSolver(r.end)
    <2> HIDE DEF f, l, r
    <2> QED BY <1>3, <1>4, <1>6
  <1> QED BY <1>7 DEF ElementAnswers

(* A connector that stands upright has its axial direction along the       *)
(* frame's y, and its two shears along z and x.                            *)
LEMMA UprightConnectorsAnswer ==
  ASSUME IsCompiled, KernelAnswered, Covered, answer.connectors = NormalizedConnectors,
         NEW c \in Range(frame.connectors), Upright(c)
  PROVE  UprightAnswers(c)
  <1> DEFINE i == NodeNo(c.i)
             j == NodeNo(c.j)
             t == ConnectorTriad(compiled.nodes[i], compiled.nodes[j])
             rel == Minus(Translation(MotionOf(j)), Translation(MotionOf(i)))
             l == ProjectLocal(rel, t)
             borne == Vec(-c.k.x * l.x, -c.k.y * l.y, -c.k.z * l.z)
             own == CHOOSE x \in Range(frame.connectors) : x.id = c.id
  <1>1. /\ WellFormed(frame) /\ ~Duplicated(frame.connectors) /\ compiled.nodes = CompiledNodes
        /\ c.i \in NodeIds /\ c.j \in NodeIds /\ c.k \in Vectors
    BY NotRefused DEF IsCompiled, Compiled, WellFormed
  <1>2. c.id \in IdsOf(frame.connectors) /\ own = c
    BY <1>1, IdsAreDistinct DEF WellFormed
  <1>3. answer.connectors[c.id] = [relative |-> InverseRotate(rel), force |-> InverseRotate(Combine(t, borne))]
    <2> DEFINE triad(x) == ConnectorTriad(compiled.nodes[NodeNo(x.i)], compiled.nodes[NodeNo(x.j)])
               moved(x) == Minus(Translation(MotionOf(NodeNo(x.j))), Translation(MotionOf(NodeNo(x.i))))
               local(x) == ProjectLocal(moved(x), triad(x))
               read(x) == [relative |-> InverseRotate(moved(x)),
                           force |-> InverseRotate(Combine(triad(x),
                             Vec(-x.k.x * local(x).x, -x.k.y * local(x).y, -x.k.z * local(x).z)))]
    <2>1. answer.connectors[c.id] = read(own)
      BY <1>2, Zenon DEF NormalizedConnectors
    <2> HIDE DEF own
    <2> QED BY <1>2, <2>1
  <1>4. i \in DOMAIN compiled.nodes /\ j \in DOMAIN compiled.nodes
        /\ compiled.nodes[i] = Rotate(frame.nodes[c.i]) /\ compiled.nodes[j] = Rotate(frame.nodes[c.j])
        /\ frame.nodes[c.i] \in Vectors /\ frame.nodes[c.j] \in Vectors
    BY <1>1, NodesAreNumbered
  <1>5. rel \in Vectors
    <2>1. MotionOf(i) \in [Dofs -> Int] /\ MotionOf(j) \in [Dofs -> Int]
      BY <1>4, AnswerIsTheKernels, DisplacementsAreTyped
    <2> QED BY <2>1, MotionsAreVectors, VectorsAreClosed
  <1>6. t = [x |-> Vec(0, 0, 1), y |-> Vec(0, -1, 0), z |-> Vec(1, 0, 0)]
    <2> DEFINE x == Unit(Minus(compiled.nodes[j], compiled.nodes[i]))
    <2>1. x = Rotate(Vec(0, 1, 0))
      <3> DEFINE delta == Minus(frame.nodes[c.j], frame.nodes[c.i])
      <3>1. delta \in Vectors /\ Minus(compiled.nodes[j], compiled.nodes[i]) = Rotate(delta)
        BY <1>4, RotateIsLinear, VectorsAreClosed
      <3>2. x = Rotate(Unit(delta))
        <4> HIDE DEF delta
        <4> QED BY <3>1, RotateIsLinear
      <3> QED BY <3>2 DEF Upright
    <2>2. x = Vec(0, 0, 1)
      BY <2>1 DEF Rotate, Vec
    <2> HIDE DEF x
    <2>3. Cross(Vec(1, 0, 0), x) = Vec(0, -1, 0) /\ Cross(x, Vec(0, -1, 0)) = Vec(1, 0, 0) /\ x.x = 0
      BY <2>2 DEF Cross, Vec
    <2> QED BY <2>2, <2>3 DEF ConnectorTriad, x
  <1> HIDE DEF t, rel
  <1>7. /\ l = Vec(rel.z, -rel.y, rel.x)
        /\ rel.x \in Int /\ rel.y \in Int /\ rel.z \in Int
    BY <1>5, <1>6 DEF ProjectLocal, Dot, Vec, Vectors
  <1>8. PICK p \in Int, q \in Int, s \in Int :
          p = c.k.x * rel.z /\ q = c.k.y * rel.y /\ s = c.k.z * rel.x
    BY <1>1, <1>7 DEF Vectors
  <1>9. borne = Vec(-p, q, -s)
    BY <1>1, <1>7, <1>8 DEF Vectors, Vec
  <1> HIDE DEF borne, l
  <1>10. InverseRotate(Combine(t, borne)) = Vec(-s, -p, q)
    BY <1>6, <1>8, <1>9 DEF Combine, Plus, Times, InverseRotate, Vec
  <1>11. InverseRotate(rel) = Vec(rel.x, rel.z, -rel.y)
    BY DEF InverseRotate
  <1>12. Vec(-c.k.z * rel.x, -c.k.x * rel.z, -c.k.y * (-rel.y)) = Vec(-s, -p, q)
    BY <1>1, <1>7, <1>8 DEF Vectors, Vec
  <1> QED BY <1>3, <1>10, <1>11, <1>12 DEF UprightAnswers, Vec


(* A spring's stiffness was divided by the thousand that its force is      *)
(* multiplied by.                                                          *)
LEMMA SpringIsReadBack ==
  ASSUME NEW k \in Int, k % Kilo = 0, NEW v \in Int
  PROVE  /\ (k \div Kilo) * v \in Int /\ k * v \in Int
         /\ Kilo * (-((k \div Kilo) * v)) = -(k * v)
  <1>1. k \div Kilo \in Int /\ Kilo * (k \div Kilo) = k /\ Kilo \in Int
    BY KiloDivides, KiloAssumption
  <1>2. ASSUME NEW a \in Int, NEW b \in Int
        PROVE  a * (-(b * v)) = -((a * b) * v) /\ b * v \in Int
    OBVIOUS
  <1> QED BY <1>1, <1>2

(* An active support's motion and reaction, as the kernel numbers them: it *)
(* is the only support of its node, stands as prescribed where it is fixed *)
(* and answers its motion with its springs where it is not.                *)
LEMMA SupportIsAnswered ==
  ASSUME IsCompiled, KernelAnswered, Covered, answer.nodes = NormalizedNodes,
         answer.reactions = NormalizedReactions, NEW s \in Range(ActiveSupports)
  PROVE  \E v \in [Dofs -> Int], f \in Vectors, m \in Vectors :
           /\ answer.nodes[s.node] = [translation |-> InverseRotate(Translation(v)),
                                      rotation |-> InverseRotate(Rotation(v))]
           /\ answer.reactions[s.id] = [force |-> ToFrame(f), moment |-> ToFrame(m)]
           /\ \A d \in FixedDofs(s) : v[d] = Prescribed(s)[d]
           /\ Undiagnosed /\ FixedDofs(s) # Dofs =>
                LET sprung == [d \in Dofs |-> IF d \in FixedDofs(s) THEN 0 ELSE -Springs(s)[d] * v[d]]
                IN  f = Translation(sprung) /\ m = Rotation(sprung)
  <1>1. /\ WellFormed(frame) /\ compiled.nodes = CompiledNodes
        /\ DOMAIN ActiveSupports = 1..Len(ActiveSupports)
    BY ActiveSupportsAreListed DEF IsCompiled, Compiled
  <1>2. PICK n \in DOMAIN ActiveSupports : ActiveSupports[n] = s
    BY DEF Range
  <1> DEFINE no == NodeNo(s.node)
             k  == compiled.supports[n]
  <1>3. /\ n \in DOMAIN compiled.supports /\ s.node \in NodeIds
        /\ k.node = no /\ k.fixed = FixedDofs(s) /\ k.springs = Springs(s)
        /\ k.prescribed = Prescribed(s) /\ no \in DOMAIN compiled.nodes
    BY <1>2, SupportIsCompiled
  <1>4. PICK u \in Displacements :
          /\ \A i \in DOMAIN compiled.nodes : MotionOf(i) = u[i]
          /\ Undiagnosed => raw.reactions = Reactions(u)
    BY AnswerIsTheKernels
  <1>5. u[no] \in [Dofs -> Int] /\ \A d \in Dofs : d \in Restrained(no) => u[no][d] = PrescribedAt(no, d)
    BY <1>3, <1>4, DisplacementsAreTyped
  <1>6. answer.nodes[s.node] = [translation |-> InverseRotate(Translation(u[no])),
                                rotation |-> InverseRotate(Rotation(u[no]))]
    BY <1>3, <1>4 DEF NormalizedNodes
  <1>7. PICK f \in Vectors, m \in Vectors : raw.reactions[n] = [node |-> k.node, force |-> f, moment |-> m]
    BY <1>3, RawIsShaped
  <1>8. answer.reactions[s.id] = [force |-> ToFrame(f), moment |-> ToFrame(m)]
    BY <1>2, <1>7, ReactionsAreNamed
  <1>9. SupportsAt(no) = {k}
    <2>1. \A i \in DOMAIN compiled.supports :
            i \in DOMAIN ActiveSupports /\ compiled.supports[i].node = NodeNo(ActiveSupports[i].node)
      BY SupportIsCompiled
    <2>2. \A i \in DOMAIN compiled.supports : compiled.supports[i].node = no => i = n
      BY <1>1, <1>2, <2>1, ReactionsAreNamed, SupportsStandApart
    <2> QED BY <1>3, <2>2 DEF SupportsAt, Range
  <1>10. ASSUME NEW d \in FixedDofs(s)
         PROVE  u[no][d] = Prescribed(s)[d]
    <2>1. d \in Dofs
      <3>1. SupportFormed(s)
        BY <1>1, ActiveSupportsAreListed DEF WellFormed
      <3> QED BY <3>1, SdkDofIsADof DEF FixedDofs, SupportFormed
    <2>2. d \in Restrained(no) /\ PrescribedAt(no, d) = Prescribed(s)[d]
      <3> HIDE DEF k
      <3>1. (CHOOSE x \in SupportsAt(no) : d \in x.fixed) = k
        BY <1>3, <1>9
      <3> QED BY <1>3, <1>9, <3>1 DEF Restrained, PrescribedAt
    <2> QED BY <1>5, <2>1, <2>2
  <1>11. ASSUME Undiagnosed, FixedDofs(s) # Dofs
         PROVE  LET sprung == [d \in Dofs |-> IF d \in FixedDofs(s) THEN 0 ELSE -Springs(s)[d] * u[no][d]]
                IN  f = Translation(sprung) /\ m = Rotation(sprung)
    <2>1. /\ Reactions(u)[n].force = Translation(Sprung(k, u))
          /\ Reactions(u)[n].moment = Rotation(Sprung(k, u))
      BY <1>3, <1>11, ReactionsAreTyped
    <2>2. f = Translation(Sprung(k, u)) /\ m = Rotation(Sprung(k, u))
      BY <1>4, <1>7, <1>11, <2>1
    <2>3. Sprung(k, u) = [d \in Dofs |-> IF d \in FixedDofs(s) THEN 0 ELSE -Springs(s)[d] * u[no][d]]
      <3> HIDE DEF k, no
      <3> QED BY <1>3 DEF Sprung
    <2> QED BY <2>2, <2>3
  <1> HIDE DEF no, k
  <1> QED BY <1>5, <1>6, <1>7, <1>8, <1>10, <1>11

(* So in the frame's axes: a fixed axis has moved as prescribed there, an  *)
(* elastic one reacts with the stiffness and the motion it has there.      *)
LEMMA SupportsAnswer ==
  ASSUME IsCompiled, KernelAnswered, Covered, answer.nodes = NormalizedNodes,
         answer.reactions = NormalizedReactions, NEW s \in Range(ActiveSupports)
  PROVE  SupportAnswers(s)
  <1> DEFINE u == answer.nodes[s.node]
             r == answer.reactions[s.id]
  <1>1. /\ s.fixed \subseteq DOMAIN SdkDof /\ InKilos(s.stiffness)
        /\ s.translation \in Vectors /\ s.rotation \in Vectors
    BY ActiveSupportsAreListed DEF IsCompiled, WellFormed, SupportFormed
  <1>2. PICK v \in [Dofs -> Int], f \in Vectors, m \in Vectors :
          /\ u = [translation |-> InverseRotate(Translation(v)), rotation |-> InverseRotate(Rotation(v))]
          /\ r = [force |-> ToFrame(f), moment |-> ToFrame(m)]
          /\ \A d \in FixedDofs(s) : v[d] = Prescribed(s)[d]
          /\ Undiagnosed /\ FixedDofs(s) # Dofs =>
               LET sprung == [d \in Dofs |-> IF d \in FixedDofs(s) THEN 0 ELSE -Springs(s)[d] * v[d]]
               IN  f = Translation(sprung) /\ m = Rotation(sprung)
    BY SupportIsAnswered
  <1>3. /\ u.translation.x = v[0] /\ u.translation.y = v[2] /\ u.translation.z = -v[1]
        /\ u.rotation.x = v[3] /\ u.rotation.y = v[5] /\ u.rotation.z = -v[4]
        /\ v[0] \in Int /\ v[1] \in Int /\ v[2] \in Int /\ v[3] \in Int /\ v[4] \in Int /\ v[5] \in Int
    BY <1>2 DEF InverseRotate, Translation, Rotation, Vec, Dofs
  <1>4. /\ Prescribed(s)[0] = s.translation.x /\ Prescribed(s)[2] = s.translation.y
        /\ Prescribed(s)[1] = -s.translation.z
        /\ Prescribed(s)[3] = s.rotation.x /\ Prescribed(s)[5] = s.rotation.y
        /\ Prescribed(s)[4] = -s.rotation.z
        /\ s.translation.z \in Int /\ s.rotation.z \in Int
    BY <1>1 DEF Prescribed, Six, Rotate, Vec, Dofs, Vectors
  <1>5. ASSUME NEW d \in DOMAIN SdkDof
        PROVE  /\ d \in s.fixed => SdkDof[d] \in FixedDofs(s)
               /\ d \notin s.fixed => SdkDof[d] \notin FixedDofs(s)
    <2>1. \A b \in DOMAIN SdkDof : SdkDof[b] = SdkDof[d] => b = d
      BY SdkDofIsADof
    <2> QED BY <1>1, <2>1 DEF FixedDofs
  <1>6. /\ SdkDof["TX"] = 0 /\ SdkDof["TY"] = 2 /\ SdkDof["TZ"] = 1
        /\ SdkDof["RX"] = 3 /\ SdkDof["RY"] = 5 /\ SdkDof["RZ"] = 4
        /\ DOMAIN SdkDof = {"TX", "TY", "TZ", "RX", "RY", "RZ"}
    BY DEF SdkDof
  <1>7. /\ "TX" \in s.fixed => u.translation.x = s.translation.x
        /\ "TY" \in s.fixed => u.translation.y = s.translation.y
        /\ "TZ" \in s.fixed => u.translation.z = s.translation.z
        /\ "RX" \in s.fixed => u.rotation.x = s.rotation.x
        /\ "RY" \in s.fixed => u.rotation.y = s.rotation.y
        /\ "RZ" \in s.fixed => u.rotation.z = s.rotation.z
    BY <1>2, <1>3, <1>4, <1>5, <1>6
  <1>8. ASSUME Undiagnosed, NEW d \in DOMAIN SdkDof, d \notin s.fixed
        PROVE  /\ "TX" \notin s.fixed => r.force.x = -s.stiffness.x * u.translation.x
               /\ "TY" \notin s.fixed => r.force.y = -s.stiffness.y * u.translation.y
               /\ "TZ" \notin s.fixed => r.force.z = -s.stiffness.z * u.translation.z
               /\ "RX" \notin s.fixed => r.moment.x = 0
               /\ "RY" \notin s.fixed => r.moment.y = 0
               /\ "RZ" \notin s.fixed => r.moment.z = 0
    <2> DEFINE sprung == [e \in Dofs |-> IF e \in FixedDofs(s) THEN 0 ELSE -Springs(s)[e] * v[e]]
               a == s.stiffness.x
               b == s.stiffness.y
               c == s.stiffness.z
    <2>1. FixedDofs(s) # Dofs
      BY <1>5, <1>8, SdkDofIsADof
    <2>2. f = Translation(sprung) /\ m = Rotation(sprung)
      BY <1>2, <1>8, <2>1
    <2>3. /\ a \in Int /\ b \in Int /\ c \in Int /\ a % Kilo = 0 /\ b % Kilo = 0 /\ c % Kilo = 0
      BY <1>1 DEF InKilos, Vectors
    <2>4. /\ Springs(s)[0] = a \div Kilo /\ Springs(s)[1] = c \div Kilo /\ Springs(s)[2] = b \div Kilo
          /\ Springs(s)[3] = 0 /\ Springs(s)[4] = 0 /\ Springs(s)[5] = 0
      BY DEF Springs, Six, ToSdk, Vec, Zero, Dofs
    <2>5. /\ f.x = sprung[0] /\ f.y = sprung[1] /\ f.z = sprung[2]
          /\ m.x = sprung[3] /\ m.y = sprung[4] /\ m.z = sprung[5]
      BY <2>2 DEF Translation, Rotation, Vec
    <2>6. /\ r.force.x = Kilo * f.x /\ r.force.y = Kilo * f.z /\ r.force.z = -(Kilo * f.y)
          /\ r.moment.x = Kilo * m.x /\ r.moment.y = Kilo * m.z /\ r.moment.z = -(Kilo * m.y)
      BY <1>2 DEF ToFrame, InverseRotate, ToSolver, Times, Vec
    <2>7. /\ 0 \notin FixedDofs(s) => sprung[0] = -((a \div Kilo) * v[0])
          /\ 1 \notin FixedDofs(s) => sprung[1] = -((c \div Kilo) * v[1])
          /\ 2 \notin FixedDofs(s) => sprung[2] = -((b \div Kilo) * v[2])
          /\ 3 \notin FixedDofs(s) => sprung[3] = 0
          /\ 4 \notin FixedDofs(s) => sprung[4] = 0
          /\ 5 \notin FixedDofs(s) => sprung[5] = 0
      BY <1>3, <2>3, <2>4 DEF Dofs
    <2>8. /\ Kilo * (-((a \div Kilo) * v[0])) = -(a * v[0])
          /\ Kilo * (-((c \div Kilo) * v[1])) = -(c * v[1])
          /\ Kilo * (-((b \div Kilo) * v[2])) = -(b * v[2])
      BY <1>3, <2>3, SpringIsReadBack
    <2>9. -(-(c * v[1])) = -(c * (-v[1])) /\ Kilo * 0 = 0 /\ -(Kilo * 0) = 0
      BY <1>3, <2>3, KiloAssumption
    <2> HIDE DEF sprung
    <2>10. /\ "TX" \notin s.fixed => 0 \notin FixedDofs(s)
           /\ "TY" \notin s.fixed => 2 \notin FixedDofs(s)
           /\ "TZ" \notin s.fixed => 1 \notin FixedDofs(s)
           /\ "RX" \notin s.fixed => 3 \notin FixedDofs(s)
           /\ "RY" \notin s.fixed => 5 \notin FixedDofs(s)
           /\ "RZ" \notin s.fixed => 4 \notin FixedDofs(s)
      BY <1>5, <1>6
    <2> QED BY <1>3, <2>5, <2>6, <2>7, <2>8, <2>9, <2>10
  <1> HIDE DEF u, r
  <1>9. ASSUME NEW axis \in {"x", "y", "z"}
        PROVE  /\ IF AxisDof[axis][1] \in s.fixed
                    THEN u.translation[axis] = s.translation[axis]
                    ELSE Undiagnosed => r.force[axis] = -s.stiffness[axis] * u.translation[axis]
               /\ IF AxisDof[axis][2] \in s.fixed
                    THEN u.rotation[axis] = s.rotation[axis]
                    ELSE Undiagnosed => r.moment[axis] = 0
    <2>1. /\ AxisDof["x"][1] = "TX" /\ AxisDof["x"][2] = "RX"
          /\ AxisDof["y"][1] = "TY" /\ AxisDof["y"][2] = "RY"
          /\ AxisDof["z"][1] = "TZ" /\ AxisDof["z"][2] = "RZ"
      BY DEF AxisDof
    <2>2. CASE axis = "x"
      BY <1>6, <1>7, <1>8, <2>1, <2>2
    <2>3. CASE axis = "y"
      BY <1>6, <1>7, <1>8, <2>1, <2>3
    <2>4. CASE axis = "z"
      BY <1>6, <1>7, <1>8, <2>1, <2>4
    <2> QED BY <2>2, <2>3, <2>4
  <1> QED BY <1>9 DEF SupportAnswers, u, r

-----------------------------------------------------------------------------
LEMMA AnswerIsInFrameAxes == BridgeInv => AnswersInFrameAxes
  <1>1. ASSUME BridgeInv
        PROVE  AnswersInFrameAxes
    <2> SUFFICES ASSUME Answered
                 PROVE  /\ \A s \in Range(ActiveSupports) : SupportAnswers(s)
                        /\ \A c \in Range(frame.connectors) : Upright(c) => UprightAnswers(c)
                        /\ \A e \in Range(frame.elements) : ElementAnswers(e)
      BY DEF AnswersInFrameAxes
    <2>1. /\ IsCompiled /\ KernelAnswered /\ Covered
          /\ answer.nodes = NormalizedNodes /\ answer.reactions = NormalizedReactions
          /\ answer.elements = NormalizedElements /\ answer.connectors = NormalizedConnectors
      BY <1>1, AnsweredHasAll
    <2>2. \A s \in Range(ActiveSupports) : SupportAnswers(s)
      BY <2>1, SupportsAnswer
    <2>3. \A c \in Range(frame.connectors) : Upright(c) => UprightAnswers(c)
      BY <2>1, UprightConnectorsAnswer
    <2>4. \A e \in Range(frame.elements) : ElementAnswers(e)
      BY <2>1, ElementsAnswer
    <2> QED BY <2>2, <2>3, <2>4
  <1> QED BY <1>1

(* What comes back is in the frame's own axes, names and units, for every  *)
(* request and every answer that is accepted: supports that are fixed have *)
(* moved as prescribed and elastic ones react with their own stiffness,    *)
(* connectors and members carry their forces along their own axes          *)
(* (compile.rs permutes stiffness and fixity and rotates motion;           *)
(* normalize.rs turns both back).                                          *)
THEOREM AnswersAreInFrameAxes == Spec => []AnswersInFrameAxes
  BY AnswerIsInFrameAxes, BridgeInvHolds, PTL

-----------------------------------------------------------------------------
(* The constraints of the frame, in its axes.                              *)

Tied(c) == IF c.kind = "ECCENTRIC_CONNECTION" THEN DOMAIN SdkDof \ c.releases ELSE c.dofs

\* Every constraint ties a slave to another node, and no support holds the
\* slave where it is tied.
TiesStandFree ==
  \A c \in Range(frame.constraints) :
    /\ c.kind # "LINEAR_MPC" /\ c.master # c.slave
    /\ \A s \in Range(ActiveSupports) : s.node = c.slave => s.fixed \cap Tied(c) = {}

(* The dofs the kernel eliminates for the only constraint are those the    *)
(* frame ties, under their own names; its master's it leaves alone.        *)
LEMMA TiesAreEliminated ==
  ASSUME IsCompiled, Len(frame.constraints) = 1, TiesStandFree
  PROVE  LET c == frame.constraints[1]
             k == CompiledConstraint(c)
             m == NodeNo(c.master)
             s == NodeNo(c.slave)
         IN  /\ c \in Range(frame.constraints) /\ Tied(c) \subseteq DOMAIN SdkDof
             /\ k.master = m /\ k.slave = s
             /\ \A d \in Tied(c) :
                  /\ Dependent(s, SdkDof[d])
                  /\ compiled.constraints[Owner(s, SdkDof[d])] = k
             /\ \A d \in Dofs : ~Dependent(m, d)
  <1> DEFINE c == frame.constraints[1]
             k == CompiledConstraint(c)
             m == NodeNo(c.master)
             s == NodeNo(c.slave)
  <1>1. /\ WellFormed(frame) /\ IsList(frame.constraints) /\ compiled.nodes = CompiledNodes
        /\ compiled.constraints = CompiledConstraints
    BY DEF IsCompiled, Compiled, WellFormed
  <1>2. /\ DOMAIN frame.constraints = {1} /\ Range(frame.constraints) = {c}
        /\ DOMAIN compiled.constraints = {1} /\ compiled.constraints[1] = k
    <2>1. DOMAIN frame.constraints = {1} /\ Range(frame.constraints) = {c}
      BY <1>1, ListIsFinite
    <2> QED BY <1>1, <2>1 DEF CompiledConstraints
  <1>3. c \in Range(frame.constraints) /\ c.kind # "LINEAR_MPC" /\ c.master # c.slave
    BY <1>2 DEF TiesStandFree
  <1>4. /\ c.master \in NodeIds /\ c.slave \in NodeIds
        /\ k.master = m /\ k.slave = s /\ k.kind # "MPC"
    BY <1>3, ConstraintIsCompiled
  <1>5. k.dofs = {SdkDof[d] : d \in Tied(c)} /\ Tied(c) \subseteq DOMAIN SdkDof
    <2>1. CASE c.kind = "ECCENTRIC_CONNECTION"
      <3>1. k.dofs = {d \in Dofs : ReleaseOrder[d + 1] \notin c.releases}
            /\ Tied(c) = DOMAIN SdkDof \ c.releases
        BY <1>3, <2>1, ConstraintIsCompiled DEF Tied
      <3>2. ASSUME NEW d \in DOMAIN SdkDof
            PROVE  ReleaseOrder[SdkDof[d] + 1] = d /\ SdkDof[d] \in Dofs
        BY SdkDofIsADof
      <3>3. ASSUME NEW d \in Dofs
            PROVE  ReleaseOrder[d + 1] \in DOMAIN SdkDof /\ SdkDof[ReleaseOrder[d + 1]] = d
        BY SdkDofIsADof
      <3> QED BY <3>1, <3>2, <3>3
    <2>2. CASE c.kind # "ECCENTRIC_CONNECTION"
      BY <1>3, <2>2, ConstraintIsCompiled DEF Tied
    <2> QED BY <2>1, <2>2
  <1>6. Eliminates(k) = {<<s, d>> : d \in k.dofs}
    BY <1>4 DEF Eliminates
  <1>7. \A a, b \in NodeIds : NodeNo(a) = NodeNo(b) => a = b
    BY <1>1, NodesAreNumbered
  <1>8. m # s
    BY <1>3, <1>4, <1>7
  <1> HIDE DEF k, m, s
  <1>9. ASSUME NEW d \in Dofs
        PROVE  ~Dependent(m, d)
    <2>1. <<m, d>> \notin Eliminates(k)
      BY <1>6, <1>8
    <2>2. Owners(m, d) = {}
      BY <1>2, <2>1 DEF Owners
    <2> QED BY <2>2 DEF Dependent
  <1>10. ASSUME NEW d \in Tied(c)
         PROVE  Dependent(s, SdkDof[d]) /\ compiled.constraints[Owner(s, SdkDof[d])] = k
    <2>1. <<s, SdkDof[d]>> \in Eliminates(k)
      BY <1>5, <1>6
    <2>2. 1 \in Owners(s, SdkDof[d]) /\ Owners(s, SdkDof[d]) \subseteq {1}
      BY <1>2, <2>1 DEF Owners
    <2>3. Owner(s, SdkDof[d]) = 1
      <3>1. Owner(s, SdkDof[d]) \in DOMAIN frame.constraints
        BY <2>2, OwnerIsTheLast
      <3> QED BY <1>2, <3>1
    <2>4. ASSUME SdkDof[d] \in Restrained(s)
          PROVE  FALSE
      <3>1. PICK n \in DOMAIN compiled.supports :
              compiled.supports[n].node = s /\ SdkDof[d] \in compiled.supports[n].fixed
        BY <2>4 DEF Restrained, SupportsAt, Range
      <3> DEFINE t == ActiveSupports[n]
      <3>2. /\ t \in Range(ActiveSupports) /\ t.node \in NodeIds /\ NodeNo(t.node) = s
            /\ SdkDof[d] \in FixedDofs(t)
        BY <3>1, SupportIsCompiled DEF Range
      <3>3. t.node = c.slave
        BY <1>4, <1>7, <3>2 DEF s
      <3>4. t.fixed \subseteq DOMAIN SdkDof
        BY <1>1, <3>2, ActiveSupportsAreListed DEF WellFormed, SupportFormed
      <3>5. d \in t.fixed
        <4>1. PICK e \in t.fixed : SdkDof[e] = SdkDof[d]
          BY <3>2 DEF FixedDofs
        <4>2. e = d
          BY <1>5, <3>4, <4>1, SdkDofIsADof
        <4> QED BY <4>2
      <3> HIDE DEF t
      <3> QED BY <1>3, <3>2, <3>3, <3>5 DEF TiesStandFree
    <2> QED BY <1>2, <2>2, <2>3, <2>4 DEF Dependent
  <1> QED BY <1>3, <1>4, <1>5, <1>9, <1>10 DEF k, m, s

(* The slave's dof, as the kernel's displacements have it: its master's    *)
(* rigid motion at the end of the arm, which is the frame's, turned.       *)
LEMMA TiedFollows ==
  ASSUME IsCompiled, Len(frame.constraints) = 1, TiesStandFree, NEW u \in Displacements
  PROVE  LET c == frame.constraints[1]
             m == u[NodeNo(c.master)]
             arm == CASE c.kind = "ECCENTRIC_CONNECTION" -> c.offset
                      [] c.kind = "RIGID_LINK" -> Minus(frame.nodes[c.slave], frame.nodes[c.master])
                      [] OTHER -> Zero
             at == Plus(Translation(m), Cross(Rotation(m), Rotate(arm)))
         IN  /\ arm \in Vectors
             /\ \A d \in Tied(c) : u[NodeNo(c.slave)][SdkDof[d]] = Six(at, Rotation(m))[SdkDof[d]]
  <1> DEFINE c == frame.constraints[1]
             k == CompiledConstraint(c)
             i == NodeNo(c.master)
             j == NodeNo(c.slave)
             arm == CASE c.kind = "ECCENTRIC_CONNECTION" -> c.offset
                      [] c.kind = "RIGID_LINK" -> Minus(frame.nodes[c.slave], frame.nodes[c.master])
                      [] OTHER -> Zero
  <1>1. /\ c \in Range(frame.constraints) /\ Tied(c) \subseteq DOMAIN SdkDof
        /\ k.master = i /\ k.slave = j
        /\ \A d \in Tied(c) : Dependent(j, SdkDof[d]) /\ compiled.constraints[Owner(j, SdkDof[d])] = k
        /\ \A d \in Dofs : ~Dependent(i, d)
    BY TiesAreEliminated
  <1>2. WellFormed(frame) /\ compiled.nodes = CompiledNodes /\ c.kind # "LINEAR_MPC"
    BY <1>1 DEF IsCompiled, Compiled, TiesStandFree
  <1>3. /\ c.master \in NodeIds /\ c.slave \in NodeIds
        /\ IF c.kind = "ECCENTRIC_CONNECTION"
             THEN k.kind = "ECCENTRIC" /\ k.offset = Rotate(c.offset)
             ELSE k.kind = c.kind /\ c.kind \in {"RIGID_LINK", "EQUAL_DOF"}
    BY <1>1, <1>2, ConstraintIsCompiled
  <1>4. /\ i \in DOMAIN compiled.nodes /\ j \in DOMAIN compiled.nodes
        /\ compiled.nodes[i] = Rotate(frame.nodes[c.master])
        /\ compiled.nodes[j] = Rotate(frame.nodes[c.slave])
        /\ frame.nodes[c.master] \in Vectors /\ frame.nodes[c.slave] \in Vectors
    BY <1>2, <1>3, NodesAreNumbered
  <1>5. c.kind = "ECCENTRIC_CONNECTION" => c.offset \in Vectors
    BY <1>1, <1>2 DEF WellFormed, ConstraintFormed
  <1>6. arm \in Vectors
    BY <1>4, <1>5, VectorsAreClosed
  <1>7. PICK v \in [DOMAIN compiled.nodes -> [Dofs -> Int]] :
          \A n \in DOMAIN compiled.nodes, d \in Dofs :
            u[n][d] = IF Dependent(n, d) THEN Followed(compiled.constraints[Owner(n, d)], d, v) ELSE v[n][d]
    BY DisplacementsAreTyped
  <1>8. u[i] = v[i] /\ u[i] \in [Dofs -> Int]
    <2>1. u[i] \in [Dofs -> Int] /\ v[i] \in [Dofs -> Int]
      BY <1>4, <1>7, DisplacementsAreTyped
    <2>2. \A d \in Dofs : u[i][d] = v[i][d]
      BY <1>1, <1>4, <1>7
    <2> HIDE DEF i
    <2> QED BY <2>1, <2>2
  <1>9. Translation(u[i]) \in Vectors /\ Rotation(u[i]) \in Vectors
    BY <1>8, MotionsAreVectors
  <1> HIDE DEF arm, i, j, k
  <1>10. ASSUME NEW d \in Tied(c)
         PROVE  u[j][SdkDof[d]]
                  = Six(Plus(Translation(u[i]), Cross(Rotation(u[i]), Rotate(arm))), Rotation(u[i]))[SdkDof[d]]
    <2> DEFINE e == SdkDof[d]
    <2>1. e \in Dofs
      BY <1>1, SdkDofIsADof
    <2>2. u[j][e] = Followed(k, e, v)
      BY <1>1, <1>4, <1>7, <2>1
    <2> HIDE DEF e
    <2>3. CASE c.kind = "ECCENTRIC_CONNECTION"
      <3>1. arm = c.offset /\ Offset(k) = Rotate(arm) /\ k.kind = "ECCENTRIC"
        BY <1>3, <2>3 DEF arm, Offset
      <3> QED BY <1>1, <1>8, <2>2, <3>1 DEF Followed, e
    <2>4. CASE c.kind = "RIGID_LINK"
      <3>1. arm = Minus(frame.nodes[c.slave], frame.nodes[c.master]) /\ k.kind = "RIGID_LINK"
        BY <1>3, <2>4 DEF arm
      <3>2. Offset(k) = Rotate(arm)
        BY <1>1, <1>4, <3>1, RotateIsLinear DEF Offset
      <3> QED BY <1>1, <1>8, <2>2, <3>1, <3>2 DEF Followed, e
    <2>5. CASE c.kind = "EQUAL_DOF"
      <3>1. arm = Zero /\ k.kind = "EQUAL_DOF"
        BY <1>3, <2>5 DEF arm
      <3>2. u[j][e] = u[i][e]
        BY <1>1, <1>8, <2>2, <3>1 DEF Followed
      <3>3. Plus(Translation(u[i]), Cross(Rotation(u[i]), Rotate(arm))) = Translation(u[i])
        <4>1. \A p, q \in Vectors : Plus(p, Cross(q, Zero)) = p
          BY DEF Vectors, Plus, Cross, Zero, Vec
        <4> QED BY <1>9, <3>1, <4>1, RotateIsLinear
      <3>4. Six(Translation(u[i]), Rotation(u[i]))[e] = u[i][e]
        BY <1>8, <2>1 DEF Six, Translation, Rotation, Vec, Dofs
      <3> QED BY <3>2, <3>3, <3>4 DEF e
    <2> QED BY <1>3, <2>3, <2>4, <2>5
  <1> QED BY <1>6, <1>10 DEF arm, i, j

(* Read back, the slave follows its master in the frame's own axes.        *)
LEMMA TiesHold ==
  ASSUME IsCompiled, KernelAnswered, Covered, answer.nodes = NormalizedNodes,
         Len(frame.constraints) = 1, TiesStandFree
  PROVE  ConstraintHolds(frame.constraints[1])
  <1> DEFINE c == frame.constraints[1]
             i == NodeNo(c.master)
             j == NodeNo(c.slave)
             arm == CASE c.kind = "ECCENTRIC_CONNECTION" -> c.offset
                      [] c.kind = "RIGID_LINK" -> Minus(frame.nodes[c.slave], frame.nodes[c.master])
                      [] OTHER -> Zero
             m == answer.nodes[c.master]
             t == Plus(m.translation, Cross(m.rotation, arm))
             follows == [TX |-> t.x, TY |-> t.y, TZ |-> t.z,
                         RX |-> m.rotation.x, RY |-> m.rotation.y, RZ |-> m.rotation.z]
  <1>1. PICK u \in Displacements : \A n \in DOMAIN compiled.nodes : MotionOf(n) = u[n]
    BY AnswerIsTheKernels
  <1> DEFINE a == Plus(Translation(u[i]), Cross(Rotation(u[i]), Rotate(arm)))
             r == Rotation(u[i])
  <1>2. /\ c \in Range(frame.constraints) /\ c.kind # "LINEAR_MPC" /\ Tied(c) \subseteq DOMAIN SdkDof
        /\ arm \in Vectors /\ \A d \in Tied(c) : u[j][SdkDof[d]] = Six(a, r)[SdkDof[d]]
    BY TiesAreEliminated, TiedFollows DEF TiesStandFree
  <1>3. c.master \in NodeIds /\ c.slave \in NodeIds /\ i \in DOMAIN compiled.nodes /\ j \in DOMAIN compiled.nodes
    BY <1>2, ConstraintIsCompiled, NodesAreNumbered DEF IsCompiled, Compiled
  <1>4. u[i] \in [Dofs -> Int] /\ u[j] \in [Dofs -> Int]
    BY <1>3, DisplacementsAreTyped
  <1>5. /\ m.translation = InverseRotate(Translation(u[i])) /\ m.rotation = InverseRotate(r)
        /\ answer.nodes[c.slave].translation = InverseRotate(Translation(u[j]))
        /\ answer.nodes[c.slave].rotation = InverseRotate(Rotation(u[j]))
    BY <1>1, <1>3 DEF NormalizedNodes
  <1>6. Translation(u[i]) \in Vectors /\ r \in Vectors /\ Rotate(arm) \in Vectors
    BY <1>2, <1>4, MotionsAreVectors, VectorsAreClosed
  <1> HIDE DEF arm, i, j, m, r
  <1>7. t = InverseRotate(a) /\ a \in Vectors
    <2>1. arm = InverseRotate(Rotate(arm))
      BY <1>2, RotateIsInverted
    <2>2. Cross(m.rotation, arm) = InverseRotate(Cross(r, Rotate(arm))) /\ Cross(r, Rotate(arm)) \in Vectors
      BY <1>5, <1>6, <2>1, RotateKeepsProducts, VectorsAreClosed
    <2> QED BY <1>5, <1>6, <2>2, RotateIsLinear, VectorsAreClosed DEF r
  <1> HIDE DEF a, t
  <1>8. /\ t.x = a.x /\ t.y = a.z /\ t.z = -a.y
        /\ m.rotation.x = r.x /\ m.rotation.y = r.z /\ m.rotation.z = -r.y
    BY <1>5, <1>7 DEF InverseRotate, Vec
  <1>9. /\ FrameMotion(c.slave, "TX") = u[j][0] /\ FrameMotion(c.slave, "TY") = u[j][2]
        /\ FrameMotion(c.slave, "TZ") = -u[j][1]
        /\ FrameMotion(c.slave, "RX") = u[j][3] /\ FrameMotion(c.slave, "RY") = u[j][5]
        /\ FrameMotion(c.slave, "RZ") = -u[j][4]
    BY <1>5 DEF FrameMotion, InverseRotate, Translation, Rotation, Vec
  <1>10. /\ Six(a, r)[0] = a.x /\ Six(a, r)[1] = a.y /\ Six(a, r)[2] = a.z
         /\ Six(a, r)[3] = r.x /\ Six(a, r)[4] = r.y /\ Six(a, r)[5] = r.z
    BY DEF Six, Dofs
  <1>11. /\ SdkDof["TX"] = 0 /\ SdkDof["TY"] = 2 /\ SdkDof["TZ"] = 1
         /\ SdkDof["RX"] = 3 /\ SdkDof["RY"] = 5 /\ SdkDof["RZ"] = 4
         /\ DOMAIN SdkDof = {"TX", "TY", "TZ", "RX", "RY", "RZ"}
    BY DEF SdkDof
  <1>12. ASSUME NEW d \in Tied(c)
         PROVE  FrameMotion(c.slave, d) = follows[d]
    <2>1. u[j][SdkDof[d]] = Six(a, r)[SdkDof[d]] /\ d \in DOMAIN SdkDof
      BY <1>2 DEF a
    <2>2. /\ follows["TX"] = t.x /\ follows["TY"] = t.y /\ follows["TZ"] = t.z
          /\ follows["RX"] = m.rotation.x /\ follows["RY"] = m.rotation.y /\ follows["RZ"] = m.rotation.z
      OBVIOUS
    <2> HIDE DEF follows
    <2> QED BY <1>8, <1>9, <1>10, <1>11, <2>1, <2>2
  <1> QED BY <1>2, <1>12 DEF ConstraintHolds, Tied, follows, t, m, arm

(* The motion that comes back obeys the frame's constraint in the frame's  *)
(* own axes, about the frame's own offset, for every tie of a slave to its *)
(* master; of a multi-point constraint that is false (compile.rs:          *)
(* compile_constraints turns an offset, and renames the dofs of a term).   *)
THEOREM TiesHoldInFrameAxes == Spec => [](TiesStandFree => ConstraintsHoldInFrameAxes)
  <1>1. BridgeInv => (TiesStandFree => ConstraintsHoldInFrameAxes)
    BY AnsweredHasAll, TiesHold DEF ConstraintsHoldInFrameAxes
  <1> QED BY <1>1, BridgeInvHolds, PTL

-----------------------------------------------------------------------------
(* The deck under its contacts: the same answers, and the contacts' own    *)
(* force and moment in the kernel's model.                                 *)

(* All that the loads of a loaded deck are is forces and moments at nodes, *)
(* and together they are what the contacts ask for.                        *)
LoadsAreTheContacts ==
  /\ Emitted(frame.loads, frame.nodes) = Asked(contacts)
  /\ \A l \in Range(frame.loads) : l.kind \in {"FORCE", "MOMENT"}

DeckInv ==
  /\ BridgeInv
  /\ stage = "contacts" => frame \in Frames /\ contacts \in LoadingsOf(frame)
  /\ stage \notin {"contacts", "refused"} /\ contacts # <<>> => LoadsAreTheContacts

LEMMA NothingBefore ==
  ASSUME NEW s, IsList(s)
  PROVE  <<>> \o s = s
  <1>1. s \in Seq(Range(s))
    BY DEF IsList
  <1> QED BY <1>1

(* A projection that is put on its deck has been through the audit.        *)
LEMMA ProjectIsAudited ==
  ASSUME DeckInv, Project
  PROVE  DeckInv'
  <1> DEFINE map == ContactMap(frame, contacts)
             projection == Projection(contacts, map, FaceSystems(contacts, map))
             loaded == OnFrame(frame, projection)
             refused == stage' = "refused" /\ frame' = frame
             put == /\ stage' = "frame" /\ frame' = loaded
                    /\ Conserved(contacts, Emitted(projection.loads, loaded.nodes))
                    /\ \A n \in DOMAIN map : map[n] # <<>>
  <1>1. refused \/ put
    <2>1. CASE \E n \in DOMAIN map : map[n] = <<>>
      BY <2>1 DEF Project, Refuse
    <2>2. CASE ~\E n \in DOMAIN map : map[n] = <<>>
      <3>1. PutOnFrame(projection, loaded)
        BY <2>2 DEF Project
      <3> HIDE DEF projection, loaded, map
      <3> QED BY <2>2, <3>1 DEF PutOnFrame, Refuse
    <2> QED BY <2>1, <2>2
  <1>2. stage = "contacts" /\ UNCHANGED contacts /\ frame \in Frames /\ contacts \in LoadingsOf(frame)
        /\ WellFormed(frame)
    BY DEF Project, DeckInv, BridgeInv
  <1>3. CASE refused
    BY <1>2, <1>3 DEF DeckInv, BridgeInv, Answered
  <1>4. CASE put
    <2>1. /\ WellFormed(loaded) /\ IsList(projection.loads)
          /\ \A l \in Range(projection.loads) : l.kind \in {"FORCE", "MOMENT"}
      BY <1>2, <1>4, LoadedAssumption
    <2>2. ASSUME contacts # <<>>
          PROVE  loaded.loads = projection.loads
      <3>1. frame.loads = <<>>
        BY <1>2, <2>2, DecksAssumption DEF LoadingsOf
      <3>2. loaded.loads = frame.loads \o projection.loads
        <4>1. "loads" \in DOMAIN frame
          BY <1>2 DEF WellFormed
        <4> HIDE DEF projection
        <4> QED BY <4>1 DEF OnFrame
      <3> HIDE DEF projection, loaded
      <3> QED BY <2>1, <3>1, <3>2, NothingBefore
    <2> HIDE DEF projection, loaded, map
    <2>3. contacts # <<>> => LoadsAreTheContacts'
      BY <1>2, <1>4, <2>1, <2>2 DEF LoadsAreTheContacts, Conserved
    <2> QED BY <1>2, <1>4, <2>1, <2>3 DEF DeckInv, BridgeInv, Answered
  <1> QED BY <1>1, <1>3, <1>4

LEMMA DeckStep ==
  ASSUME DeckInv, [DeckNext]_deckVars
  PROVE  DeckInv'
  <1>1. CASE Project
    BY <1>1, ProjectIsAudited
  <1>2. ASSUME [Next]_vars, UNCHANGED contacts
        PROVE  DeckInv'
    <2>1. BridgeInv'
      BY <1>2, BridgeStep DEF DeckInv
    <2>2. frame' = frame
      BY <1>2 DEF Next, Compile, Solve, Normalize, Recover, vars
    <2>3. /\ stage' = "contacts" => stage = "contacts"
          /\ stage' \notin {"contacts", "refused"} => stage \notin {"contacts", "refused"}
      BY <1>2 DEF Next, Compile, Solve, Normalize, Recover, vars
    <2>4. LoadsAreTheContacts' = LoadsAreTheContacts
      BY <1>2, <2>2 DEF LoadsAreTheContacts
    <2> QED BY <1>2, <2>1, <2>2, <2>3, <2>4 DEF DeckInv
  <1>3. CASE Bridge
    BY <1>2, <1>3 DEF Bridge
  <1>4. CASE ReadTop
    BY <1>2, <1>4 DEF ReadTop
  <1>5. CASE UNCHANGED deckVars
    BY <1>2, <1>5 DEF deckVars
  <1> QED BY <1>1, <1>3, <1>4, <1>5 DEF DeckNext

LEMMA DeckInvHolds == DeckSpec => []DeckInv
  <1>1. DeckInit => DeckInv
    BY FramesAssumption DEF DeckInit, Asking, DeckInv, BridgeInv, Answered
  <1>2. DeckInv /\ [DeckNext]_deckVars => DeckInv'
    BY DeckStep
  <1> QED BY <1>1, <1>2, PTL DEF DeckSpec

(* What calculate_resultant and the projection's audit make of loads at    *)
(* nodes is the same.                                                      *)
LEMMA AppliedIsEmitted ==
  ASSUME IsCompiled, \A l \in Range(frame.loads) : l.kind \in {"FORCE", "MOMENT"}
  PROVE  Applied = Emitted(frame.loads, frame.nodes)
  <1> DEFINE S == DOMAIN frame.loads
             g == [n \in S |-> InFrame(frame.loads[n])]
             h == [n \in S |-> [point |-> frame.nodes[frame.loads[n].at],
                                force |-> frame.loads[n].force, freeMoment |-> frame.loads[n].moment]]
             levered(p) == Plus(Cross(p.point, p.force), p.freeMoment)
  <1>1. Applied = ResultantOf(g) /\ Emitted(frame.loads, frame.nodes) = ResultantOf(h)
    BY DEF Applied, InFrame, Emitted
  <1>2. ASSUME NEW n \in S
        PROVE  g[n].force = h[n].force /\ levered(g[n]) = levered(h[n])
    <2> DEFINE l == frame.loads[n]
    <2>1. WellFormed(frame) /\ CompileRefusal = "NONE" /\ l \in Range(frame.loads)
      BY DEF IsCompiled, Range
    <2>2. l.kind \in {"FORCE", "MOMENT"} /\ LoadFormed(frame, l) /\ LoadRefusal(l) = "NONE"
      BY <2>1, NotRefused DEF WellFormed
    <2>3. frame.nodes[l.at] \in Vectors
      <3>1. NodesRefusal({l.at}) = "NONE"
        BY <2>2 DEF LoadRefusal
      <3> QED BY <2>1, <3>1, NothingUnknown, NodesAreNumbered
    <2>4. CASE l.kind = "FORCE"
      BY <2>2, <2>4 DEF LoadFormed, InFrame
    <2>5. CASE l.kind = "MOMENT"
      <3>1. l.force = Zero /\ g[n] = [point |-> Zero, force |-> Zero, freeMoment |-> l.moment]
            /\ h[n] = [point |-> frame.nodes[l.at], force |-> Zero, freeMoment |-> l.moment]
        BY <2>2, <2>5 DEF LoadFormed, InFrame
      <3>2. \A v \in Vectors : Cross(v, Zero) = Zero
        BY DEF Vectors, Cross, Zero, Vec
      <3>3. Cross(frame.nodes[l.at], Zero) = Zero /\ Cross(Zero, Zero) = Zero
        BY <2>3, <3>2, VectorsAreClosed
      <3> QED BY <3>1, <3>3
    <2> QED BY <2>2, <2>4, <2>5
  <1>3. /\ [n \in S |-> g[n].force] = [n \in S |-> h[n].force]
        /\ [n \in S |-> levered(g[n])] = [n \in S |-> levered(h[n])]
    <2> HIDE DEF g, h, levered, S
    <2> QED BY <1>2
  <1>4. DOMAIN g = S /\ DOMAIN h = S
    OBVIOUS
  <1> HIDE DEF g, h, S
  <1> QED BY <1>1, <1>3, <1>4 DEF ResultantOf

(* On a loaded deck too an accepted answer is complete, balanced, in the   *)
(* frame's own axes and attributes its constraint forces rightly: what a   *)
(* projection adds to a frame is compiled and read back like the rest      *)
(* (coupled.rs: compose_solved_pallet_frame).                              *)
THEOREM DecksAnswer ==
  DeckSpec => [](TypeOK /\ AcceptedResultBalances /\ ConstraintForcesAreAttributed /\ AnswersInFrameAxes)
  <1>1. DeckInv => BridgeInv
    BY DEF DeckInv
  <1> QED BY <1>1, DeckInvHolds, AnswerIsComplete, AnswerBalances, AnswerIsAttributed,
             AnswerIsInFrameAxes, PTL

(* The loads of the kernel's model, placed by its own numbers, axes and    *)
(* units, have the force and the moment of the contacts: what the audit of *)
(* projection.rs lets through reaches the kernel whole (compile.rs:        *)
(* compile_loads audits nothing).                                          *)
THEOREM ContactsReachTheKernel == DeckSpec => []ContactIsWhatTheKernelIsGiven
  <1>1. ASSUME DeckInv, stage = "compiled", contacts # <<>>
        PROVE  [force  |-> InverseRotate(ToSolver(Sent.force)),
                moment |-> InverseRotate(ToSolver(Sent.moment))] = Asked(contacts)
    <2>1. IsCompiled /\ compiled.applied = Applied /\ LoadsAreTheContacts
      BY <1>1 DEF DeckInv, BridgeInv, IsCompiled, Compiled
    <2>2. Applied = Asked(contacts)
      BY <2>1, AppliedIsEmitted DEF LoadsAreTheContacts
    <2>3. Applied = [force |-> Applied.force, moment |-> Applied.moment]
      BY DEF Applied, ResultantOf
    <2>4. Applied.force = ToFrame(Sent.force) /\ Applied.moment = ToFrame(Sent.moment)
      BY <2>1, SentIsApplied
    <2> QED BY <2>2, <2>3, <2>4 DEF ToFrame
  <1>2. DeckInv => ContactIsWhatTheKernelIsGiven
    BY <1>1 DEF ContactIsWhatTheKernelIsGiven
  <1> QED BY <1>2, DeckInvHolds, PTL
=============================================================================
