----------------------------- MODULE SumTheorems -----------------------------
(***************************************************************************)
(* What SumFunction, the community modules' sum of a function's values,    *)
(* computes over a finite domain: an integer, nothing over nothing, linear *)
(* in the function, of the sign of its values, and where it is taken apart *)
(* at a point.  The unit load's forces and levers and the settlement's     *)
(* normal equations are such sums.                                         *)
(*                                                                         *)
(* SumFunction picks one index after another.  An induction over the sets  *)
(* that are left is an induction over the subsets of a finite set, and     *)
(* needs no operator as a parameter: what is proved is that a set of       *)
(* subsets holds them all.                                                 *)
(*                                                                         *)
(* And counting: a finite set is numbered by the rank of its members, a    *)
(* sum is the same over renamed indices, and the sizes of the classes of a *)
(* function add up to the size of its domain.                              *)
(***************************************************************************)
EXTENDS Integers, FiniteSets, FiniteSetsExt, FiniteSetTheorems,
        WellFoundedInduction, TLAPS

(* The index a sum over s takes first.                                     *)
Pick(s) == CHOOSE x \in s : TRUE

(* g tells the sum of f over every subset of T.                            *)
Tabulates(g, f, T) ==
  g = [s \in SUBSET T |-> IF s = {} THEN 0 ELSE f[Pick(s)] + g[s \ {Pick(s)}]]

Table(f, T) == CHOOSE g : Tabulates(g, f, T)

(* A set of subsets of a finite set that holds the empty one, and every    *)
(* one whose rest it holds, holds them all.                                *)
LEMMA SubsetInduction ==
  ASSUME NEW S, IsFiniteSet(S), NEW P,
         {} \in P,
         \A T \in SUBSET S : T # {} /\ T \ {Pick(T)} \in P => T \in P
  PROVE  SUBSET S \subseteq P
  <1> DEFINE Bad == {T \in SUBSET S : T \notin P}
  <1> SUFFICES ASSUME Bad # {} PROVE FALSE
    OBVIOUS
  <1>1. IsWellFoundedOn(StrictSubsetOrdering(S), SUBSET S)
    BY FS_StrictSubsetOrderingWellFounded, FS_FiniteSubsetsOfFinite
  <1>2. Bad \subseteq SUBSET S
    OBVIOUS
  <1>3. PICK T \in Bad : \A U \in Bad : ~(<< U, T >> \in StrictSubsetOrdering(S))
    <2> HIDE DEF Bad
    <2> QED BY <1>1, <1>2, WFMin
  <1>4. T # {}
    OBVIOUS
  <1>5. Pick(T) \in T
    BY <1>4 DEF Pick
  <1>6. << T \ {Pick(T)}, T >> \in StrictSubsetOrdering(S)
    BY <1>5 DEF StrictSubsetOrdering
  <1>7. T \ {Pick(T)} \in P
    BY <1>3, <1>6
  <1> QED BY <1>4, <1>7

LEMMA TableAgrees ==
  ASSUME NEW f, NEW T, NEW U \in SUBSET T, IsFiniteSet(U),
         NEW g, Tabulates(g, f, T), NEW h, Tabulates(h, f, U)
  PROVE  \A s \in SUBSET U : g[s] = h[s]
  <1> DEFINE P == {s \in SUBSET U : g[s] = h[s]}
  <1>1. {} \in P
    BY DEF Tabulates
  <1>2. ASSUME NEW s \in SUBSET U, s # {}, s \ {Pick(s)} \in P
        PROVE  s \in P
    <2>1. g[s] = f[Pick(s)] + g[s \ {Pick(s)}]
      BY <1>2 DEF Tabulates
    <2>2. h[s] = f[Pick(s)] + h[s \ {Pick(s)}]
      BY <1>2 DEF Tabulates
    <2> QED BY <1>2, <2>1, <2>2
  <1>3. SUBSET U \subseteq P
    <2> HIDE DEF P
    <2> QED BY <1>1, <1>2, SubsetInduction
  <1> QED BY <1>3

LEMMA TableExists ==
  ASSUME NEW f, NEW S, IsFiniteSet(S)
  PROVE  \A T \in SUBSET S : \E g : Tabulates(g, f, T)
  <1> DEFINE Bad == {T \in SUBSET S : ~\E g : Tabulates(g, f, T)}
  <1> SUFFICES ASSUME Bad # {} PROVE FALSE
    OBVIOUS
  <1>1. IsWellFoundedOn(StrictSubsetOrdering(S), SUBSET S)
    BY FS_StrictSubsetOrderingWellFounded, FS_FiniteSubsetsOfFinite
  <1>2. Bad \subseteq SUBSET S
    OBVIOUS
  <1>3. PICK T \in Bad : \A U \in Bad : ~(<< U, T >> \in StrictSubsetOrdering(S))
    <2> HIDE DEF Bad
    <2> QED BY <1>1, <1>2, WFMin
  <1>4. ASSUME NEW U \in SUBSET T, U # T
        PROVE  Tabulates(Table(f, U), f, U)
    <2>1. << U, T >> \in StrictSubsetOrdering(S)
      BY <1>4 DEF StrictSubsetOrdering
    <2>2. U \notin Bad
      BY <1>3, <2>1
    <2>3. \E g : Tabulates(g, f, U)
      BY <1>4, <2>2
    <2> QED BY <2>3 DEF Table
  <1> DEFINE h(s) == IF s = {} THEN 0
                     ELSE f[Pick(s)] + Table(f, s \ {Pick(s)})[s \ {Pick(s)}]
             g    == [s \in SUBSET T |-> h(s)]
  <1>5. ASSUME NEW s \in SUBSET T, s # {}
        PROVE  /\ s \ {Pick(s)} \in SUBSET T
               /\ s \ {Pick(s)} # T
    BY <1>5 DEF Pick
  <1>6. ASSUME NEW s \in SUBSET T, s # T
        PROVE  g[s] = Table(f, s)[s]
    <2>1. Tabulates(Table(f, s), f, s)
      BY <1>4, <1>6
    <2>2. CASE s = {}
      BY <2>1, <2>2 DEF Tabulates
    <2>3. CASE s # {}
      <3> DEFINE u == s \ {Pick(s)}
      <3>1. Table(f, s)[s] = f[Pick(s)] + Table(f, s)[u]
        BY <2>1, <2>3 DEF Tabulates
      <3>2. u \in SUBSET s /\ u # s /\ u \in SUBSET T /\ u # T
        BY <2>3, <1>5 DEF Pick
      <3>3. Tabulates(Table(f, u), f, u)
        BY <3>2, <1>4
      <3>4. IsFiniteSet(u)
        BY FS_Subset, <1>2
      <3>5. Table(f, s)[u] = Table(f, u)[u]
        <4> HIDE DEF u
        <4> QED BY <2>1, <3>2, <3>3, <3>4, TableAgrees
      <3> QED BY <2>3, <3>1, <3>5
    <2> QED BY <2>2, <2>3
  <1>7. ASSUME NEW s \in SUBSET T
        PROVE  g[s] = IF s = {} THEN 0 ELSE f[Pick(s)] + g[s \ {Pick(s)}]
    <2>1. CASE s = {}
      BY <2>1
    <2>2. CASE s # {}
      <3>1. g[s \ {Pick(s)}] = Table(f, s \ {Pick(s)})[s \ {Pick(s)}]
        <4> HIDE DEF g
        <4> QED BY <1>5, <1>6, <2>2
      <3>2. g[s] = f[Pick(s)] + Table(f, s \ {Pick(s)})[s \ {Pick(s)}]
        BY <2>2
      <3> HIDE DEF g
      <3> QED BY <2>2, <3>1, <3>2
    <2> QED BY <2>1, <2>2
  <1>8. Tabulates(g, f, T)
    <2> DEFINE k == [s \in SUBSET T |-> IF s = {} THEN 0 ELSE f[Pick(s)] + g[s \ {Pick(s)}]]
    <2>1. g = [s \in SUBSET T |-> g[s]]
      OBVIOUS
    <2>2. g = k
      <3> HIDE DEF g
      <3> QED BY <1>7, <2>1
    <2> HIDE DEF g
    <2> QED BY <2>2 DEF Tabulates
  <1> QED BY <1>8

(* The sum of a function is the entry of its table for the whole domain.   *)
LEMMA SumIsTabulated ==
  ASSUME NEW f, IsFiniteSet(DOMAIN f)
  PROVE  /\ Tabulates(Table(f, DOMAIN f), f, DOMAIN f)
         /\ SumFunction(f) = Table(f, DOMAIN f)[DOMAIN f]
  <1>1. \E g : Tabulates(g, f, DOMAIN f)
    BY TableExists
  <1>2. SumFunction(f) = Table(f, DOMAIN f)[DOMAIN f]
    BY DEF SumFunction, SumFunctionOnSet, FoldFunctionOnSet, MapThenFoldSet,
           Table, Tabulates, Pick
  <1> QED BY <1>1, <1>2 DEF Table

(* A table starts with nothing for nothing ...                             *)
LEMMA TableStart ==
  ASSUME NEW S, NEW f, NEW g, Tabulates(g, f, S)
  PROVE  g[{}] = 0
  BY DEF Tabulates

(* ... and every other entry is the picked value and the entry of the rest. *)
LEMMA TableEntry ==
  ASSUME NEW S, NEW f, NEW g, Tabulates(g, f, S), NEW T \in SUBSET S, T # {}
  PROVE  /\ Pick(T) \in T
         /\ T \ {Pick(T)} \in SUBSET S
         /\ g[T] = f[Pick(T)] + g[T \ {Pick(T)}]
  BY DEF Tabulates, Pick

(* Nothing is summed over nothing.                                         *)
LEMMA SumOfNothing ==
  ASSUME NEW f, DOMAIN f = {}
  PROVE  SumFunction(f) = 0
  <1>1. IsFiniteSet(DOMAIN f)
    BY FS_EmptySet
  <1>2. Tabulates(Table(f, {}), f, {}) /\ SumFunction(f) = Table(f, {})[{}]
    BY <1>1, SumIsTabulated
  <1> QED BY <1>2, TableStart

(* Integers sum to an integer.                                             *)
LEMMA SumIsInteger ==
  ASSUME NEW S, IsFiniteSet(S), NEW f \in [S -> Int]
  PROVE  SumFunction(f) \in Int
  <1> DEFINE g == Table(f, S)
             P == {T \in SUBSET S : g[T] \in Int}
  <1>1. Tabulates(g, f, S) /\ SumFunction(f) = g[S]
    <2>1. DOMAIN f = S
      OBVIOUS
    <2> QED BY <2>1, SumIsTabulated
  <1> HIDE DEF g
  <1>2. {} \in P
    BY <1>1, TableStart
  <1>3. ASSUME NEW T \in SUBSET S, T # {}, T \ {Pick(T)} \in P
        PROVE  T \in P
    BY <1>1, <1>3, TableEntry
  <1>4. SUBSET S \subseteq P
    <2> HIDE DEF P
    <2> QED BY <1>2, <1>3, SubsetInduction
  <1> QED BY <1>1, <1>4

(* A sum is linear in what is summed.                                      *)
LEMMA SumIsLinear ==
  ASSUME NEW S, IsFiniteSet(S), NEW f \in [S -> Int], NEW g \in [S -> Int],
         NEW a \in Int, NEW b \in Int,
         NEW h \in [S -> Int], \A x \in S : h[x] = a * f[x] + b * g[x]
  PROVE  SumFunction(h) = a * SumFunction(f) + b * SumFunction(g)
  <1> DEFINE tf == Table(f, S)
             tg == Table(g, S)
             th == Table(h, S)
             P  == {T \in SUBSET S : /\ tf[T] \in Int /\ tg[T] \in Int
                                     /\ th[T] = a * tf[T] + b * tg[T]}
  <1>1. Tabulates(tf, f, S) /\ SumFunction(f) = tf[S]
    <2>1. DOMAIN f = S
      OBVIOUS
    <2> QED BY <2>1, SumIsTabulated
  <1>2. Tabulates(tg, g, S) /\ SumFunction(g) = tg[S]
    <2>1. DOMAIN g = S
      OBVIOUS
    <2> QED BY <2>1, SumIsTabulated
  <1>3. Tabulates(th, h, S) /\ SumFunction(h) = th[S]
    <2>1. DOMAIN h = S
      OBVIOUS
    <2> QED BY <2>1, SumIsTabulated
  <1> HIDE DEF tf, tg, th
  <1>4. {} \in P
    <2>1. tf[{}] = 0 /\ tg[{}] = 0 /\ th[{}] = 0
      BY <1>1, <1>2, <1>3, TableStart
    <2> QED BY <2>1
  <1>5. ASSUME NEW T \in SUBSET S, T # {}, T \ {Pick(T)} \in P
        PROVE  T \in P
    <2> DEFINE x == Pick(T)
               R == T \ {x}
    <2>1. x \in S
      BY <1>5, <1>1, TableEntry
    <2>2. tf[T] = f[x] + tf[R] /\ tg[T] = g[x] + tg[R] /\ th[T] = h[x] + th[R]
      <3>1. tf[T] = f[x] + tf[R]
        BY <1>5, <1>1, TableEntry
      <3>2. tg[T] = g[x] + tg[R]
        BY <1>5, <1>2, TableEntry
      <3>3. th[T] = h[x] + th[R]
        BY <1>5, <1>3, TableEntry
      <3> QED BY <3>1, <3>2, <3>3
    <2>3. tf[R] \in Int /\ tg[R] \in Int /\ th[R] = a * tf[R] + b * tg[R]
      BY <1>5
    <2>4. f[x] \in Int /\ g[x] \in Int /\ h[x] = a * f[x] + b * g[x]
      BY <2>1
    <2>5. ASSUME NEW p \in Int, NEW q \in Int, NEW r \in Int, NEW s \in Int
          PROVE  (a * p + b * q) + (a * r + b * s) = a * (p + r) + b * (q + s)
      OBVIOUS
    <2> HIDE DEF x, R
    <2>6. th[T] = a * tf[T] + b * tg[T]
      BY <2>2, <2>3, <2>4, <2>5
    <2> QED BY <2>2, <2>3, <2>4, <2>6
  <1>6. SUBSET S \subseteq P
    <2> HIDE DEF P
    <2> QED BY <1>4, <1>5, SubsetInduction
  <1> QED BY <1>1, <1>2, <1>3, <1>6

LEMMA SumScales ==
  ASSUME NEW S, IsFiniteSet(S), NEW f \in [S -> Int], NEW a \in Int,
         NEW h \in [S -> Int], \A x \in S : h[x] = a * f[x]
  PROVE  SumFunction(h) = a * SumFunction(f)
  <1>1. \A x \in S : h[x] = a * f[x] + 0 * f[x]
    <2> TAKE x \in S
    <2>1. f[x] \in Int /\ h[x] \in Int /\ h[x] = a * f[x]
      OBVIOUS
    <2> QED BY <2>1
  <1>2. SumFunction(h) = a * SumFunction(f) + 0 * SumFunction(f)
    BY <1>1, SumIsLinear
  <1>3. SumFunction(f) \in Int /\ SumFunction(h) \in Int
    BY SumIsInteger
  <1> QED BY <1>2, <1>3

LEMMA SumAdds ==
  ASSUME NEW S, IsFiniteSet(S), NEW f \in [S -> Int], NEW g \in [S -> Int],
         NEW h \in [S -> Int], \A x \in S : h[x] = f[x] + g[x]
  PROVE  SumFunction(h) = SumFunction(f) + SumFunction(g)
  <1> DEFINE one == 1
  <1>1. one \in Int /\ \A n \in Int : one * n = n
    OBVIOUS
  <1> HIDE DEF one
  <1>2. \A x \in S : h[x] = one * f[x] + one * g[x]
    <2> TAKE x \in S
    <2>1. f[x] \in Int /\ g[x] \in Int /\ h[x] = f[x] + g[x]
      OBVIOUS
    <2> QED BY <2>1, <1>1
  <1>3. SumFunction(h) = one * SumFunction(f) + one * SumFunction(g)
    BY <1>1, <1>2, SumIsLinear
  <1>4. SumFunction(f) \in Int /\ SumFunction(g) \in Int
    BY SumIsInteger
  <1> QED BY <1>1, <1>3, <1>4

(* One term sums to itself.                                                *)
LEMMA SumOfOne ==
  ASSUME NEW x, NEW f \in [{x} -> Int]
  PROVE  SumFunction(f) = f[x]
  <1> DEFINE g == Table(f, {x})
  <1>1. IsFiniteSet({x}) /\ DOMAIN f = {x}
    BY FS_Singleton
  <1>2. Tabulates(g, f, {x}) /\ SumFunction(f) = g[{x}]
    BY <1>1, SumIsTabulated
  <1> HIDE DEF g
  <1>3. /\ Pick({x}) \in {x}
        /\ g[{x}] = f[Pick({x})] + g[{x} \ {Pick({x})}]
    BY <1>2, TableEntry
  <1>4. g[{}] = 0
    BY <1>2, TableStart
  <1>5. g[{x}] = f[x] + g[{}]
    <2>1. Pick({x}) = x /\ {x} \ {x} = {}
      BY <1>3
    <2> QED BY <1>3, <2>1
  <1> QED BY <1>2, <1>4, <1>5

(* Linear in three or four functions at once.                              *)
LEMMA SumOfThree ==
  ASSUME NEW S, IsFiniteSet(S),
         NEW f \in [S -> Int], NEW g \in [S -> Int], NEW h \in [S -> Int],
         NEW a \in Int, NEW b \in Int, NEW c \in Int,
         NEW e \in [S -> Int]
  PROVE  (\A x \in S : e[x] = a * f[x] + b * g[x] + c * h[x]) =>
           SumFunction(e) = a * SumFunction(f) + b * SumFunction(g) + c * SumFunction(h)
  <1> DEFINE p == [x \in S |-> a * f[x] + b * g[x]]
             q == [x \in S |-> c * h[x]]
  <1>1. p \in [S -> Int] /\ \A x \in S : p[x] = a * f[x] + b * g[x]
    OBVIOUS
  <1>2. q \in [S -> Int] /\ \A x \in S : q[x] = c * h[x]
    OBVIOUS
  <1> HIDE DEF p, q
  <1>3. SumFunction(p) = a * SumFunction(f) + b * SumFunction(g)
    BY <1>1, SumIsLinear
  <1>4. SumFunction(q) = c * SumFunction(h)
    BY <1>2, SumScales
  <1> HAVE \A x \in S : e[x] = a * f[x] + b * g[x] + c * h[x]
  <1>5. \A x \in S : e[x] = p[x] + q[x]
    BY <1>1, <1>2
  <1>6. SumFunction(e) = SumFunction(p) + SumFunction(q)
    BY <1>1, <1>2, <1>5, SumAdds
  <1> QED BY <1>3, <1>4, <1>6

LEMMA SumOfFour ==
  ASSUME NEW S, IsFiniteSet(S),
         NEW f \in [S -> Int], NEW g \in [S -> Int], NEW h \in [S -> Int], NEW k \in [S -> Int],
         NEW a \in Int, NEW b \in Int, NEW c \in Int, NEW d \in Int,
         NEW e \in [S -> Int],
         \A x \in S : e[x] = a * f[x] + b * g[x] + c * h[x] + d * k[x]
  PROVE  SumFunction(e) = a * SumFunction(f) + b * SumFunction(g)
                          + c * SumFunction(h) + d * SumFunction(k)
  <1> DEFINE p == [x \in S |-> a * f[x] + b * g[x]]
             q == [x \in S |-> c * h[x] + d * k[x]]
  <1>1. p \in [S -> Int] /\ \A x \in S : p[x] = a * f[x] + b * g[x]
    OBVIOUS
  <1>2. q \in [S -> Int] /\ \A x \in S : q[x] = c * h[x] + d * k[x]
    OBVIOUS
  <1> HIDE DEF p, q
  <1>3. SumFunction(p) = a * SumFunction(f) + b * SumFunction(g)
    BY <1>1, SumIsLinear
  <1>4. SumFunction(q) = c * SumFunction(h) + d * SumFunction(k)
    BY <1>2, SumIsLinear
  <1>5. \A x \in S : e[x] = p[x] + q[x]
    BY <1>1, <1>2
  <1>6. SumFunction(e) = SumFunction(p) + SumFunction(q)
    BY <1>1, <1>2, <1>5, SumAdds
  <1>7. /\ SumFunction(f) \in Int /\ SumFunction(g) \in Int
        /\ SumFunction(h) \in Int /\ SumFunction(k) \in Int
        /\ SumFunction(p) \in Int /\ SumFunction(q) \in Int
    BY <1>1, <1>2, SumIsInteger
  <1>8. /\ a * SumFunction(f) \in Int /\ b * SumFunction(g) \in Int
        /\ c * SumFunction(h) \in Int /\ d * SumFunction(k) \in Int
    BY <1>7
  <1> QED BY <1>3, <1>4, <1>6, <1>8

(* A sum takes the picked value, and the sum of the rest.                  *)
LEMMA SumTakesThePicked ==
  ASSUME NEW S, IsFiniteSet(S), S # {}, NEW f \in [S -> Int]
  PROVE  /\ Pick(S) \in S
         /\ SumFunction(f) = f[Pick(S)] + SumFunction([x \in S \ {Pick(S)} |-> f[x]])
  <1> DEFINE R == S \ {Pick(S)}
             h == [x \in R |-> f[x]]
             tf == Table(f, S)
             th == Table(h, R)
             P  == {T \in SUBSET R : tf[T] = th[T]}
  <1>1. IsFiniteSet(R) /\ R \in SUBSET S
    BY FS_Subset
  <1>2. Tabulates(tf, f, S) /\ SumFunction(f) = tf[S]
    <2>1. DOMAIN f = S
      OBVIOUS
    <2> QED BY <2>1, SumIsTabulated
  <1>3. Tabulates(th, h, R) /\ SumFunction(h) = th[R]
    <2>1. DOMAIN h = R
      OBVIOUS
    <2> QED BY <1>1, <2>1, SumIsTabulated
  <1>4. Pick(S) \in S /\ tf[S] = f[Pick(S)] + tf[R]
    BY <1>2, TableEntry
  <1>5. \A x \in R : h[x] = f[x]
    OBVIOUS
  <1> HIDE DEF R, h, tf, th
  <1>6. \A T \in SUBSET S : T # {} => tf[T] = f[Pick(T)] + tf[T \ {Pick(T)}]
    <2>1. Tabulates(tf, f, S)
      BY <1>2
    <2> QED BY <2>1, TableEntry
  <1>7. {} \in P
    BY <1>2, <1>3, TableStart
  <1>8. ASSUME NEW T \in SUBSET R, T # {}, T \ {Pick(T)} \in P
        PROVE  T \in P
    <2>1. T \in SUBSET S
      BY <1>1
    <2>2. tf[T] = f[Pick(T)] + tf[T \ {Pick(T)}]
      BY <2>1, <1>6, <1>8
    <2>3. Pick(T) \in T /\ th[T] = h[Pick(T)] + th[T \ {Pick(T)}]
      BY <1>3, <1>8, TableEntry
    <2> QED BY <2>2, <2>3, <1>5, <1>8
  <1>9. SUBSET R \subseteq P
    <2> HIDE DEF P
    <2> QED BY <1>1, <1>7, <1>8, SubsetInduction
  <1>10. tf[R] = th[R]
    BY <1>9
  <1> QED BY <1>2, <1>3, <1>4, <1>10 DEF R, h

(* What vanishes but at one point sums to its value there.                 *)
LEMMA SumAtAPoint ==
  ASSUME NEW S, IsFiniteSet(S), NEW f \in [S -> Int], NEW y \in S,
         \A x \in S : x # y => f[x] = 0
  PROVE  SumFunction(f) = f[y]
  <1> DEFINE g == Table(f, S)
             P == {T \in SUBSET S : g[T] = IF y \in T THEN f[y] ELSE 0}
  <1>1. Tabulates(g, f, S) /\ SumFunction(f) = g[S]
    <2>1. DOMAIN f = S
      OBVIOUS
    <2> QED BY <2>1, SumIsTabulated
  <1> HIDE DEF g
  <1>2. {} \in P
    BY <1>1, TableStart
  <1>3. ASSUME NEW T \in SUBSET S, T # {}, T \ {Pick(T)} \in P
        PROVE  T \in P
    <2>1. Pick(T) \in T /\ g[T] = f[Pick(T)] + g[T \ {Pick(T)}]
      BY <1>1, <1>3, TableEntry
    <2>2. g[T \ {Pick(T)}] = IF y \in T \ {Pick(T)} THEN f[y] ELSE 0
      BY <1>3
    <2>3. f[y] \in Int
      OBVIOUS
    <2>4. CASE Pick(T) = y
      <3>1. g[T \ {Pick(T)}] = 0 /\ y \in T
        BY <2>1, <2>2, <2>4
      <3> QED BY <3>1, <2>1, <2>3, <2>4
    <2>5. CASE Pick(T) # y
      <3>1. f[Pick(T)] = 0 /\ (y \in T \ {Pick(T)} <=> y \in T)
        BY <2>1, <2>5
      <3> QED BY <3>1, <2>1, <2>2, <2>3
    <2> QED BY <2>4, <2>5
  <1>4. SUBSET S \subseteq P
    <2> HIDE DEF P
    <2> QED BY <1>2, <1>3, SubsetInduction
  <1> QED BY <1>1, <1>4

(* What vanishes outside a subset is summed over the subset.               *)
LEMMA SumWhereItIsNotZero ==
  ASSUME NEW S, IsFiniteSet(S)
  PROVE  \A T \in SUBSET S : \A f \in [S -> Int] :
           (\A x \in S \ T : f[x] = 0) => SumFunction(f) = SumFunction([x \in T |-> f[x]])
  <1> DEFINE P == {T \in SUBSET S : \A f \in [S -> Int] :
                     (\A x \in S \ T : f[x] = 0)
                        => SumFunction(f) = SumFunction([x \in T |-> f[x]])}
  <1>1. {} \in P
    <2> SUFFICES ASSUME NEW f \in [S -> Int], \A x \in S : f[x] = 0
                 PROVE  SumFunction(f) = SumFunction([x \in {} |-> f[x]])
      OBVIOUS
    <2>1. SumFunction([x \in {} |-> f[x]]) = 0
      BY SumOfNothing
    <2>2. SumFunction(f) \in Int
      BY SumIsInteger
    <2>3. SumFunction(f) = SumFunction(f) + SumFunction(f)
      BY SumAdds
    <2> QED BY <2>1, <2>2, <2>3
  <1>2. ASSUME NEW T \in SUBSET S, T # {}, T \ {Pick(T)} \in P
        PROVE  T \in P
    <2> SUFFICES ASSUME NEW f \in [S -> Int], \A x \in S \ T : f[x] = 0
                 PROVE  SumFunction(f) = SumFunction([x \in T |-> f[x]])
      OBVIOUS
    <2> DEFINE y == Pick(T)
               R == T \ {y}
               fT == [x \in T |-> f[x]]
               rest == [x \in S |-> IF x = y THEN 0 ELSE f[x]]
               point == [x \in S |-> IF x = y THEN f[x] ELSE 0]
    <2>1. IsFiniteSet(T) /\ fT \in [T -> Int]
      BY FS_Subset
    <2>2. y \in T /\ SumFunction(fT) = fT[y] + SumFunction([x \in R |-> fT[x]])
      BY <2>1, <1>2, SumTakesThePicked
    <2>3. [x \in R |-> fT[x]] = [x \in R |-> f[x]] /\ fT[y] = f[y]
      BY <2>2
    <2>4. rest \in [S -> Int] /\ point \in [S -> Int]
      OBVIOUS
    <2>5. SumFunction(rest) = SumFunction([x \in R |-> rest[x]])
      <3>1. \A x \in S \ R : rest[x] = 0
        BY <2>2
      <3> HIDE DEF rest
      <3> QED BY <3>1, <2>4, <1>2
    <2>6. [x \in R |-> rest[x]] = [x \in R |-> f[x]]
      <3>1. \A x \in R : rest[x] = f[x]
        OBVIOUS
      <3> HIDE DEF rest
      <3> QED BY <3>1
    <2>7. SumFunction(point) = f[y]
      <3>1. y \in S /\ point[y] = f[y] /\ \A x \in S : x # y => point[x] = 0
        BY <2>2
      <3> HIDE DEF point, y
      <3> QED BY <3>1, <2>4, SumAtAPoint
    <2>8. SumFunction(f) = SumFunction(point) + SumFunction(rest)
      <3>1. \A x \in S : f[x] = point[x] + rest[x]
        OBVIOUS
      <3> HIDE DEF point, rest
      <3> QED BY <3>1, <2>4, SumAdds
    <2> HIDE DEF y, R, fT, rest, point
    <2> QED BY <2>2, <2>3, <2>5, <2>6, <2>7, <2>8 DEF fT
  <1>3. SUBSET S \subseteq P
    <2> HIDE DEF P
    <2> QED BY <1>1, <1>2, SubsetInduction
  <1> QED BY <1>3

(* What is never negative sums to no less than any of it.                  *)
LEMMA SumBoundsItsTerms ==
  ASSUME NEW S, IsFiniteSet(S), NEW f \in [S -> Nat]
  PROVE  /\ SumFunction(f) \in Nat
         /\ \A x \in S : f[x] <= SumFunction(f)
  <1> DEFINE g == Table(f, S)
             P == {T \in SUBSET S : g[T] \in Nat /\ \A x \in T : f[x] <= g[T]}
  <1>1. Tabulates(g, f, S) /\ SumFunction(f) = g[S]
    <2>1. DOMAIN f = S
      OBVIOUS
    <2> QED BY <2>1, SumIsTabulated
  <1> HIDE DEF g
  <1>2. {} \in P
    BY <1>1, TableStart
  <1>3. ASSUME NEW T \in SUBSET S, T # {}, T \ {Pick(T)} \in P
        PROVE  T \in P
    <2>1. Pick(T) \in S /\ g[T] = f[Pick(T)] + g[T \ {Pick(T)}]
      BY <1>1, <1>3, TableEntry
    <2>2. g[T \ {Pick(T)}] \in Nat /\ \A x \in T \ {Pick(T)} : f[x] <= g[T \ {Pick(T)}]
      BY <1>3
    <2>3. g[T] \in Nat /\ f[Pick(T)] <= g[T] /\ g[T \ {Pick(T)}] <= g[T]
      BY <2>1, <2>2
    <2>4. \A x \in T : f[x] <= g[T]
      <3> TAKE x \in T
      <3>1. CASE x = Pick(T)
        BY <2>3, <3>1
      <3>2. CASE x # Pick(T)
        <4>1. f[x] <= g[T \ {Pick(T)}] /\ f[x] \in Nat
          BY <2>2, <3>2
        <4> QED BY <2>2, <2>3, <4>1
      <3> QED BY <3>1, <3>2
    <2> QED BY <2>3, <2>4
  <1>4. SUBSET S \subseteq P
    <2> HIDE DEF P
    <2> QED BY <1>2, <1>3, SubsetInduction
  <1> QED BY <1>1, <1>4

(* A sum of ones counts.                                                   *)
LEMMA SumCounts ==
  ASSUME NEW S, IsFiniteSet(S), NEW f \in [S -> {1}]
  PROVE  SumFunction(f) = Cardinality(S)
  <1> DEFINE g == Table(f, S)
             P == {T \in SUBSET S : g[T] = Cardinality(T)}
  <1>1. Tabulates(g, f, S) /\ SumFunction(f) = g[S]
    <2>1. DOMAIN f = S
      OBVIOUS
    <2> QED BY <2>1, SumIsTabulated
  <1> HIDE DEF g
  <1>2. {} \in P
    BY <1>1, TableStart, FS_EmptySet
  <1>3. ASSUME NEW T \in SUBSET S, T # {}, T \ {Pick(T)} \in P
        PROVE  T \in P
    <2>1. Pick(T) \in T /\ g[T] = f[Pick(T)] + g[T \ {Pick(T)}]
      BY <1>1, <1>3, TableEntry
    <2>2. IsFiniteSet(T)
      BY FS_Subset
    <2>3. Cardinality(T \ {Pick(T)}) = Cardinality(T) - 1 /\ Cardinality(T) \in Nat
      BY <2>1, <2>2, FS_RemoveElement, FS_CardinalityType
    <2>4. f[Pick(T)] = 1 /\ g[T \ {Pick(T)}] = Cardinality(T \ {Pick(T)})
      BY <1>3, <2>1
    <2> QED BY <2>1, <2>3, <2>4
  <1>4. SUBSET S \subseteq P
    <2> HIDE DEF P
    <2> QED BY <1>2, <1>3, SubsetInduction
  <1> QED BY <1>1, <1>4

-----------------------------------------------------------------------------
(* Sums against a ratio given by its square: q is the square of how many   *)
(* of one go into one of the other.                                        *)

LEMMA ProductsAreMonotone ==
  ASSUME NEW a \in Nat, NEW b \in Nat, NEW c \in Nat, NEW d \in Nat,
         a <= b, c <= d
  PROVE  a * c <= b * d
  <1>1. a * c <= b * c
    OBVIOUS
  <1>2. b * c <= b * d
    OBVIOUS
  <1>3. a * c \in Int /\ b * c \in Int /\ b * d \in Int
    OBVIOUS
  <1> QED BY <1>1, <1>2, <1>3

LEMMA RootsAreMonotone ==
  ASSUME NEW a \in Nat, NEW b \in Nat, a * a <= b * b
  PROVE  a <= b
  <1> SUFFICES ASSUME b + 1 <= a PROVE FALSE
    OBVIOUS
  <1>1. (b + 1) * (b + 1) <= a * a
    BY ProductsAreMonotone
  <1>2. (b + 1) * (b + 1) = b * b + 2 * b + 1
    OBVIOUS
  <1>3. a * a \in Int /\ b * b \in Int
    OBVIOUS
  <1> QED BY <1>1, <1>2, <1>3

(* The cross term of two sums that each keep to the ratio keeps to it.     *)
LEMMA CrossTerm ==
  ASSUME NEW s \in Nat, NEW p \in Nat, NEW q \in Nat, NEW b \in Nat, NEW r \in Nat
  PROVE  /\ s * s * q <= b * b /\ p * p * q <= r * r => s * p * q <= b * r
         /\ b * b <= s * s * q /\ r * r <= p * p * q => b * r <= s * p * q
  <1>1. (s * p * q) * (s * p * q) = (s * s * q) * (p * p * q)
    OBVIOUS
  <1>2. (b * r) * (b * r) = (b * b) * (r * r)
    OBVIOUS
  <1>3. s * p * q \in Nat /\ b * r \in Nat
    OBVIOUS
  <1>4. s * s * q \in Nat /\ p * p * q \in Nat /\ b * b \in Nat /\ r * r \in Nat
    OBVIOUS
  <1>5. ASSUME s * s * q <= b * b, p * p * q <= r * r PROVE s * p * q <= b * r
    <2>1. (s * s * q) * (p * p * q) <= (b * b) * (r * r)
      BY <1>4, <1>5, ProductsAreMonotone
    <2> QED BY <1>1, <1>2, <1>3, <2>1, RootsAreMonotone
  <1>6. ASSUME b * b <= s * s * q, r * r <= p * p * q PROVE b * r <= s * p * q
    <2>1. (b * b) * (r * r) <= (s * s * q) * (p * p * q)
      BY <1>4, <1>6, ProductsAreMonotone
    <2> QED BY <1>1, <1>2, <1>3, <2>1, RootsAreMonotone
  <1> QED BY <1>5, <1>6

LEMMA SquareOfASum ==
  ASSUME NEW s \in Nat, NEW p \in Nat, NEW q \in Nat
  PROVE  /\ (p + s) * (p + s) * q = p * p * q + 2 * (s * p * q) + s * s * q
         /\ (p + s) * (p + s) = p * p + 2 * (s * p) + s * s
  OBVIOUS

(* What keeps to the ratio term by term keeps to it summed up.             *)
LEMMA SumsKeepTheRatio ==
  ASSUME NEW S, IsFiniteSet(S), NEW f \in [S -> Nat], NEW b \in [S -> Nat], NEW q \in Nat,
         \A x \in S : f[x] * f[x] * q <= b[x] * b[x]
  PROVE  SumFunction(f) * SumFunction(f) * q <= SumFunction(b) * SumFunction(b)
  <1> DEFINE tf == Table(f, S)
             tb == Table(b, S)
             P  == {T \in SUBSET S : /\ tf[T] \in Nat /\ tb[T] \in Nat
                                     /\ tf[T] * tf[T] * q <= tb[T] * tb[T]}
  <1>1. Tabulates(tf, f, S) /\ SumFunction(f) = tf[S]
    <2>1. DOMAIN f = S
      OBVIOUS
    <2> QED BY <2>1, SumIsTabulated
  <1>2. Tabulates(tb, b, S) /\ SumFunction(b) = tb[S]
    <2>1. DOMAIN b = S
      OBVIOUS
    <2> QED BY <2>1, SumIsTabulated
  <1> HIDE DEF tf, tb
  <1>3. {} \in P
    <2>1. tf[{}] = 0 /\ tb[{}] = 0
      BY <1>1, <1>2, TableStart
    <2> QED BY <2>1
  <1>4. ASSUME NEW T \in SUBSET S, T # {}, T \ {Pick(T)} \in P
        PROVE  T \in P
    <2> DEFINE x == Pick(T)
               R == T \ {x}
    <2>1. x \in S /\ tf[T] = f[x] + tf[R]
      BY <1>4, <1>1, TableEntry
    <2>2. tb[T] = b[x] + tb[R]
      <3>1. T # {}
        BY <1>4
      <3> HIDE DEF P
      <3> QED BY <1>2, <3>1, TableEntry
    <2>3. tf[R] \in Nat /\ tb[R] \in Nat /\ tf[R] * tf[R] * q <= tb[R] * tb[R]
      BY <1>4
    <2>4. f[x] \in Nat /\ b[x] \in Nat /\ f[x] * f[x] * q <= b[x] * b[x]
      BY <2>1
    <2> HIDE DEF x, R
    <2>5. tf[R] * f[x] * q <= tb[R] * b[x]
      BY <2>3, <2>4, CrossTerm
    <2>6. /\ (f[x] + tf[R]) * (f[x] + tf[R]) * q
               = f[x] * f[x] * q + 2 * (tf[R] * f[x] * q) + tf[R] * tf[R] * q
          /\ (b[x] + tb[R]) * (b[x] + tb[R]) = b[x] * b[x] + 2 * (tb[R] * b[x]) + tb[R] * tb[R]
      BY <2>3, <2>4, SquareOfASum
    <2>7. (f[x] + tf[R]) * (f[x] + tf[R]) * q <= (b[x] + tb[R]) * (b[x] + tb[R])
      <3>1. ASSUME NEW a1 \in Int, NEW a2 \in Int, NEW a3 \in Int,
                   NEW b1 \in Int, NEW b2 \in Int, NEW b3 \in Int,
                   a1 <= b1, a2 <= b2, a3 <= b3
            PROVE  a1 + 2 * a2 + a3 <= b1 + 2 * b2 + b3
        BY <3>1
      <3>2. /\ f[x] * f[x] * q \in Int /\ tf[R] * f[x] * q \in Int /\ tf[R] * tf[R] * q \in Int
            /\ b[x] * b[x] \in Int /\ tb[R] * b[x] \in Int /\ tb[R] * tb[R] \in Int
        BY <2>3, <2>4
      <3> QED BY <2>3, <2>4, <2>5, <2>6, <3>1, <3>2
    <2>8. tf[T] \in Nat /\ tb[T] \in Nat
      BY <2>1, <2>2, <2>3, <2>4
    <2> QED BY <2>1, <2>2, <2>7, <2>8
  <1>5. SUBSET S \subseteq P
    <2> HIDE DEF P
    <2> QED BY <1>3, <1>4, SubsetInduction
  <1> QED BY <1>1, <1>2, <1>5

(* ... and what never exceeds it, and at one term falls short of it, falls *)
(* short of it summed up.                                                  *)
LEMMA SumsFallShortOfTheRatio ==
  ASSUME NEW S, IsFiniteSet(S), NEW f \in [S -> Nat], NEW b \in [S -> Nat], NEW q \in Nat,
         \A x \in S : b[x] * b[x] <= f[x] * f[x] * q,
         NEW y \in S, b[y] * b[y] < f[y] * f[y] * q
  PROVE  SumFunction(b) * SumFunction(b) < SumFunction(f) * SumFunction(f) * q
  <1> DEFINE tf == Table(f, S)
             tb == Table(b, S)
             P  == {T \in SUBSET S :
                      /\ tf[T] \in Nat /\ tb[T] \in Nat
                      /\ tb[T] * tb[T] <= tf[T] * tf[T] * q
                      /\ y \in T => tb[T] * tb[T] < tf[T] * tf[T] * q}
  <1>1. Tabulates(tf, f, S) /\ SumFunction(f) = tf[S]
    <2>1. DOMAIN f = S
      OBVIOUS
    <2> QED BY <2>1, SumIsTabulated
  <1>2. Tabulates(tb, b, S) /\ SumFunction(b) = tb[S]
    <2>1. DOMAIN b = S
      OBVIOUS
    <2> QED BY <2>1, SumIsTabulated
  <1> HIDE DEF tf, tb
  <1>3. {} \in P
    <2>1. tf[{}] = 0 /\ tb[{}] = 0
      BY <1>1, <1>2, TableStart
    <2> QED BY <2>1
  <1>4. ASSUME NEW T \in SUBSET S, T # {}, T \ {Pick(T)} \in P
        PROVE  T \in P
    <2> DEFINE x == Pick(T)
               R == T \ {x}
    <2>1. x \in S /\ tf[T] = f[x] + tf[R]
      BY <1>4, <1>1, TableEntry
    <2>2. tb[T] = b[x] + tb[R]
      <3>1. T # {}
        BY <1>4
      <3> HIDE DEF P
      <3> QED BY <1>2, <3>1, TableEntry
    <2>3. /\ tf[R] \in Nat /\ tb[R] \in Nat /\ tb[R] * tb[R] <= tf[R] * tf[R] * q
          /\ y \in R => tb[R] * tb[R] < tf[R] * tf[R] * q
      BY <1>4
    <2>4. /\ f[x] \in Nat /\ b[x] \in Nat /\ b[x] * b[x] <= f[x] * f[x] * q
          /\ x = y => b[x] * b[x] < f[x] * f[x] * q
      BY <2>1
    <2>5. y \in T => y \in R \/ x = y
      OBVIOUS
    <2> HIDE DEF x, R
    <2>6. tb[R] * b[x] <= tf[R] * f[x] * q
      BY <2>3, <2>4, CrossTerm
    <2>7. /\ (f[x] + tf[R]) * (f[x] + tf[R]) * q
               = f[x] * f[x] * q + 2 * (tf[R] * f[x] * q) + tf[R] * tf[R] * q
          /\ (b[x] + tb[R]) * (b[x] + tb[R]) = b[x] * b[x] + 2 * (tb[R] * b[x]) + tb[R] * tb[R]
      BY <2>3, <2>4, SquareOfASum
    <2>8. /\ f[x] * f[x] * q \in Int /\ tf[R] * f[x] * q \in Int /\ tf[R] * tf[R] * q \in Int
          /\ b[x] * b[x] \in Int /\ tb[R] * b[x] \in Int /\ tb[R] * tb[R] \in Int
      BY <2>3, <2>4
    <2>9. (b[x] + tb[R]) * (b[x] + tb[R]) <= (f[x] + tf[R]) * (f[x] + tf[R]) * q
      <3>1. ASSUME NEW a1 \in Int, NEW a2 \in Int, NEW a3 \in Int,
                   NEW b1 \in Int, NEW b2 \in Int, NEW b3 \in Int,
                   a1 <= b1, a2 <= b2, a3 <= b3
            PROVE  a1 + 2 * a2 + a3 <= b1 + 2 * b2 + b3
        BY <3>1
      <3> QED BY <2>3, <2>4, <2>6, <2>7, <2>8, <3>1
    <2>10. y \in T => (b[x] + tb[R]) * (b[x] + tb[R]) < (f[x] + tf[R]) * (f[x] + tf[R]) * q
      <3>1. ASSUME NEW a1 \in Int, NEW a2 \in Int, NEW a3 \in Int,
                   NEW b1 \in Int, NEW b2 \in Int, NEW b3 \in Int,
                   a1 <= b1, a2 <= b2, a3 <= b3, a1 < b1 \/ a3 < b3
            PROVE  a1 + 2 * a2 + a3 < b1 + 2 * b2 + b3
        BY <3>1
      <3> QED BY <2>3, <2>4, <2>5, <2>6, <2>7, <2>8, <3>1
    <2>11. tf[T] \in Nat /\ tb[T] \in Nat
      BY <2>1, <2>2, <2>3, <2>4
    <2> QED BY <2>1, <2>2, <2>9, <2>10, <2>11
  <1>5. SUBSET S \subseteq P
    <2> HIDE DEF P
    <2> QED BY <1>3, <1>4, SubsetInduction
  <1> QED BY <1>1, <1>2, <1>5

(* How many of S stand no later than x.                                    *)
Rank(S, place, x) == Cardinality({y \in S : place[y] <= place[x]})

NumberedByRank(S, place) ==
  /\ \A x \in S : Rank(S, place, x) \in 1..Cardinality(S)
  /\ \A x, y \in S : Rank(S, place, x) = Rank(S, place, y) => x = y
  /\ \A n \in 1..Cardinality(S) : \E x \in S : Rank(S, place, x) = n

(* Distinct places number a finite set from one to its size.               *)
LEMMA RanksNumber ==
  ASSUME NEW S, IsFiniteSet(S), NEW place, \A x \in S : place[x] \in Int,
         \A x, y \in S : place[x] = place[y] => x = y
  PROVE  NumberedByRank(S, place)
  <1> DEFINE upTo(x) == {y \in S : place[y] <= place[x]}
             rank == [x \in S |-> Rank(S, place, x)]
  <1>1. Cardinality(S) \in Nat
    BY FS_CardinalityType
  <1>2. ASSUME NEW x \in S
        PROVE  /\ IsFiniteSet(upTo(x)) /\ upTo(x) \in SUBSET S /\ x \in upTo(x)
               /\ Cardinality(upTo(x)) \in 1..Cardinality(S)
    <2>1. upTo(x) \in SUBSET S /\ x \in upTo(x)
      BY <1>2
    <2> HIDE DEF upTo
    <2>2. IsFiniteSet(upTo(x)) /\ Cardinality(upTo(x)) <= Cardinality(S)
      BY <2>1, FS_Subset
    <2>3. Cardinality(upTo(x)) \in Nat /\ Cardinality(upTo(x)) # 0
      BY <2>1, <2>2, FS_CardinalityType, FS_EmptySet
    <2> QED BY <1>1, <2>1, <2>2, <2>3
  <1>3. \A x \in S : Rank(S, place, x) \in 1..Cardinality(S)
    BY <1>2 DEF Rank
  <1>4. ASSUME NEW x \in S, NEW y \in S, place[x] < place[y]
        PROVE  Rank(S, place, x) # Rank(S, place, y)
    <2>1. upTo(x) \in SUBSET upTo(y) /\ y \notin upTo(x) /\ y \in upTo(y)
      BY <1>4
    <2>2. IsFiniteSet(upTo(y))
      BY <1>2
    <2>3. Cardinality(upTo(y)) = Cardinality(upTo(x)) => upTo(y) = upTo(x)
      <3> HIDE DEF upTo
      <3> QED BY <2>1, <2>2, FS_Subset
    <2> QED BY <2>1, <2>3 DEF Rank
  <1>5. ASSUME NEW x \in S, NEW y \in S, Rank(S, place, x) = Rank(S, place, y)
        PROVE  x = y
    <2>1. place[x] \in Int /\ place[y] \in Int /\ ~(place[x] < place[y]) /\ ~(place[y] < place[x])
      BY <1>4, <1>5
    <2>2. place[x] = place[y]
      BY <2>1
    <2> QED BY <2>2
  <1>6. rank \in Injection(S, 1..Cardinality(S))
    <2>1. rank \in [S -> 1..Cardinality(S)]
      BY <1>3
    <2>2. \A x, y \in S : rank[x] = rank[y] => x = y
      BY <1>5
    <2> HIDE DEF rank
    <2> QED BY <2>1, <2>2 DEF Injection, IsInjective
  <1>7. IsFiniteSet(1..Cardinality(S)) /\ Cardinality(1..Cardinality(S)) = Cardinality(S)
    <2>1. 1 \in Int /\ Cardinality(S) \in Int
      BY <1>1
    <2>2. /\ IsFiniteSet(1..Cardinality(S))
          /\ Cardinality(1..Cardinality(S))
               = IF 1 > Cardinality(S) THEN 0 ELSE Cardinality(S) - 1 + 1
      BY <2>1, FS_Interval
    <2> QED BY <1>1, <2>2
  <1>8. rank \in Surjection(S, 1..Cardinality(S))
    <2> HIDE DEF rank
    <2> QED BY <1>6, <1>7, FS_Injection
  <1>9. \A n \in 1..Cardinality(S) : \E x \in S : Rank(S, place, x) = n
    <2>1. \A n \in 1..Cardinality(S) : \E x \in S : rank[x] = n
      <3> HIDE DEF rank
      <3> QED BY <1>8 DEF Surjection
    <2> QED BY <2>1
  <1> QED BY <1>3, <1>5, <1>9 DEF NumberedByRank

(* A nonempty finite set with distinct places has a last one.              *)
LEMMA LastOfAll ==
  ASSUME NEW S, IsFiniteSet(S), S # {}, NEW place, \A x \in S : place[x] \in Int,
         \A x, y \in S : place[x] = place[y] => x = y
  PROVE  \E x \in S : \A y \in S : place[y] <= place[x]
  <1>1. Cardinality(S) \in Nat /\ Cardinality(S) # 0
    BY FS_CardinalityType, FS_EmptySet
  <1>2. PICK x \in S : Rank(S, place, x) = Cardinality(S)
    BY <1>1, RanksNumber DEF NumberedByRank
  <1> DEFINE upTo == {y \in S : place[y] <= place[x]}
  <1>3. upTo \in SUBSET S /\ Cardinality(upTo) = Cardinality(S)
    BY <1>2 DEF Rank
  <1>4. upTo = S
    <2> HIDE DEF upTo
    <2> QED BY <1>3, FS_Subset
  <1> QED BY <1>4

(* A finite set of integers has its largest member.                        *)
LEMMA MaxIsTheLargest ==
  ASSUME NEW S \in SUBSET Int, IsFiniteSet(S), S # {}
  PROVE  Max(S) \in S /\ \A i \in S : i <= Max(S)
  <1> DEFINE place == [x \in S |-> x]
  <1>1. (\A x \in S : place[x] \in Int) /\ (\A x, y \in S : place[x] = place[y] => x = y)
    OBVIOUS
  <1>2. PICK x \in S : \A y \in S : place[y] <= place[x]
    <2> HIDE DEF place
    <2> QED BY <1>1, LastOfAll
  <1>3. \A y \in S : x >= y
    BY <1>2
  <1> QED BY <1>3 DEF Max

(* A sum without one of its terms, whichever.                              *)
LEMMA SumTakesAny ==
  ASSUME NEW S, IsFiniteSet(S), NEW f \in [S -> Int], NEW y \in S
  PROVE  SumFunction(f) = f[y] + SumFunction([x \in S \ {y} |-> f[x]])
  <1> DEFINE at   == [x \in S |-> IF x = y THEN f[y] ELSE 0]
             else == [x \in S |-> IF x = y THEN 0 ELSE f[x]]
             R    == S \ {y}
             rest == [x \in R |-> else[x]]
  <1>1. at \in [S -> Int] /\ (\A x \in S : x # y => at[x] = 0) /\ at[y] = f[y]
    OBVIOUS
  <1>2. else \in [S -> Int] /\ \A x \in S \ R : else[x] = 0
    OBVIOUS
  <1>3. \A x \in S : f[x] = at[x] + else[x]
    OBVIOUS
  <1>4. rest = [x \in S \ {y} |-> f[x]]
    OBVIOUS
  <1>5. R \in SUBSET S
    OBVIOUS
  <1> HIDE DEF at, else, R
  <1>6. SumFunction(f) = SumFunction(at) + SumFunction(else)
    BY <1>1, <1>2, <1>3, SumAdds
  <1>7. SumFunction(at) = f[y]
    BY <1>1, SumAtAPoint
  <1>8. SumFunction(else) = SumFunction(rest)
    BY <1>2, <1>5, SumWhereItIsNotZero
  <1> QED BY <1>4, <1>6, <1>7, <1>8

(* A sum may be taken under other names.                                   *)
LEMMA SumRenamed ==
  ASSUME NEW S, IsFiniteSet(S), NEW T, NEW b \in Bijection(S, T),
         NEW f \in [S -> Int], NEW g \in [T -> Int], \A x \in S : f[x] = g[b[x]]
  PROVE  SumFunction(f) = SumFunction(g)
  <1> DEFINE image(U) == {b[x] : x \in U}
             over(U)  == [x \in U |-> f[x]]
             named(U) == [y \in image(U) |-> g[y]]
             P == {U \in SUBSET S : SumFunction(over(U)) = SumFunction(named(U))}
  <1>0. /\ b \in [S -> T] /\ (\A x, y \in S : b[x] = b[y] => x = y)
        /\ \A t \in T : \E x \in S : b[x] = t
    BY DEF Bijection, Injection, Surjection, IsInjective
  <1>1. {} \in P
    <2>1. SumFunction(over({})) = 0
      <3>1. DOMAIN over({}) = {}
        OBVIOUS
      <3> HIDE DEF over
      <3> QED BY <3>1, SumOfNothing
    <2>2. SumFunction(named({})) = 0
      <3>1. DOMAIN named({}) = {}
        OBVIOUS
      <3> HIDE DEF named
      <3> QED BY <3>1, SumOfNothing
    <2> QED BY <2>1, <2>2
  <1>2. ASSUME NEW U \in SUBSET S, U # {}, U \ {Pick(U)} \in P
        PROVE  U \in P
    <2> DEFINE u == Pick(U)
               V == U \ {u}
    <2>1. u \in U /\ u \in S
      BY <1>2 DEF Pick
    <2>2. IsFiniteSet(U) /\ U \in SUBSET S /\ V \in SUBSET S
      BY <1>2, FS_Subset
    <2>3. SumFunction(over(V)) = SumFunction(named(V))
      BY <1>2
    <2> HIDE DEF u
    <2>4. SumFunction(over(U)) = f[u] + SumFunction(over(V))
      <3>1. over(U) \in [U -> Int] /\ over(U)[u] = f[u]
        BY <2>1, <2>2
      <3>2. [x \in U \ {u} |-> over(U)[x]] = over(V)
        OBVIOUS
      <3> DEFINE h == over(U)
      <3>3. h \in [U -> Int]
        BY <3>1
      <3> HIDE DEF h
      <3>4. SumFunction(h) = h[u] + SumFunction([x \in U \ {u} |-> h[x]])
        BY <2>1, <2>2, <3>3, SumTakesAny
      <3> USE DEF h
      <3> QED BY <3>1, <3>2, <3>4
    <2>5. SumFunction(named(U)) = g[b[u]] + SumFunction(named(V))
      <3> DEFINE I == image(U)
                 h == named(U)
      <3>1. IsFiniteSet(I)
        <4> DEFINE c == [x \in U |-> b[x]]
        <4>1. c \in Surjection(U, I)
          BY DEF Surjection
        <4> HIDE DEF c, I
        <4> QED BY <2>2, <4>1, FS_Surjection
      <3>2. b[u] \in I /\ image(V) = I \ {b[u]}
        BY <1>0, <2>1, <2>2
      <3>3. h \in [I -> Int] /\ h[b[u]] = g[b[u]]
        BY <1>0, <2>1, <2>2
      <3>4. [y \in I \ {b[u]} |-> h[y]] = named(V)
        BY <3>2
      <3> HIDE DEF h, I
      <3>5. SumFunction(h) = h[b[u]] + SumFunction([y \in I \ {b[u]} |-> h[y]])
        <4>1. PICK t \in I : t = b[u]
          BY <3>2
        <4>2. h \in [I -> Int]
          BY <3>3
        <4>3. SumFunction(h) = h[t] + SumFunction([y \in I \ {t} |-> h[y]])
          BY <3>1, <4>2, SumTakesAny
        <4> QED BY <4>1, <4>3
      <3>6. SumFunction(h) = g[b[u]] + SumFunction(named(V))
        BY <3>3, <3>4, <3>5
      <3> QED BY <3>6 DEF h
    <2>6. f[u] = g[b[u]]
      BY <2>1
    <2>7. SumFunction(over(U)) = SumFunction(named(U))
      BY <2>3, <2>4, <2>5, <2>6
    <2> QED BY <2>7
  <1>3. S \in P
    <2> HIDE DEF P
    <2> QED BY <1>1, <1>2, SubsetInduction
  <1>4. over(S) = f /\ named(S) = g
    BY <1>0
  <1> QED BY <1>3, <1>4

(* What is sorted into classes is counted class by class.                  *)
LEMMA ClassesCount ==
  ASSUME NEW S, IsFiniteSet(S), NEW K, IsFiniteSet(K), NEW key \in [S -> K]
  PROVE  SumFunction([k \in K |-> Cardinality({x \in S : key[x] = k})]) = Cardinality(S)
  <1> DEFINE class(U, k) == {x \in U : key[x] = k}
             sizes(U) == [k \in K |-> Cardinality(class(U, k))]
             P == {U \in SUBSET S : SumFunction(sizes(U)) = Cardinality(U)}
  <1>0. ASSUME NEW U \in SUBSET S, NEW k
        PROVE  IsFiniteSet(class(U, k)) /\ Cardinality(class(U, k)) \in Nat
    <2>1. class(U, k) \in SUBSET S
      OBVIOUS
    <2> HIDE DEF class
    <2> QED BY <2>1, FS_Subset, FS_CardinalityType
  <1>1. {} \in P
    <2> DEFINE f == sizes({})
    <2>1. \A k \in K : f[k] = 0
      <3> TAKE k \in K
      <3>1. class({}, k) = {}
        OBVIOUS
      <3>2. f[k] = Cardinality({})
        BY <3>1
      <3> QED BY <3>2, FS_EmptySet
    <2>2. f \in [K -> Int] /\ DOMAIN f = K
      <3>1. f = [k \in K |-> f[k]]
        OBVIOUS
      <3> HIDE DEF f
      <3> QED BY <2>1, <3>1
    <2> HIDE DEF f
    <2>3. PICK z \in Int : z = 0
      OBVIOUS
    <2>4. SumFunction(f) = z * SumFunction(f)
      <3>1. \A k \in K : f[k] = z * f[k]
        BY <2>1, <2>3
      <3> QED BY <2>2, <3>1, SumScales
    <2>5. SumFunction(f) \in Int
      BY <2>2, SumIsInteger
    <2>6. SumFunction(f) = Cardinality({})
      BY <2>3, <2>4, <2>5, FS_EmptySet
    <2> QED BY <2>6 DEF f
  <1>2. ASSUME NEW U \in SUBSET S, U # {}, U \ {Pick(U)} \in P
        PROVE  U \in P
    <2> DEFINE u == Pick(U)
               V == U \ {u}
               one == [k \in K |-> IF k = key[u] THEN 1 ELSE 0]
               f == sizes(U)
               g == sizes(V)
    <2>1. u \in U /\ u \in S /\ key[u] \in K /\ u \notin V
      BY <1>2 DEF Pick
    <2>2. IsFiniteSet(U) /\ V \in SUBSET S /\ IsFiniteSet(V)
      BY <1>2, FS_Subset
    <2>3. SumFunction(g) = Cardinality(V)
      BY <1>2
    <2> HIDE DEF u
    <2>4. \A k \in K : f[k] = g[k] + one[k]
      <3> TAKE k \in K
      <3>1. CASE k = key[u]
        <4>1. class(U, k) = class(V, k) \cup {u} /\ u \notin class(V, k)
          BY <2>1, <3>1
        <4>2. IsFiniteSet(class(V, k))
          BY <1>0, <2>2
        <4>3. Cardinality(class(U, k)) = Cardinality(class(V, k)) + 1
          <5> HIDE DEF class
          <5> QED BY <4>1, <4>2, FS_AddElement
        <4> QED BY <3>1, <4>3
      <3>2. CASE k # key[u]
        <4>1. class(U, k) = class(V, k)
          BY <3>2
        <4>2. Cardinality(class(V, k)) \in Nat
          BY <1>0, <2>2
        <4> QED BY <3>2, <4>1, <4>2
      <3> QED BY <3>1, <3>2
    <2>5. f \in [K -> Int] /\ g \in [K -> Int]
      <3>1. \A k \in K : Cardinality(class(U, k)) \in Int /\ Cardinality(class(V, k)) \in Int
        BY <1>0, <2>2
      <3> HIDE DEF class
      <3> QED BY <3>1
    <2>6. /\ one \in [K -> Int] /\ (\A k \in K : k # key[u] => one[k] = 0)
          /\ one[key[u]] = 1
      BY <2>1
    <2>7. Cardinality(U) = Cardinality(V) + 1
      <3>1. U = V \cup {u}
        BY <2>1
      <3> HIDE DEF V
      <3> QED BY <2>1, <2>2, <3>1, FS_AddElement
    <2> HIDE DEF one, f, g, V
    <2>8. SumFunction(f) = SumFunction(g) + SumFunction(one)
      BY <2>4, <2>5, <2>6, SumAdds
    <2>9. SumFunction(one) = 1
      <3>1. PICK k \in K : k = key[u]
        BY <2>1
      <3>2. one \in [K -> Int] /\ (\A j \in K : j # k => one[j] = 0) /\ one[k] = 1
        BY <2>6, <3>1
      <3>3. SumFunction(one) = one[k]
        BY <3>2, SumAtAPoint
      <3> QED BY <3>2, <3>3
    <2>10. SumFunction(f) = Cardinality(U)
      BY <2>3, <2>7, <2>8, <2>9
    <2> QED BY <2>10 DEF f
  <1>3. S \in P
    <2> HIDE DEF P
    <2> QED BY <1>1, <1>2, SubsetInduction
  <1> QED BY <1>3
=============================================================================
