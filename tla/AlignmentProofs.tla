-------------------------- MODULE AlignmentProofs --------------------------
(***************************************************************************)
(* Proofs about the token aligner, for all token sequences, similarities   *)
(* and corridors: the reading of the table never leaves the corridor, it   *)
(* goes through every token once and in order, none inside the corridor    *)
(* is cheaper, a sequence aligned with itself is trusted, and a pair of    *)
(* tokens that changed places is noticed.                                  *)
(***************************************************************************)
EXTENDS Alignment, FiniteSetTheorems, WellFoundedInduction, TLAPS

(* The operators of the corridor. *)
LEMMA MaxOfTwo ==
    ASSUME NEW a \in Int, NEW b \in Int
    PROVE  Max({a, b}) = IF a >= b THEN a ELSE b
<1> DEFINE top == IF a >= b THEN a ELSE b
<1>1. top \in {a, b} /\ \A y \in {a, b} : top >= y
  OBVIOUS
<1>2. \A x \in {a, b} : (\A y \in {a, b} : x >= y) => x = top
  OBVIOUS
<1> QED
  BY <1>1, <1>2 DEF Max

LEMMA MaxOfThree ==
    ASSUME NEW a \in Int, NEW b \in Int, NEW c \in Int
    PROVE  /\ Max({a, b, c}) \in {a, b, c}
           /\ Max({a, b, c}) >= a /\ Max({a, b, c}) >= b /\ Max({a, b, c}) >= c
<1> DEFINE top == IF a >= b /\ a >= c THEN a ELSE IF b >= c THEN b ELSE c
<1>1. top \in {a, b, c} /\ \A y \in {a, b, c} : top >= y
  OBVIOUS
<1> QED
  BY <1>1 DEF Max

LEMMA MinOfTwo ==
    ASSUME NEW a \in Int, NEW b \in Int
    PROVE  Min({a, b}) = IF a =< b THEN a ELSE b
<1> DEFINE low == IF a =< b THEN a ELSE b
<1>1. low \in {a, b} /\ \A y \in {a, b} : low =< y
  OBVIOUS
<1>2. \A x \in {a, b} : (\A y \in {a, b} : x =< y) => x = low
  OBVIOUS
<1> QED
  BY <1>1, <1>2 DEF Min

LEMMA MinOfThree ==
    ASSUME NEW a \in Int, NEW b \in Int, NEW c \in Int
    PROVE  /\ Min({a, b, c}) \in {a, b, c}
           /\ Min({a, b, c}) =< a /\ Min({a, b, c}) =< b /\ Min({a, b, c}) =< c
<1> DEFINE low == IF a =< b /\ a =< c THEN a ELSE IF b =< c THEN b ELSE c
<1>1. low \in {a, b, c} /\ \A y \in {a, b, c} : low =< y
  OBVIOUS
<1> QED
  BY <1>1 DEF Min

LEMMA Division ==
    ASSUME NEW a \in Nat, NEW b \in Nat \ {0}
    PROVE  /\ a \div b \in Nat /\ a % b \in 0..(b - 1)
           /\ a = b * (a \div b) + (a % b)
  OBVIOUS

(* Rounding misses by at most a half. *)
LEMMA RoundIsNear ==
    ASSUME NEW a \in Nat, NEW b \in Nat \ {0}
    PROVE  /\ Round(a, b) \in Nat
           /\ 2 * a - b =< 2 * (b * Round(a, b))
           /\ 2 * (b * Round(a, b)) =< 2 * a + b
<1> DEFINE down == a \div b
           rest == a % b
<1>1. down \in Nat /\ rest \in 0..(b - 1) /\ a = b * down + rest
  BY Division
<1>2. b * (down + 1) = b * down + b
  BY <1>1
<1>3. b * down \in Nat
  BY <1>1
<1>4. Round(a, b) \in {down, down + 1}
      /\ (Round(a, b) = down => 2 * rest =< b)
      /\ (Round(a, b) = down + 1 => 2 * rest >= b)
  <2> HIDE DEF rest
  <2>1. Round(a, b) = IF 2 * rest > b \/ (2 * rest = b /\ down % 2 = 1) THEN down + 1 ELSE down
    BY DEF Round, rest
  <2> HIDE DEF down
  <2> QED
    BY <1>1, <2>1
<1> HIDE DEF down, rest
<1>5. CASE Round(a, b) = down
  BY <1>1, <1>3, <1>4, <1>5
<1>6. CASE Round(a, b) = down + 1
  BY <1>1, <1>2, <1>3, <1>4, <1>6
<1> QED
  BY <1>4, <1>5, <1>6

-----------------------------------------------------------------------------
(* The two sequences and the corridor asked for. *)
Inputs ==
    /\ source \in Seq(Tokens) /\ n =< MaxLength
    /\ target \in Seq(Tokens) /\ m =< MaxLength
    /\ band \in Nat \cup {NoBand}

Centre(k) == IF n = m THEN k ELSE IF n = 0 THEN 0 ELSE Round(k * m, n)

LEMMA InputsSized ==
    ASSUME Inputs
    PROVE  n \in Nat /\ m \in Nat /\ n + m < Unreached
  BY AlignmentAssumption DEF Inputs, n, m, Unreached

(* The corridor used is never narrower than the difference in length. *)
LEMMA EffectiveWide ==
    ASSUME Inputs
    PROVE  effective \in Nat /\ effective >= n - m /\ effective >= m - n
<1>1. n \in Nat /\ m \in Nat
  BY InputsSized
<1>2. CASE band = NoBand
  BY <1>1, <1>2, MaxOfTwo DEF effective, Longest
<1>3. CASE band # NoBand
  <2>1. band \in Nat
    BY <1>3 DEF Inputs
  <2>2. effective = Max({band, n - m, m - n})
    BY <1>3 DEF effective
  <2> DEFINE a == n - m
             b == m - n
             top == Max({band, a, b})
  <2>3. a \in Int /\ b \in Int /\ band \in Int
    BY <1>1, <2>1
  <2>4. top \in {band, a, b} /\ top >= band /\ top >= a /\ top >= b
    <3> HIDE DEF a, b
    <3> QED
      BY <2>3, MaxOfThree
  <2> HIDE DEF top
  <2>5. effective = top
    BY <2>2 DEF top
  <2> QED
    BY <1>1, <2>1, <2>4, <2>5
<1> QED
  BY <1>2, <1>3

(* The centre of the corridor runs from corner to corner. *)
LEMMA CentreCorners ==
    ASSUME Inputs
    PROVE  /\ Centre(0) = 0
           /\ m - effective =< Centre(n) /\ Centre(n) =< m
           /\ \A k \in 0..n : Centre(k) \in Nat /\ (Centre(k) =< m \/ n = 0)
<1>1. n \in Nat /\ m \in Nat /\ effective \in Nat /\ effective >= m - n
  BY InputsSized, EffectiveWide
<1>2. CASE n = m
  BY <1>1, <1>2 DEF Centre
<1>3. CASE n # m /\ n = 0
  BY <1>1, <1>3 DEF Centre
<1>4. CASE n # m /\ n # 0
  <2>1. ASSUME NEW k \in 0..n
        PROVE  /\ Centre(k) = Round(k * m, n) /\ Centre(k) \in Nat
               /\ 2 * (k * m) - n =< 2 * (n * Centre(k))
               /\ 2 * (n * Centre(k)) =< 2 * (k * m) + n
    <3>1. k * m \in Nat
      BY <1>1
    <3> QED
      BY <1>1, <1>4, <3>1, RoundIsNear DEF Centre
  <2>2. ASSUME NEW k \in 0..n
        PROVE  Centre(k) =< m
    <3> DEFINE x == Centre(k)
    <3>1. k * m \in Nat /\ n * m \in Nat /\ k * m =< n * m
      BY <1>1
    <3>2. x \in Nat /\ 2 * (n * x) =< 2 * (k * m) + n
      BY <2>1
    <3> HIDE DEF x
    <3>3. SUFFICES ASSUME x >= m + 1 PROVE FALSE
      BY <1>1, <3>2 DEF x
    <3>4. n * x \in Nat /\ n * x >= n * (m + 1)
      BY <1>1, <3>2, <3>3
    <3>5. n * (m + 1) = n * m + n
      BY <1>1
    <3> QED
      BY <1>1, <1>4, <3>1, <3>2, <3>4, <3>5
  <2>3. Centre(0) = 0
    <3>1. 0 \in 0..n /\ 0 * m = 0
      BY <1>1
    <3>2. 2 * (n * Centre(0)) =< n
      BY <1>1, <2>1, <3>1
    <3>3. SUFFICES ASSUME Centre(0) >= 1 PROVE FALSE
      BY <2>1, <3>1
    <3>4. n * Centre(0) >= n
      BY <1>1, <2>1, <3>1, <3>3
    <3> QED
      BY <1>1, <1>4, <2>1, <3>1, <3>2, <3>4
  <2>4. Centre(n) = m
    <3> DEFINE x == Centre(n)
    <3>1. n \in 0..n
      BY <1>1
    <3>2. x \in Nat /\ x =< m /\ 2 * (n * m) - n =< 2 * (n * x)
      BY <2>1, <2>2, <3>1
    <3> HIDE DEF x
    <3>3. SUFFICES ASSUME x + 1 =< m PROVE FALSE
      BY <1>1, <3>2 DEF x
    <3>4. n * x \in Nat /\ n * m \in Nat /\ n * (x + 1) =< n * m
      BY <1>1, <3>2, <3>3
    <3>5. n * (x + 1) = n * x + n
      BY <1>1, <3>2
    <3> QED
      BY <1>1, <1>4, <3>2, <3>4, <3>5
  <2> QED
    BY <1>1, <2>1, <2>2, <2>3, <2>4
<1> QED
  BY <1>2, <1>3, <1>4

(* From row to row the centre moves on, and no further than neighbouring   *)
(* corridors overlap.                                                      *)
LEMMA CentreMoves ==
    ASSUME Inputs, NEW k \in 1..n
    PROVE  /\ Centre(k - 1) =< Centre(k)
           /\ Centre(k) - Centre(k - 1) =< 2 * effective + 2
<1>1. n \in Nat \ {0} /\ m \in Nat /\ effective \in Nat /\ effective >= m - n
  BY InputsSized, EffectiveWide
<1>2. CASE n = m
  BY <1>1, <1>2 DEF Centre
<1>3. CASE n # m
  <2> DEFINE a == (k - 1) * m
             b == k * m
             x == Centre(k - 1)
             y == Centre(k)
  <2>1. a \in Nat /\ b \in Nat /\ b = a + m
    BY <1>1
  <2>2. x = Round(a, n) /\ y = Round(b, n)
    BY <1>1, <1>3 DEF Centre
  <2>3. /\ x \in Nat /\ 2 * a - n =< 2 * (n * x) /\ 2 * (n * x) =< 2 * a + n
        /\ y \in Nat /\ 2 * b - n =< 2 * (n * y) /\ 2 * (n * y) =< 2 * b + n
    BY <1>1, <2>1, <2>2, RoundIsNear
  <2> HIDE DEF a, b, x, y
  <2>4. x =< y
    <3>1. CASE m = 0
      BY <2>1, <2>2, <2>3, <3>1
    <3>2. CASE m > 0
      <4>1. SUFFICES ASSUME y + 1 =< x PROVE FALSE
        BY <2>3
      <4>2. n * y + n =< n * x
        BY <1>1, <2>3, <4>1
      <4>3. n * x \in Nat /\ n * y \in Nat
        BY <1>1, <2>3
      <4> QED
        BY <1>1, <2>1, <2>3, <3>2, <4>2, <4>3
    <3> QED
      BY <1>1, <3>1, <3>2
  <2>5. y - x =< effective + 2
    <3>1. SUFFICES ASSUME y >= x + effective + 3 PROVE FALSE
      BY <1>1, <2>3
    <3>2. n * y >= n * x + n * effective + 3 * n
      <4>1. n * y >= n * (x + effective + 3)
        BY <1>1, <2>3, <3>1
      <4> QED
        BY <1>1, <2>3, <4>1
    <3>3. n * effective >= effective
      BY <1>1
    <3>4. n * x \in Nat /\ n * y \in Nat /\ n * effective \in Nat
      BY <1>1, <2>3
    <3> QED
      BY <1>1, <2>1, <2>3, <3>2, <3>3, <3>4
  <2> QED
    BY <1>1, <2>3, <2>4, <2>5 DEF x, y
<1> QED
  BY <1>2, <1>3

(* Columns of a row, in numbers. *)
Lowest(k) == IF Centre(k) - effective - 1 > 0 THEN Centre(k) - effective - 1 ELSE 0
Highest(k) == IF Centre(k) + effective + 1 < m THEN Centre(k) + effective + 1 ELSE m

LEMMA ColumnsAre ==
    ASSUME Inputs, NEW k \in 0..n
    PROVE  /\ Columns(k) = Lowest(k)..Highest(k)
           /\ Lowest(k) \in Nat /\ Highest(k) \in 0..m
           /\ Columns(k) \subseteq 0..m
<1>1. n \in Nat /\ m \in Nat /\ effective \in Nat
  BY InputsSized, EffectiveWide
<1>2. Centre(k) \in Nat
  BY CentreCorners
<1>3. BandedRange(k) = [lo |-> Max({0, Centre(k) - effective}),
                        hi |-> Min({m, Centre(k) + effective + 1})]
  BY DEF BandedRange, Centre
<1> DEFINE lo == BandedRange(k).lo
           hi == BandedRange(k).hi
<1>4. lo = IF 0 >= Centre(k) - effective THEN 0 ELSE Centre(k) - effective
  BY <1>1, <1>2, <1>3, MaxOfTwo
<1>5. hi = IF m =< Centre(k) + effective + 1 THEN m ELSE Centre(k) + effective + 1
  BY <1>1, <1>2, <1>3, MinOfTwo
<1>6. Columns(k) = Max({0, lo - 1})..Min({m, hi})
  BY DEF Columns
<1> HIDE DEF lo, hi
<1>7. lo \in Nat /\ hi \in Nat /\ hi =< m
  BY <1>1, <1>2, <1>4, <1>5
<1>8. Max({0, lo - 1}) = Lowest(k)
  BY <1>1, <1>2, <1>4, <1>7, MaxOfTwo DEF Lowest
<1>9. Min({m, hi}) = Highest(k)
  BY <1>1, <1>2, <1>5, <1>7, MinOfTwo DEF Highest
<1>10. Lowest(k) \in Nat /\ Highest(k) \in 0..m
  BY <1>1, <1>2 DEF Lowest, Highest
<1>11. Columns(k) = Lowest(k)..Highest(k)
  BY <1>6, <1>8, <1>9
<1> QED
  BY <1>1, <1>10, <1>11

(* The corridor starts in the first column and ends in the last one; it    *)
(* never moves back, and each row's first column is in the row above.      *)
LEMMA CorridorCorners ==
    ASSUME Inputs
    PROVE  0 \in Columns(0) /\ m \in Columns(n) /\ Lowest(0) = 0
<1>1. n \in Nat /\ m \in Nat /\ effective \in Nat
  BY InputsSized, EffectiveWide
<1>2. 0 \in 0..n /\ n \in 0..n
  BY <1>1
<1>3. Lowest(0) = 0
  BY <1>1, CentreCorners DEF Lowest
<1>4. Lowest(n) =< m /\ Highest(n) = m
  <2>1. Centre(n) \in Nat
    BY <1>2, CentreCorners
  <2> QED
    BY <1>1, <2>1, CentreCorners DEF Lowest, Highest
<1>5. Columns(0) = 0..Highest(0) /\ Columns(n) = Lowest(n)..m
  BY <1>2, <1>3, <1>4, ColumnsAre
<1>6. Highest(0) \in Nat /\ Lowest(n) \in Nat
  BY <1>1, <1>2, ColumnsAre
<1> QED
  BY <1>1, <1>3, <1>4, <1>5, <1>6

LEMMA CorridorMoves ==
    ASSUME Inputs, NEW k \in 1..n
    PROVE  /\ Lowest(k - 1) =< Lowest(k)
           /\ Lowest(k) \in Columns(k - 1)
           /\ \A c \in Columns(k) : c > Lowest(k) => c - 1 \in Columns(k)
<1>1. n \in Nat \ {0} /\ m \in Nat /\ effective \in Nat /\ k \in 0..n /\ k - 1 \in 0..n
  BY InputsSized, EffectiveWide
<1>2. /\ Centre(k - 1) \in Nat /\ Centre(k) \in Nat /\ Centre(k) =< m
      /\ Centre(k - 1) =< Centre(k)
      /\ Centre(k) - Centre(k - 1) =< 2 * effective + 2
  BY <1>1, CentreCorners, CentreMoves
<1>3. /\ Columns(k) = Lowest(k)..Highest(k) /\ Lowest(k) \in Nat /\ Highest(k) \in Int
      /\ Columns(k - 1) = Lowest(k - 1)..Highest(k - 1)
      /\ Lowest(k - 1) \in Nat /\ Highest(k - 1) \in Int
  BY <1>1, ColumnsAre
<1>4. Lowest(k - 1) =< Lowest(k) /\ Lowest(k) =< Highest(k - 1)
  BY <1>1, <1>2 DEF Lowest, Highest
<1> QED
  BY <1>3, <1>4

(* A corridor of equal lengths holds the diagonal and its two neighbours. *)
LEMMA CorridorDiagonal ==
    ASSUME Inputs, n = m, NEW k \in 0..n
    PROVE  /\ k \in Columns(k)
           /\ k > 0 => k - 1 \in Columns(k)
           /\ k < m => k + 1 \in Columns(k)
<1>1. n \in Nat /\ m \in Nat /\ effective \in Nat
  BY InputsSized, EffectiveWide
<1>2. Centre(k) = k
  BY DEF Centre
<1>3. Columns(k) = Lowest(k)..Highest(k)
  BY ColumnsAre
<1> QED
  BY <1>1, <1>2, <1>3 DEF Lowest, Highest

-----------------------------------------------------------------------------
(* A row is filled from left to right: such a function exists. *)
LEMMA LeastOf ==
    ASSUME NEW T \in SUBSET Nat, T # {}
    PROVE  \E x \in T : \A y \in T : x =< y
<1> DEFINE R == {p \in Nat \X Nat : p[1] < p[2]}
<1>1. IsWellFoundedOn(R, Nat)
  BY NatLessThanWellFounded DEF OpToRel
<1>2. PICK x \in T : \A y \in T : <<y, x>> \notin R
  <2>1. T \subseteq Nat /\ T # {}
    OBVIOUS
  <2> HIDE DEF R
  <2> QED
    BY ONLY <1>1, <2>1, WFMin
<1>3. ASSUME NEW y \in T
      PROVE  x =< y
  <2>1. x \in Nat /\ y \in Nat
    OBVIOUS
  <2>2. <<y, x>> \in R <=> y < x
    BY <2>1
  <2> HIDE DEF R
  <2> QED
    BY <1>2, <2>1, <2>2
<1> QED
  BY <1>3

ToTheLeft(f, c, lo, hi, u) == IF c - 1 \in lo..hi THEN f[c - 1] ELSE u

LEMMA ScanExists ==
    ASSUME NEW lo \in Nat, NEW hi \in Int, NEW u \in Nat,
           NEW F \in [(lo..hi) \X Nat -> Nat]
    PROVE  \E f \in [lo..hi -> Nat] :
              \A c \in lo..hi : f[c] = F[<<c, ToTheLeft(f, c, lo, hi, u)>>]
<1> DEFINE Filled(f, b) ==
             /\ f \in [lo..b -> Nat]
             /\ \A c \in lo..b : f[c] = F[<<c, IF c - 1 \in lo..b THEN f[c - 1] ELSE u>>]
           Bad == {b \in Nat : b =< hi /\ ~\E f : Filled(f, b)}
<1>1. ASSUME NEW b \in Int, b < lo
      PROVE  \E f : Filled(f, b)
  <2>1. Filled([c \in lo..b |-> u], b)
    BY <1>1
  <2> QED
    BY <2>1
<1>2. Bad = {}
  <2>1. SUFFICES ASSUME Bad # {} PROVE FALSE
    OBVIOUS
  <2>2. PICK b \in Bad : \A y \in Bad : b =< y
    BY <2>1, LeastOf
  <2>3. b \in Nat /\ b =< hi /\ lo =< b
    BY <1>1, <2>2
  <2>4. PICK g : Filled(g, b - 1)
    <3>1. CASE b = lo
      BY <1>1, <2>3, <3>1
    <3>2. CASE b > lo
      <4>1. b - 1 \in Nat /\ b - 1 =< hi /\ ~(b =< b - 1)
        BY <2>3, <3>2
      <4>2. b - 1 \notin Bad
        <5> HIDE DEF Bad
        <5> QED
          BY <2>2, <4>1
      <4> HIDE DEF Filled
      <4> QED
        BY <4>1, <4>2
    <3> QED
      BY <2>3, <3>1, <3>2
  <2> DEFINE x == F[<<b, IF b - 1 \in lo..b THEN g[b - 1] ELSE u>>]
             f == [c \in lo..b |-> IF c = b THEN x ELSE g[c]]
  <2>5. x \in Nat
    <3>1. (IF b - 1 \in lo..b THEN g[b - 1] ELSE u) \in Nat
      BY <2>3, <2>4
    <3> QED
      BY <2>3, <3>1
  <2>6. f \in [lo..b -> Nat]
    BY <2>3, <2>4, <2>5
  <2>7. ASSUME NEW c \in lo..b
        PROVE  f[c] = F[<<c, IF c - 1 \in lo..b THEN f[c - 1] ELSE u>>]
    <3>1. CASE c = b
      <4>1. b - 1 \in lo..b => f[b - 1] = g[b - 1]
        BY <2>3
      <4> QED
        BY <2>3, <3>1, <4>1
    <3>2. CASE c # b
      <4>1. c \in lo..(b - 1) /\ f[c] = g[c]
        BY <2>3, <3>2
      <4>2. (c - 1 \in lo..b) <=> (c - 1 \in lo..(b - 1))
        BY <2>3, <4>1
      <4>3. c - 1 \in lo..b => f[c - 1] = g[c - 1]
        BY <2>3, <4>1
      <4>4. g[c] = F[<<c, IF c - 1 \in lo..(b - 1) THEN g[c - 1] ELSE u>>]
        BY <2>4, <4>1
      <4> HIDE DEF f
      <4> QED
        BY <4>1, <4>2, <4>3, <4>4
    <3> QED
      BY <3>1, <3>2
  <2>8. Filled(f, b)
    BY <2>6, <2>7
  <2> QED
    BY <2>2, <2>8
<1>3. PICK f : Filled(f, hi)
  <2>1. CASE hi < lo
    BY <1>1, <2>1
  <2>2. CASE hi >= lo
    <3>1. hi \in Nat /\ hi =< hi
      BY <2>2
    <3> HIDE DEF Filled
    <3>2. hi \notin Bad
      <4> HIDE DEF Bad
      <4> QED
        BY <1>2
    <3> QED
      BY <3>1, <3>2
  <2> QED
    BY <2>1, <2>2
<1> QED
  BY <1>3 DEF ToTheLeft

(* What one cell holds, given the cell to its left. *)
StepAt(k, c, left) ==
    IF k = 0 THEN c
    ELSE IF c = 0 THEN k
    ELSE Cell(k, c, Get(k - 1, c), Get(k - 1, c - 1), left)

LeftOf(row, k, c) == IF c - 1 \in Columns(k) THEN row[c - 1] ELSE Unreached

(* A row filled as the code fills it. *)
FilledRow(row, k) ==
    /\ row \in [Columns(k) -> Nat]
    /\ \A c \in Columns(k) : row[c] = StepAt(k, c, LeftOf(row, k, c))

(* Row k fits below the rows already in the table. *)
RowAbove(k) == k > 0 => rows[k - 1] \in [Columns(k - 1) -> Nat]

LEMMA SimRange ==
    ASSUME Inputs, NEW k \in 1..n, NEW c \in 1..m
    PROVE  sim(k, c) \in 0..2
<1>1. source[k] \in Tokens /\ target[c] \in Tokens
  BY DEF Inputs, n, m
<1> QED
  BY <1>1, AlignmentAssumption DEF sim

LEMMA GetTyped ==
    ASSUME Inputs, NEW k \in 0..n, NEW c, RowAbove(k), k > 0
    PROVE  Get(k - 1, c) \in Nat
  BY DEF Get, RowAbove, Unreached

LEMMA CellTyped ==
    ASSUME Inputs, NEW k \in 1..n, NEW c \in 1..m,
           NEW up \in Nat, NEW diagonal \in Nat, NEW left \in Nat
    PROVE  LET byUp == Plus(up, 1)
               byLeft == Plus(left, 1)
               byMatch == Plus(diagonal, 2 - sim(k, c))
               cell == Cell(k, c, up, diagonal, left)
           IN /\ byUp \in Nat /\ byLeft \in Nat /\ byMatch \in Nat
              /\ cell \in Nat
              /\ cell \in {byUp, byLeft, byMatch}
              /\ cell =< byUp /\ cell =< byLeft /\ cell =< byMatch
<1> DEFINE byUp == Plus(up, 1)
           byLeft == Plus(left, 1)
           byMatch == Plus(diagonal, 2 - sim(k, c))
<1>1. sim(k, c) \in 0..2
  BY SimRange
<1>2. byUp \in Nat /\ byLeft \in Nat /\ byMatch \in Nat
  BY <1>1 DEF Plus, Unreached
<1>3. Cell(k, c, up, diagonal, left) = Min({byUp, byLeft, byMatch})
  BY DEF Cell
<1> HIDE DEF byUp, byLeft, byMatch
<1>4. Min({byUp, byLeft, byMatch}) \in {byUp, byLeft, byMatch}
      /\ Min({byUp, byLeft, byMatch}) =< byUp
      /\ Min({byUp, byLeft, byMatch}) =< byLeft
      /\ Min({byUp, byLeft, byMatch}) =< byMatch
  <2>1. byUp \in Int /\ byLeft \in Int /\ byMatch \in Int
    BY <1>2
  <2> QED
    BY ONLY <2>1, MinOfThree
<1> QED
  BY <1>2, <1>3, <1>4 DEF byUp, byLeft, byMatch

LEMMA StepTyped ==
    ASSUME Inputs, NEW k \in 0..n, RowAbove(k), NEW c \in Columns(k), NEW left \in Nat
    PROVE  StepAt(k, c, left) \in Nat
<1>1. n \in Nat /\ m \in Nat /\ c \in 0..m
  BY InputsSized, ColumnsAre
<1>2. CASE k = 0 \/ c = 0
  BY <1>1, <1>2 DEF StepAt
<1>3. CASE k # 0 /\ c # 0
  <2>1. k \in 1..n /\ c \in 1..m
    BY <1>1, <1>3
  <2>2. Get(k - 1, c) \in Nat /\ Get(k - 1, c - 1) \in Nat
    BY <2>1, GetTyped
  <2>3. StepAt(k, c, left) = Cell(k, c, Get(k - 1, c), Get(k - 1, c - 1), left)
    BY <1>3 DEF StepAt
  <2> QED
    BY <2>1, <2>2, <2>3, CellTyped
<1> QED
  BY <1>2, <1>3

(* The recursive definition of a row does define one. *)
LEMMA RowFilled ==
    ASSUME Inputs, NEW k \in 0..n, RowAbove(k)
    PROVE  FilledRow(Row(k), k)
<1> DEFINE lo == Lowest(k)
           hi == Highest(k)
           F == [p \in (lo..hi) \X Nat |-> StepAt(k, p[1], p[2])]
<1>1. Columns(k) = lo..hi /\ lo \in Nat /\ hi \in Int
  BY ColumnsAre
<1>2. F \in [(lo..hi) \X Nat -> Nat]
  BY <1>1, StepTyped
<1>3. PICK f \in [lo..hi -> Nat] :
         \A c \in lo..hi : f[c] = F[<<c, ToTheLeft(f, c, lo, hi, Unreached)>>]
  <2>1. Unreached \in Nat
    BY DEF Unreached
  <2> HIDE DEF F, lo, hi
  <2> QED
    BY ONLY <1>1, <1>2, <2>1, ScanExists
<1>4. ASSUME NEW c \in Columns(k)
      PROVE  f[c] = StepAt(k, c, LeftOf(f, k, c))
  <2> DEFINE left == ToTheLeft(f, c, lo, hi, Unreached)
  <2>1. left = LeftOf(f, k, c) /\ left \in Nat
    BY <1>1 DEF LeftOf, ToTheLeft, Unreached
  <2>2. f[c] = F[<<c, left>>] /\ <<c, left>> \in (lo..hi) \X Nat
    BY <1>1, <1>3, <2>1
  <2> HIDE DEF left
  <2> QED
    BY <2>1, <2>2
<1> DEFINE Is(g) == g = [c \in Columns(k) |->
                           IF k = 0 THEN c
                           ELSE IF c = 0 THEN k
                           ELSE Cell(k, c, Get(k - 1, c), Get(k - 1, c - 1),
                                     IF c - 1 \in Columns(k) THEN g[c - 1] ELSE Unreached)]
<1>5. Is(f)
  <2>1. f = [c \in Columns(k) |-> f[c]]
    BY <1>1, <1>3
  <2> QED
    BY <1>4, <2>1 DEF StepAt, LeftOf
<1>6. Row(k) = CHOOSE g : Is(g)
  BY DEF Row
<1>7. Is(Row(k))
  <2> HIDE DEF Is
  <2> QED
    BY <1>5, <1>6
<1> DEFINE g == Row(k)
<1>8. g = [c \in Columns(k) |-> g[c]]
      /\ \A c \in Columns(k) : g[c] = StepAt(k, c, LeftOf(g, k, c))
  BY <1>7 DEF StepAt, LeftOf
<1> HIDE DEF g
<1>9. \A c \in Columns(k) : g[c] \in Nat
  <2> DEFINE Bad == {c \in Columns(k) : g[c] \notin Nat}
  <2>1. SUFFICES ASSUME Bad # {} PROVE FALSE
    OBVIOUS
  <2>2. PICK c \in Bad : \A d \in Bad : c =< d
    <3>1. Bad \in SUBSET Nat
      BY <1>1
    <3> HIDE DEF Bad
    <3> QED
      BY ONLY <2>1, <3>1, LeastOf
  <2>3. c \in Columns(k) /\ c \in Nat /\ c - 1 \notin Bad
    BY <1>1, <2>2
  <2>4. LeftOf(g, k, c) \in Nat
    BY <2>3 DEF LeftOf, Unreached
  <2> QED
    BY <1>8, <2>2, <2>3, <2>4, StepTyped
<1>10. g \in [Columns(k) -> Nat]
  BY <1>8, <1>9
<1> QED
  BY <1>8, <1>10 DEF FilledRow, g

-----------------------------------------------------------------------------
(* The table once it is filled. *)
Table == Inputs /\ \A k \in 0..n : FilledRow(rows[k], k)

LEMMA GetInTable ==
    ASSUME Table, NEW k \in 0..n, NEW c
    PROVE  /\ Get(k, c) \in Nat
           /\ c \notin Columns(k) => Get(k, c) = Unreached
           /\ c \in Columns(k) /\ k = 0 => Get(k, c) = c
           /\ c \in Columns(k) /\ c = 0 => Get(k, c) = k
  BY DEF Table, FilledRow, Get, StepAt, Unreached

(* A cell inside the table against its three neighbours. *)
LEMMA CellInTable ==
    ASSUME Table, NEW k \in 1..n, NEW c \in Columns(k), c > 0
    PROVE  LET byUp == Plus(Get(k - 1, c), 1)
               byLeft == Plus(Get(k, c - 1), 1)
               byMatch == Plus(Get(k - 1, c - 1), 2 - sim(k, c))
               cell == Get(k, c)
           IN /\ byUp \in Nat /\ byLeft \in Nat /\ byMatch \in Nat
              /\ cell \in {byUp, byLeft, byMatch}
              /\ cell =< byUp /\ cell =< byLeft /\ cell =< byMatch
<1>1. n \in Nat /\ m \in Nat /\ c \in 1..m /\ Inputs
  BY InputsSized, ColumnsAre DEF Table
<1>2. Get(k - 1, c) \in Nat /\ Get(k - 1, c - 1) \in Nat /\ Get(k, c - 1) \in Nat
  BY <1>1, GetInTable
<1>3. Get(k, c) = Cell(k, c, Get(k - 1, c), Get(k - 1, c - 1), Get(k, c - 1))
  <2>1. rows[k][c] = StepAt(k, c, LeftOf(rows[k], k, c))
    BY DEF Table, FilledRow
  <2>2. LeftOf(rows[k], k, c) = Get(k, c - 1) /\ Get(k, c) = rows[k][c]
    BY DEF LeftOf, Get
  <2> QED
    BY <1>1, <2>1, <2>2 DEF StepAt
<1> QED
  BY <1>1, <1>2, <1>3, CellTyped, SMTT(30)

(* Every cell of the corridor is reached, at the cost of deleting and      *)
(* inserting everything at most.                                           *)
LEMMA CellsReached ==
    ASSUME Table, NEW k \in 0..n, NEW c \in Columns(k)
    PROVE  Get(k, c) \in Nat /\ Get(k, c) =< k + c /\ Get(k, c) < Unreached
<1> DEFINE Over == {r \in 0..n : \E d \in Columns(r) : ~(Get(r, d) =< r + d)}
<1>1. n \in Nat /\ m \in Nat /\ n + m < Unreached /\ Inputs
  BY InputsSized DEF Table
<1>2. Over = {}
  <2>1. SUFFICES ASSUME Over # {} PROVE FALSE
    OBVIOUS
  <2>2. PICK r \in Over : \A s \in Over : r =< s
    <3>1. Over \in SUBSET Nat
      BY <1>1
    <3> HIDE DEF Over
    <3> QED
      BY ONLY <2>1, <3>1, LeastOf
  <2>3. r \in 0..n /\ \E d \in Columns(r) : ~(Get(r, d) =< r + d)
    BY <2>2
  <2> DEFINE Bad == {d \in Columns(r) : ~(Get(r, d) =< r + d)}
  <2>4. PICK d \in Bad : \A e \in Bad : d =< e
    <3>1. Bad \in SUBSET Nat /\ Bad # {}
      BY <1>1, <2>3, ColumnsAre, SMTT(30)
    <3> HIDE DEF Bad
    <3> QED
      BY ONLY <3>1, LeastOf
  <2>5. d \in Columns(r) /\ ~(Get(r, d) =< r + d) /\ d \in 0..m
    BY <1>1, <2>3, <2>4, ColumnsAre
  <2>6. r # 0 /\ d # 0
    BY <2>3, <2>5, <1>1, GetInTable
  <2>7. r \in 1..n /\ r - 1 \in 0..n /\ r - 1 \notin Over
    <3>1. r \in 1..n /\ r - 1 \in 0..n /\ ~(r =< r - 1)
      BY <1>1, <2>3, <2>6
    <3> HIDE DEF Over
    <3> QED
      BY <2>2, <3>1
  <2>8. Get(r, d) =< Plus(Get(r - 1, d), 1) /\ Get(r, d) =< Plus(Get(r, d - 1), 1)
    BY <1>1, <2>5, <2>6, <2>7, CellInTable
  <2>9. Get(r, d) \in Nat /\ Get(r - 1, d) \in Nat /\ Get(r, d - 1) \in Nat
    BY <2>3, <2>7, GetInTable
  <2>10. CASE d = Lowest(r)
    <3>1. d \in Columns(r - 1)
      BY <1>1, <2>7, <2>10, CorridorMoves
    <3>2. Get(r - 1, d) =< r - 1 + d
      BY <2>7, <3>1
    <3> QED
      BY <1>1, <2>5, <2>7, <2>8, <2>9, <3>2 DEF Plus, Unreached
  <2>11. CASE d # Lowest(r)
    <3>1. d > Lowest(r) /\ Lowest(r) \in Nat
      <4>1. Columns(r) = Lowest(r)..Highest(r) /\ Lowest(r) \in Nat
        BY <1>1, <2>3, ColumnsAre
      <4>2. d \in Lowest(r)..Highest(r)
        BY <2>5, <4>1
      <4> QED
        BY ONLY <2>11, <4>1, <4>2
    <3>2. d - 1 \in Columns(r)
      BY <1>1, <2>5, <2>7, <3>1, CorridorMoves
    <3>3. d - 1 \notin Bad
      <4>1. ~(d =< d - 1)
        BY <2>5
      <4> HIDE DEF Bad
      <4> QED
        BY <2>4, <4>1
    <3>4. Get(r, d - 1) =< r + d - 1
      BY <2>5, <2>7, <3>2, <3>3
    <3> QED
      BY <1>1, <2>5, <2>7, <2>8, <2>9, <3>4 DEF Plus, Unreached
  <2> QED
    BY <2>10, <2>11
<1>3. c \in 0..m
  BY <1>1, ColumnsAre
<1>4. Get(k, c) =< k + c
  BY <1>2
<1> QED
  BY <1>1, <1>3, <1>4, GetInTable

(* The cell the reading moves to is in the table, whichever way it goes:   *)
(* what is left for an insertion, without a check, is one.                 *)
LEMMA ReadingStays ==
    ASSUME Table, i \in 0..n, j \in Columns(i), i > 0 \/ j > 0
    PROVE  /\ MatchFits => i - 1 \in 0..n /\ j > 0 /\ j - 1 \in Columns(i - 1)
           /\ DeletionFits => i - 1 \in 0..n /\ j \in Columns(i - 1)
           /\ ~MatchFits /\ ~DeletionFits => j > 0 /\ j - 1 \in Columns(i)
<1>1. n \in Nat /\ m \in Nat /\ n + m < Unreached /\ Inputs /\ j \in 0..m
  BY InputsSized, ColumnsAre DEF Table
<1>2. MatchFits => i - 1 \in 0..n /\ j > 0 /\ j - 1 \in Columns(i - 1)
  BY <1>1, GetInTable DEF MatchFits
<1>3. DeletionFits => i - 1 \in 0..n /\ j \in Columns(i - 1)
  BY <1>1, GetInTable DEF DeletionFits
<1>4. ASSUME ~MatchFits, ~DeletionFits
      PROVE  j > 0 /\ j - 1 \in Columns(i)
  <2>1. CASE i = 0
    <3>1. j > 0 /\ Lowest(i) = 0 /\ Columns(i) = Lowest(i)..Highest(i) /\ Highest(i) \in 0..m
      BY <1>1, <2>1, CorridorCorners, ColumnsAre
    <3> QED
      BY <1>1, <3>1
  <2>2. CASE i > 0
    <3>1. i \in 1..n /\ i - 1 \in 0..n
      BY <1>1, <2>2
    <3>2. /\ Columns(i) = Lowest(i)..Highest(i) /\ Lowest(i) \in Nat /\ Highest(i) \in 0..m
          /\ Lowest(i) \in Columns(i - 1)
      BY <1>1, <3>1, ColumnsAre, CorridorMoves
    <3>3. Here = Get(i, j) /\ Here \in Nat /\ Here < Unreached
      BY <3>1, CellsReached DEF Here
    <3>4. j > 0
      <4>1. SUFFICES ASSUME j = 0 PROVE FALSE
        BY <1>1
      <4>2. Here = i
        BY <3>1, <3>3, <4>1, GetInTable
      <4>3. 0 \in Columns(i - 1)
        BY <1>1, <3>2, <4>1
      <4>4. Get(i - 1, 0) = i - 1
        BY <3>1, <4>3, GetInTable
      <4> QED
        BY <1>1, <1>4, <3>1, <3>3, <4>1, <4>2, <4>4 DEF DeletionFits, Unreached
    <3>5. SUFFICES ASSUME j - 1 \notin Columns(i) PROVE FALSE
      BY <3>4
    <3>6. j = Lowest(i) /\ j \in Columns(i - 1)
      BY <1>1, <3>2, <3>5
    <3> DEFINE up == Get(i - 1, j)
               diagonal == Get(i - 1, j - 1)
               left == Get(i, j - 1)
    <3>7. up \in Nat /\ up < Unreached /\ up =< i - 1 + j
      BY <3>1, <3>6, CellsReached
    <3>8. left = Unreached /\ diagonal \in Nat
      BY <3>1, <3>5, GetInTable
    <3>9. /\ Here \in {Plus(up, 1), Plus(left, 1), Plus(diagonal, 2 - sim(i, j))}
          /\ Here =< Plus(up, 1)
      BY <3>1, <3>3, <3>4, CellInTable
    <3>10. sim(i, j) \in 0..2
      BY <1>1, <3>1, <3>4, SimRange
    <3> HIDE DEF up, diagonal, left
    <3>11. Here # up + 1
      BY <1>4, <2>2, <3>3, <3>7 DEF DeletionFits, up, Here
    <3>12. diagonal # Unreached /\ Here = diagonal + 2 - sim(i, j)
      BY <3>3, <3>7, <3>8, <3>9, <3>10, <3>11 DEF Plus
    <3>13. sim(i, j) = 0
      BY <1>4, <2>2, <3>4, <3>10, <3>12 DEF MatchFits, diagonal, Here
    <3>14. j - 1 \in Columns(i - 1)
      BY <3>1, <3>12, GetInTable DEF diagonal
    <3>15. up =< diagonal + 1
      <4>1. CASE i - 1 = 0
        BY <1>1, <3>1, <3>6, <3>14, <4>1, GetInTable DEF up, diagonal
      <4>2. CASE i - 1 # 0
        <5>1. i - 1 \in 1..n
          BY <3>1, <4>2
        <5>2. up =< Plus(diagonal, 1)
          BY <3>4, <3>6, <5>1, CellInTable DEF up, diagonal
        <5> QED
          BY <3>8, <3>12, <5>2 DEF Plus
      <4> QED
        BY <4>1, <4>2
    <3>16. Here =< up + 1
      BY <3>7, <3>9 DEF Plus
    <3> QED
      BY <3>3, <3>7, <3>8, <3>11, <3>12, <3>13, <3>15, <3>16
  <2> QED
    BY <1>1, <2>1, <2>2
<1> QED
  BY <1>2, <1>3, <1>4

(* A sequence against itself costs nothing along the diagonal. *)
LEMMA DiagonalIsFree ==
    ASSUME Table, source = target, NEW k \in 0..n
    PROVE  Get(k, k) = 0
<1> DEFINE Bad == {r \in 0..n : Get(r, r) # 0}
<1>1. n \in Nat /\ m \in Nat /\ n = m /\ Inputs
  BY InputsSized DEF Table, n, m
<1>2. SUFFICES ASSUME Bad # {} PROVE FALSE
  OBVIOUS
<1>3. PICK r \in Bad : \A s \in Bad : r =< s
  <2>1. Bad \in SUBSET Nat
    BY <1>1
  <2> HIDE DEF Bad
  <2> QED
    BY ONLY <1>2, <2>1, LeastOf
<1>4. r \in 0..n /\ Get(r, r) # 0 /\ r \in Columns(r)
  BY <1>1, <1>3, CorridorDiagonal
<1>5. r # 0
  BY <1>4, GetInTable
<1>6. r \in 1..n /\ r - 1 \in 0..n /\ Get(r - 1, r - 1) = 0
  <2>1. r \in 1..n /\ r - 1 \in 0..n /\ ~(r =< r - 1)
    BY <1>1, <1>4, <1>5
  <2>2. r - 1 \notin Bad
    <3> HIDE DEF Bad
    <3> QED
      BY <1>3, <2>1
  <2> QED
    BY <2>1, <2>2
<1>7. sim(r, r) = 2
  <2>1. source[r] \in Tokens
    BY <1>1, <1>6 DEF Inputs, n
  <2> QED
    BY <1>1, <2>1, AlignmentAssumption DEF sim
<1>8. Get(r, r) =< Plus(Get(r - 1, r - 1), 2 - sim(r, r))
  BY <1>1, <1>4, <1>6, CellInTable
<1>9. Get(r, r) \in Nat
  BY <1>4, GetInTable
<1> QED
  BY <1>4, <1>6, <1>7, <1>8, <1>9 DEF Plus, Unreached

-----------------------------------------------------------------------------
(* Steps leave the inputs alone, and with them the corridor. *)
LEMMA SameInputs ==
    ASSUME UNCHANGED inputs
    PROVE  /\ Inputs' <=> Inputs
           /\ n' = n /\ m' = m /\ source' = source /\ target' = target /\ band' = band
           /\ \A k : Columns(k)' = Columns(k)
           /\ \A k, c : sim(k, c)' = sim(k, c)
<1>1. source' = source /\ target' = target /\ band' = band
  BY DEF inputs
<1>2. n' = n /\ m' = m
  BY <1>1 DEF n, m
<1>3. effective' = effective
  BY <1>1, <1>2 DEF effective, Longest
<1>4. \A k : BandedRange(k)' = BandedRange(k)
  BY <1>2, <1>3 DEF BandedRange
<1>5. \A k : Columns(k)' = Columns(k)
  BY <1>2, <1>4 DEF Columns
<1> QED
  BY <1>1, <1>2, <1>5 DEF Inputs, sim

LEMMA RowsKeep ==
    ASSUME UNCHANGED inputs, NEW k \in Nat, NEW row, FilledRow(row, k),
           k > 0 => rows'[k - 1] = rows[k - 1]
    PROVE  FilledRow(row, k)'
<1>1. \A d : Columns(d)' = Columns(d)
  BY SameInputs
<1>2. k > 0 => \A c : Get(k - 1, c)' = Get(k - 1, c)
  BY <1>1 DEF Get
<1>3. \A c, left : StepAt(k, c, left)' = StepAt(k, c, left)
  BY <1>2, SameInputs DEF StepAt, Cell
<1> QED
  BY <1>1, <1>3 DEF FilledRow, LeftOf

-----------------------------------------------------------------------------
(* The inductive invariant: the table below the row being filled, and then *)
(* the cell at hand, what is read back so far, and the diagonal.           *)
Stages == {"fill", "read", "aligned", "refused", "answered"}

Filling ==
    \E r \in 0..n :
        /\ DOMAIN rows = 0..(r - 1)
        /\ \A k \in 0..(r - 1) : FilledRow(rows[k], k)
        /\ i = n /\ j = m /\ pairs = <<>>

AtHand ==
    /\ Table
    /\ i \in 0..n /\ j \in Columns(i)
    /\ AtEnd => i = 0 /\ j = 0

ReadPair == [src : Nat, tgt : Nat]

(* The tokens behind the cell at hand were read, each once, last first. *)
ReadSoFar ==
    /\ pairs \in Seq(ReadPair)
    /\ \A k \in DOMAIN pairs :
          /\ pairs[k].src # 0 => pairs[k].src \in (i + 1)..n
          /\ pairs[k].tgt # 0 => pairs[k].tgt \in (j + 1)..m
    /\ \A s \in (i + 1)..n : \E k \in DOMAIN pairs : pairs[k].src = s
    /\ \A t \in (j + 1)..m : \E k \in DOMAIN pairs : pairs[k].tgt = t
    /\ \A k, l \in DOMAIN pairs :
          k < l => /\ 0 \notin {pairs[k].src, pairs[l].src} => pairs[l].src < pairs[k].src
                   /\ 0 \notin {pairs[k].tgt, pairs[l].tgt} => pairs[l].tgt < pairs[k].tgt

OnDiagonal ==
    source = target =>
        /\ i = j /\ ~exhausted /\ ops = {} /\ stage # "refused"
        /\ \A k \in DOMAIN pairs : pairs[k].src = pairs[k].tgt

AlignInv ==
    /\ Inputs /\ stage \in Stages
    /\ stage = "fill" => Filling
    /\ stage # "fill" => AtHand
    /\ ReadSoFar
    /\ OnDiagonal

LEMMA AlignInvInit ==
    ASSUME AlignInit
    PROVE  AlignInv
<1>1. PICK from \in SeqOf(Tokens, MaxLength), to \in SeqOf(Tokens, MaxLength), width \in Bands :
         Aligning(from, to, width)
  BY DEF AlignInit
<1>2. \A s \in SeqOf(Tokens, MaxLength) : s \in Seq(Tokens) /\ Len(s) =< MaxLength
  BY AlignmentAssumption DEF SeqOf
<1>3. Inputs
  BY <1>1, <1>2, AlignmentAssumption DEF Aligning, Inputs, n, m
<1>4. n \in Nat /\ m \in Nat
  BY <1>3, InputsSized
<1>5. i = n /\ j = m /\ pairs = <<>> /\ stage = "fill" /\ ~exhausted /\ ops = {}
  BY <1>1 DEF Aligning, n, m
<1>6. DOMAIN rows = 0..(0 - 1)
  BY <1>1 DEF Aligning
<1>7. Filling
  BY <1>4, <1>5, <1>6 DEF Filling
<1>8. ReadSoFar
  BY <1>4, <1>5 DEF ReadSoFar
<1>9. OnDiagonal
  BY <1>5 DEF OnDiagonal, n, m
<1> QED
  BY <1>3, <1>5, <1>7, <1>8, <1>9 DEF AlignInv, Stages

LEMMA FillRowKeeps ==
    ASSUME AlignInv, FillRow
    PROVE  AlignInv'
<1>1. UNCHANGED inputs /\ UNCHANGED <<i, j, pairs, exhausted, ops>> /\ stage = "fill"
  BY DEF FillRow
<1>2. Inputs /\ Inputs' /\ n' = n /\ m' = m /\ n \in Nat /\ m \in Nat
      /\ source' = source /\ target' = target
      /\ \A k : Columns(k)' = Columns(k)
  BY <1>1, SameInputs, InputsSized DEF AlignInv
<1>3. PICK r \in 0..n :
         /\ DOMAIN rows = 0..(r - 1)
         /\ \A k \in 0..(r - 1) : FilledRow(rows[k], k)
         /\ i = n /\ j = m /\ pairs = <<>>
  BY <1>1 DEF AlignInv, Filling
<1>4. Cardinality(DOMAIN rows) = r
  BY <1>2, <1>3, FS_Interval
<1>5. PICK row : row = Row(r)
  OBVIOUS
<1>6. rows' = [k \in 0..r |-> IF k = r THEN row ELSE rows[k]]
      /\ stage' = IF r = n THEN "read" ELSE "fill"
  BY <1>4, <1>5 DEF FillRow
<1>7. FilledRow(row, r)
  <2>1. RowAbove(r)
    BY <1>2, <1>3 DEF RowAbove, FilledRow
  <2> QED
    BY <1>2, <1>5, <2>1, RowFilled
<1>8. \A k \in 0..r : FilledRow(rows[k], k)'
  <2> SUFFICES ASSUME NEW k \in 0..r
               PROVE  FilledRow(rows[k], k)'
    OBVIOUS
  <2>1. k > 0 => rows'[k - 1] = rows[k - 1]
    BY <1>2, <1>6
  <2>2. PICK above : above = rows'[k]
    OBVIOUS
  <2>3. FilledRow(above, k)
    BY <1>2, <1>3, <1>6, <1>7, <2>2
  <2>4. FilledRow(above, k)'
    BY <1>1, <1>2, <2>1, <2>3, RowsKeep
  <2> QED
    BY <2>2, <2>4 DEF FilledRow, LeftOf
<1>9. ReadSoFar' /\ OnDiagonal'
  BY <1>1, <1>2, <1>6 DEF AlignInv, ReadSoFar, OnDiagonal
<1>10. CASE r = n
  <2>1. Table'
    BY <1>2, <1>8, <1>10 DEF Table
  <2>2. j \in Columns(i)
    BY <1>2, <1>3, CorridorCorners
  <2>3. AtHand'
    BY <1>1, <1>2, <1>3, <1>6, <1>10, <2>1, <2>2 DEF AtHand, AtEnd
  <2> QED
    BY <1>2, <1>6, <1>9, <1>10, <2>3 DEF AlignInv, Stages
<1>11. CASE r # n
  <2>1. r + 1 \in 0..n' /\ (r + 1) - 1 = r /\ DOMAIN rows' = 0..r
    BY <1>2, <1>6, <1>11
  <2>2. Filling'
    BY <1>1, <1>2, <1>3, <1>8, <2>1 DEF Filling
  <2> QED
    BY <1>2, <1>6, <1>9, <1>11, <2>2 DEF AlignInv, Stages
<1> QED
  BY <1>10, <1>11

(* One more pair read: the token at hand of one side, of the other, or of  *)
(* both.                                                                   *)
LEMMA PairRead ==
    ASSUME ReadSoFar, n \in Nat, m \in Nat, i \in 0..n, j \in 0..m,
           n' = n, m' = m,
           NEW s \in {0, i}, NEW t \in {0, j},
           pairs' = Append(pairs, [src |-> s, tgt |-> t]),
           i' = (IF s = 0 THEN i ELSE i - 1), j' = (IF t = 0 THEN j ELSE j - 1)
    PROVE  ReadSoFar'
<1> DEFINE new == [src |-> s, tgt |-> t]
           N == Len(pairs)
<1>1. /\ pairs \in Seq(ReadPair)
      /\ new \in ReadPair /\ new.src = s /\ new.tgt = t
      /\ N \in Nat /\ DOMAIN pairs = 1..N
  BY DEF ReadSoFar, ReadPair
<1>2. /\ pairs' \in Seq(ReadPair)
      /\ DOMAIN pairs' = 1..(N + 1)
      /\ pairs'[N + 1] = new
      /\ \A k \in 1..N : pairs'[k] = pairs[k]
  BY <1>1
<1>3. \A k \in 1..N : /\ pairs[k].src \in Nat /\ pairs[k].tgt \in Nat
                      /\ pairs[k].src # 0 => pairs[k].src \in (i + 1)..n
                      /\ pairs[k].tgt # 0 => pairs[k].tgt \in (j + 1)..m
  <2> SUFFICES ASSUME NEW k \in 1..N
               PROVE  /\ pairs[k].src \in Nat /\ pairs[k].tgt \in Nat
                      /\ pairs[k].src # 0 => pairs[k].src \in (i + 1)..n
                      /\ pairs[k].tgt # 0 => pairs[k].tgt \in (j + 1)..m
    OBVIOUS
  <2>1. pairs[k] \in ReadPair
    <3>1. pairs \in Seq(ReadPair) /\ k \in 1..Len(pairs)
      BY <1>1
    <3> QED
      BY ONLY <3>1
  <2>2. pairs[k].src \in Nat /\ pairs[k].tgt \in Nat
    BY <2>1 DEF ReadPair
  <2> QED
    BY <1>1, <2>2 DEF ReadSoFar
<1> HIDE DEF N, new
<1>8. i \in Nat /\ j \in Nat /\ i' \in Int /\ j' \in Int /\ s \in Nat /\ t \in Nat
       /\ i' =< i /\ j' =< j /\ i =< n /\ j =< m
       /\ (s # 0 => s = i /\ i' = i - 1) /\ (t # 0 => t = j /\ j' = j - 1)
       /\ (s = 0 => i' = i) /\ (t = 0 => j' = j)
  OBVIOUS
<1>4. ASSUME NEW k \in DOMAIN pairs'
      PROVE  /\ pairs'[k].src # 0 => pairs'[k].src \in (i' + 1)..n'
             /\ pairs'[k].tgt # 0 => pairs'[k].tgt \in (j' + 1)..m'
  <2>1. CASE k = N + 1
    <3>1. pairs'[k].src = s /\ pairs'[k].tgt = t
      BY <1>1, <1>2, <2>1
    <3> QED
      BY <1>8, <3>1, SMTT(30)
  <2>2. CASE k \in 1..N
    <3>1. pairs'[k] = pairs[k]
      BY <1>2, <2>2
    <3> QED
      BY <1>3, <1>8, <2>2, <3>1
  <2> QED
    BY <1>1, <1>2, <2>1, <2>2
<1>5. ASSUME NEW x \in (i' + 1)..n'
      PROVE  \E k \in DOMAIN pairs' : pairs'[k].src = x
  <2>1. CASE x \in (i + 1)..n
    <3>1. PICK k \in 1..N : pairs[k].src = x
      BY <1>1, <2>1 DEF ReadSoFar
    <3>2. k \in DOMAIN pairs' /\ pairs'[k] = pairs[k]
      BY <1>1, <1>2, <3>1
    <3> QED
      BY <3>1, <3>2
  <2>2. CASE s # 0 /\ x = i
    <3>1. N + 1 \in DOMAIN pairs' /\ pairs'[N + 1].src = x
      BY <1>1, <1>2, <2>2
    <3> QED
      BY <3>1
  <2> QED
    BY <1>8, <2>1, <2>2
<1>6. ASSUME NEW x \in (j' + 1)..m'
      PROVE  \E k \in DOMAIN pairs' : pairs'[k].tgt = x
  <2>1. CASE x \in (j + 1)..m
    <3>1. PICK k \in 1..N : pairs[k].tgt = x
      BY <1>1, <2>1 DEF ReadSoFar
    <3>2. k \in DOMAIN pairs' /\ pairs'[k] = pairs[k]
      BY <1>1, <1>2, <3>1
    <3> QED
      BY <3>1, <3>2
  <2>2. CASE t # 0 /\ x = j
    <3>1. N + 1 \in DOMAIN pairs' /\ pairs'[N + 1].tgt = x
      BY <1>1, <1>2, <2>2
    <3> QED
      BY <3>1
  <2> QED
    BY <1>8, <2>1, <2>2
<1>7. ASSUME NEW k \in DOMAIN pairs', NEW l \in DOMAIN pairs', k < l
      PROVE  /\ 0 \notin {pairs'[k].src, pairs'[l].src} => pairs'[l].src < pairs'[k].src
             /\ 0 \notin {pairs'[k].tgt, pairs'[l].tgt} => pairs'[l].tgt < pairs'[k].tgt
  <2>1. k \in 1..N /\ l \in 1..(N + 1)
    BY <1>1, <1>2, <1>7
  <2>2. CASE l \in 1..N
    <3>1. /\ 0 \notin {pairs[k].src, pairs[l].src} => pairs[l].src < pairs[k].src
          /\ 0 \notin {pairs[k].tgt, pairs[l].tgt} => pairs[l].tgt < pairs[k].tgt
      BY <1>1, <1>7, <2>1, <2>2 DEF ReadSoFar
    <3>2. pairs'[k] = pairs[k] /\ pairs'[l] = pairs[l]
      BY <1>2, <2>1, <2>2
    <3> QED
      BY <3>1, <3>2
  <2>3. CASE l = N + 1
    <3>1. pairs'[k] = pairs[k] /\ pairs'[l].src = s /\ pairs'[l].tgt = t
      BY <1>1, <1>2, <2>1, <2>3
    <3>2. /\ pairs[k].src \in Nat /\ pairs[k].tgt \in Nat
          /\ pairs[k].src # 0 => pairs[k].src \in (i + 1)..n
          /\ pairs[k].tgt # 0 => pairs[k].tgt \in (j + 1)..m
      BY <1>3, <2>1
    <3> QED
      BY <1>8, <3>1, <3>2, SMTT(30)
  <2>4. l \in 1..N \/ l = N + 1
    BY <1>1, <2>1
  <2> QED
    BY <2>2, <2>3, <2>4
<1> QED
  BY <1>2, <1>4, <1>5, <1>6, <1>7 DEF ReadSoFar

LEMMA TableKeeps ==
    ASSUME Table, UNCHANGED inputs, UNCHANGED rows
    PROVE  Table' /\ \A k, c : Get(k, c)' = Get(k, c)
<1>1. Inputs' /\ n' = n /\ n \in Nat /\ \A k : Columns(k)' = Columns(k)
  BY SameInputs, InputsSized DEF Table
<1>2. \A k \in 0..n : FilledRow(rows[k], k)'
  <2> SUFFICES ASSUME NEW k \in 0..n
               PROVE  FilledRow(rows[k], k)'
    OBVIOUS
  <2>1. PICK row : row = rows[k]
    OBVIOUS
  <2>2. FilledRow(row, k)'
    BY <1>1, <2>1, RowsKeep DEF Table
  <2> QED
    BY <2>1, <2>2 DEF FilledRow, LeftOf
<1> QED
  BY <1>1, <1>2 DEF Table, Get

(* What the three ways of reading have in common. *)
LEMMA ReadFacts ==
    ASSUME AlignInv, ReadStep, ReadFrame
    PROVE  /\ Table /\ Table' /\ i \in 0..n /\ j \in 0..m /\ j \in Columns(i) /\ n \in Nat /\ m \in Nat
           /\ n' = n /\ m' = m /\ stage = "read" /\ stage' = "read" /\ ops' = ops
           /\ source' = source /\ target' = target
           /\ Inputs' /\ \A k : Columns(k)' = Columns(k)
           /\ source = target => ~exhausted'
<1>1. Table /\ i \in 0..n /\ j \in Columns(i) /\ stage = "read" /\ Inputs
  BY DEF ReadStep, AlignInv, AtHand
<1>2. /\ n \in Nat /\ m \in Nat /\ j \in 0..m
      /\ UNCHANGED inputs /\ UNCHANGED <<rows, stage, ops>>
  BY <1>1, InputsSized, ColumnsAre DEF ReadFrame
<1>3. Table' /\ n' = n /\ m' = m /\ source' = source /\ target' = target
      /\ Inputs' /\ \A k : Columns(k)' = Columns(k)
  BY <1>1, <1>2, TableKeeps, SameInputs
<1>4. ASSUME source = target
      PROVE  ~exhausted'
  <2>1. i = j /\ ~exhausted
    BY <1>4 DEF AlignInv, OnDiagonal
  <2>2. n = m
    BY <1>4 DEF n, m
  <2>3. ~NearEdge
    <3>1. SUFFICES ASSUME j \in 1..(m - 1) PROVE {j - 1, j + 1} \subseteq Columns(i)
      BY DEF NearEdge
    <3> QED
      BY <1>1, <1>2, <2>1, <2>2, <3>1, CorridorDiagonal
  <2> QED
    BY <2>1, <2>3 DEF ReadStep
<1> QED
  BY <1>1, <1>2, <1>3, <1>4

LEMMA MatchKeeps ==
    ASSUME AlignInv, Match
    PROVE  AlignInv'
<1>1. ReadStep /\ ReadFrame /\ MatchFits
  BY DEF Match
<1>2. /\ Table /\ Table' /\ i \in 0..n /\ j \in 0..m /\ j \in Columns(i) /\ n \in Nat /\ m \in Nat
      /\ n' = n /\ m' = m /\ stage' = "read" /\ ops' = ops
      /\ source' = source /\ target' = target
      /\ Inputs' /\ (\A k : Columns(k)' = Columns(k))
      /\ (source = target => ~exhausted')
  BY <1>1, ReadFacts
<1>3. i - 1 \in 0..n /\ j > 0 /\ j - 1 \in Columns(i - 1) /\ i > 0
  BY <1>1, <1>2, ReadingStays DEF ReadStep, MatchFits
<1>4. i' = i - 1 /\ j' = j - 1 /\ pairs' = Append(pairs, [src |-> i, tgt |-> j])
  BY DEF Match
<1>5. ReadSoFar'
  BY <1>2, <1>3, <1>4, PairRead DEF AlignInv
<1>6. AtHand'
  BY <1>2, <1>3, <1>4 DEF AtHand, AtEnd
<1>7. OnDiagonal'
  <2>1. SUFFICES ASSUME source = target
                 PROVE  i' = j' /\ \A k \in DOMAIN pairs' : pairs'[k].src = pairs'[k].tgt
    BY <1>2 DEF AlignInv, OnDiagonal
  <2>2. i = j /\ \A k \in DOMAIN pairs : pairs[k].src = pairs[k].tgt
    BY <2>1 DEF AlignInv, OnDiagonal
  <2>3. pairs \in Seq(ReadPair)
    BY DEF AlignInv, ReadSoFar
  <2> QED
    BY <1>2, <1>4, <2>2, <2>3
<1> QED
  BY <1>2, <1>5, <1>6, <1>7 DEF AlignInv, Stages

(* On the diagonal a match always fits. *)
LEMMA DiagonalMatches ==
    ASSUME AlignInv, ReadStep, ReadFrame, source = target
    PROVE  MatchFits
<1>1. Table /\ i \in 0..n /\ n \in Nat /\ i = j /\ n = m /\ i > 0
  BY ReadFacts DEF AlignInv, OnDiagonal, ReadStep, n, m
<1>2. i \in 1..n /\ i - 1 \in 0..n
  BY <1>1
<1>3. Get(i, i) = 0 /\ Get(i - 1, i - 1) = 0
  BY <1>1, <1>2, DiagonalIsFree
<1>4. sim(i, i) = 2
  <2>1. source[i] \in Tokens
    BY <1>1, <1>2 DEF Table, Inputs, n
  <2> QED
    BY <2>1, AlignmentAssumption DEF sim
<1> QED
  BY <1>1, <1>3, <1>4 DEF MatchFits, Here, Unreached

LEMMA DeleteKeeps ==
    ASSUME AlignInv, Delete
    PROVE  AlignInv'
<1>1. ReadStep /\ ReadFrame /\ DeletionFits /\ ~MatchFits
  BY DEF Delete
<1>2. /\ Table /\ Table' /\ i \in 0..n /\ j \in 0..m /\ j \in Columns(i) /\ n \in Nat /\ m \in Nat
      /\ n' = n /\ m' = m /\ stage' = "read" /\ ops' = ops
      /\ source' = source /\ target' = target
      /\ Inputs' /\ (\A k : Columns(k)' = Columns(k))
  BY <1>1, ReadFacts
<1>3. i - 1 \in 0..n /\ j \in Columns(i - 1) /\ i > 0
  BY <1>1, <1>2, ReadingStays DEF ReadStep, DeletionFits
<1>4. i' = i - 1 /\ j' = j /\ pairs' = Append(pairs, [src |-> i, tgt |-> 0])
  BY DEF Delete
<1>5. ReadSoFar'
  BY <1>2, <1>3, <1>4, PairRead DEF AlignInv
<1>6. AtHand'
  BY <1>2, <1>3, <1>4 DEF AtHand, AtEnd
<1>7. source # target
  BY <1>1, DiagonalMatches
<1> QED
  BY <1>2, <1>5, <1>6, <1>7 DEF AlignInv, Stages, OnDiagonal

LEMMA InsertKeeps ==
    ASSUME AlignInv, Insert
    PROVE  AlignInv'
<1>1. ReadStep /\ ReadFrame /\ ~DeletionFits /\ ~MatchFits
  BY DEF Insert
<1>2. /\ Table /\ Table' /\ i \in 0..n /\ j \in 0..m /\ j \in Columns(i) /\ n \in Nat /\ m \in Nat
      /\ n' = n /\ m' = m /\ stage' = "read" /\ ops' = ops
      /\ source' = source /\ target' = target
      /\ Inputs' /\ (\A k : Columns(k)' = Columns(k))
  BY <1>1, ReadFacts
<1>3. j > 0 /\ j - 1 \in Columns(i)
  BY <1>1, <1>2, ReadingStays DEF ReadStep
<1>4. i' = i /\ j' = j - 1 /\ pairs' = Append(pairs, [src |-> 0, tgt |-> j])
  BY DEF Insert
<1>5. ReadSoFar'
  BY <1>2, <1>3, <1>4, PairRead DEF AlignInv
<1>6. AtHand'
  BY <1>2, <1>3, <1>4 DEF AtHand, AtEnd
<1>7. source # target
  BY <1>1, DiagonalMatches
<1> QED
  BY <1>2, <1>5, <1>6, <1>7 DEF AlignInv, Stages, OnDiagonal

LEMMA EndReadingKeeps ==
    ASSUME AlignInv, EndReading
    PROVE  AlignInv'
<1>1. UNCHANGED inputs /\ UNCHANGED <<rows, i, j, pairs, exhausted, ops>>
      /\ stage = "read" /\ stage' = "aligned" /\ i = 0 /\ j = 0
  BY DEF EndReading
<1>2. Table /\ j \in Columns(i) /\ i \in 0..n /\ Inputs
  BY <1>1 DEF AlignInv, AtHand
<1>3. Table' /\ Inputs' /\ n' = n /\ m' = m /\ source' = source /\ target' = target
      /\ \A k : Columns(k)' = Columns(k)
  BY <1>1, <1>2, TableKeeps, SameInputs
<1>4. AtHand'
  BY <1>1, <1>2, <1>3 DEF AtHand
<1> QED
  BY <1>1, <1>3, <1>4 DEF AlignInv, Stages, ReadSoFar, OnDiagonal

(* The answer: what is trusted, and what is edited. *)
LEMMA AnswerKeeps ==
    ASSUME AlignInv, RefuseAnswer \/ EditMatched
    PROVE  AlignInv'
<1>1. UNCHANGED inputs /\ UNCHANGED <<rows, i, j, pairs, exhausted>>
      /\ stage = "aligned" /\ stage' \in {"refused", "answered"}
  BY DEF RefuseAnswer, EditMatched
<1>2. Table /\ j \in Columns(i) /\ i \in 0..n /\ i = 0 /\ j = 0 /\ Inputs
  BY <1>1 DEF AlignInv, AtHand, AtEnd
<1>3. Table' /\ Inputs' /\ n' = n /\ m' = m /\ source' = source /\ target' = target
      /\ \A k : Columns(k)' = Columns(k)
  BY <1>1, <1>2, TableKeeps, SameInputs
<1>4. AtHand'
  BY <1>1, <1>2, <1>3 DEF AtHand
<1>5. source = target => ops' = {} /\ stage' # "refused"
  <2>1. SUFFICES ASSUME source = target PROVE ops' = {} /\ stage' # "refused"
    OBVIOUS
  <2>2. /\ ~exhausted /\ ops = {}
        /\ \A k \in DOMAIN pairs : pairs[k].src = pairs[k].tgt
    BY <2>1 DEF AlignInv, OnDiagonal
  <2>3. ~RefuseAnswer /\ EditMatched
    BY <2>2 DEF RefuseAnswer
  <2>4. \A p \in Matched : p[1] = p[2]
    BY <2>2 DEF Matched, Range
  <2> QED
    BY <2>1, <2>3, <2>4 DEF EditMatched
<1> QED
  BY <1>1, <1>3, <1>4, <1>5 DEF AlignInv, Stages, ReadSoFar, OnDiagonal

LEMMA AlignInvStep ==
    ASSUME AlignInv, [AlignNext]_alignVars
    PROVE  AlignInv'
<1>1. CASE FillRow
  BY <1>1, FillRowKeeps
<1>2. CASE Match
  BY <1>2, MatchKeeps
<1>3. CASE Delete
  BY <1>3, DeleteKeeps
<1>4. CASE Insert
  BY <1>4, InsertKeeps
<1>5. CASE EndReading
  BY <1>5, EndReadingKeeps
<1>6. CASE RefuseAnswer \/ EditMatched
  BY <1>6, AnswerKeeps
<1>7. CASE UNCHANGED alignVars
  <2>1. /\ UNCHANGED inputs /\ UNCHANGED <<source, target, band>>
        /\ UNCHANGED <<rows, i, j, pairs, exhausted, stage, ops>>
    BY <1>7 DEF alignVars, inputs
  <2>2. Inputs' /\ n' = n /\ m' = m /\ \A k : Columns(k)' = Columns(k)
    BY <2>1, SameInputs DEF AlignInv
  <2>3. \A k, row : FilledRow(row, k)' = FilledRow(row, k)
    <3>1. \A k, c : Get(k, c)' = Get(k, c)
      BY <2>1, <2>2 DEF Get
    <3>2. \A k, c, left : StepAt(k, c, left)' = StepAt(k, c, left)
      BY <2>1, <3>1, SameInputs DEF StepAt, Cell
    <3> QED
      BY <2>2, <3>2 DEF FilledRow, LeftOf
  <2>4. \A k : FilledRow(rows[k], k)' = FilledRow(rows[k], k)
    <3> SUFFICES ASSUME NEW k
                 PROVE  FilledRow(rows[k], k)' = FilledRow(rows[k], k)
      OBVIOUS
    <3>1. PICK row : row = rows[k]
      OBVIOUS
    <3>2. FilledRow(row, k)' = FilledRow(row, k)
      BY <2>3
    <3> QED
      BY <2>1, <3>1, <3>2 DEF FilledRow, LeftOf
  <2>5. Table' = Table
    BY <2>2, <2>4 DEF Table, AlignInv
  <2> QED
    BY <2>1, <2>2, <2>4, <2>5
    DEF AlignInv, Filling, AtHand, AtEnd, ReadSoFar, OnDiagonal
<1> QED
  BY <1>1, <1>2, <1>3, <1>4, <1>5, <1>6, <1>7 DEF AlignNext

LEMMA AlignInvAlways == AlignSpec => []AlignInv
  BY AlignInvInit, AlignInvStep, PTL DEF AlignSpec

-----------------------------------------------------------------------------
(* The reading of the table never leaves it: the cell at hand is one the   *)
(* corridor holds and reached, for every two sequences, every similarity   *)
(* and every corridor asked for.  The insertion taken without a check in   *)
(* align_tokens is justified by the corridor being as wide as the          *)
(* difference in length and by neighbouring corridors overlapping.         *)
THEOREM ReadingStaysInCorridor == AlignSpec => []StaysInCorridor
<1>1. AlignInv => StaysInCorridor
  <2> SUFFICES ASSUME AlignInv, stage = "read"
               PROVE  i >= 0 /\ j \in Columns(i) /\ Here < Unreached
    BY DEF StaysInCorridor
  <2>1. Table /\ i \in 0..n /\ j \in Columns(i) /\ n \in Nat
    BY InputsSized DEF AlignInv, AtHand
  <2> QED
    BY <2>1, CellsReached DEF Here
<1> QED
  BY <1>1, AlignInvAlways, PTL

(* Read forwards, the pairs go through every token of both sides exactly   *)
(* once and in order, for every two sequences and every corridor.          *)
THEOREM TokensReadOnce == AlignSpec => []EveryTokenOnce
<1>1. AlignInv => EveryTokenOnce
  <2> SUFFICES ASSUME AlignInv, AtEnd
               PROVE  /\ {p.src : p \in Range(pairs)} \ {0} = 1..n
                      /\ {p.tgt : p \in Range(pairs)} \ {0} = 1..m
                      /\ \A k, l \in DOMAIN pairs :
                            k < l => /\ 0 \notin {pairs[k].src, pairs[l].src} => pairs[l].src < pairs[k].src
                                     /\ 0 \notin {pairs[k].tgt, pairs[l].tgt} => pairs[l].tgt < pairs[k].tgt
    BY DEF EveryTokenOnce
  <2>1. ReadSoFar /\ i = 0 /\ j = 0
    BY DEF AlignInv, AtHand, AtEnd
  <2>2. {p.src : p \in Range(pairs)} \ {0} = 1..n
    BY <2>1 DEF ReadSoFar, Range
  <2>3. {p.tgt : p \in Range(pairs)} \ {0} = 1..m
    BY <2>1 DEF ReadSoFar, Range
  <2> QED
    BY <2>1, <2>2, <2>3 DEF ReadSoFar
<1> QED
  BY <1>1, AlignInvAlways, PTL

LEMMA EchoMovesNothing ==
    ASSUME AlignInv, source = target
    PROVE  ~MoveSuspected
<1>1. SUFFICES ASSUME NEW q \in Range(pairs), q.src # 0, q.tgt = 0 \/ sim(q.src, q.tgt) = 0
               PROVE  FALSE
  BY DEF MoveSuspected
<1>2. PICK k \in DOMAIN pairs : q = pairs[k]
  BY DEF Range
<1>3. n \in Nat /\ i \in Nat /\ source \in Seq(Tokens)
  <2>1. Inputs /\ n \in Nat /\ m \in Nat
    BY InputsSized DEF AlignInv
  <2>2. i \in 0..n
    BY <2>1 DEF AlignInv, Filling, AtHand
  <2> QED
    BY <2>1, <2>2 DEF Inputs
<1>4. q.tgt = q.src /\ q.src \in (i + 1)..n
  BY <1>1, <1>2 DEF AlignInv, OnDiagonal, ReadSoFar
<1>5. q.src \in 1..Len(source)
  BY <1>3, <1>4 DEF n
<1>6. PICK a \in Tokens : a = source[q.src]
  BY <1>3, <1>5
<1>7. sim(q.src, q.tgt) = 2
  BY <1>4, <1>6, AlignmentAssumption DEF sim
<1> QED
  BY <1>1, <1>4, <1>5, <1>7

(* A page sent back unchanged is never refused, yields no edit and raises  *)
(* no move flag, in any corridor: the diagonal costs nothing, both its     *)
(* neighbours are inside, and every token is settled on itself.            *)
THEOREM EchoIsTrusted == AlignSpec => []UnchangedIsTrusted
<1>1. AlignInv => UnchangedIsTrusted
  BY EchoMovesNothing DEF AlignInv, OnDiagonal, UnchangedIsTrusted
<1> QED
  BY <1>1, AlignInvAlways, PTL

-----------------------------------------------------------------------------
(* What a rearranged line tells.  Only tokens that look alike are matched, *)
(* and a matching that leaves no token out moves none.                     *)
PairsAlike ==
    \A k \in DOMAIN pairs :
        pairs[k].src # 0 /\ pairs[k].tgt # 0 => sim(pairs[k].src, pairs[k].tgt) > 0

LEMMA PairsAlikeNext ==
    ASSUME AlignInv, PairsAlike, [AlignNext]_alignVars
    PROVE  PairsAlike'
<1>1. pairs \in Seq(ReadPair)
  BY DEF AlignInv, ReadSoFar
<1>2. source' = source /\ target' = target
  BY DEF AlignNext, FillRow, Match, Delete, Insert, EndReading, RefuseAnswer, EditMatched,
         ReadFrame, inputs, alignVars
<1>3. \A k, l : sim(k, l)' = sim(k, l)
  BY <1>2 DEF sim
<1>4. ASSUME NEW s, NEW t, pairs' = Append(pairs, [src |-> s, tgt |-> t]),
             s # 0 /\ t # 0 => sim(s, t) > 0
      PROVE  PairsAlike'
  <2>1. SUFFICES ASSUME NEW k \in DOMAIN pairs'
                 PROVE  pairs'[k].src # 0 /\ pairs'[k].tgt # 0
                            => sim(pairs'[k].src, pairs'[k].tgt) > 0
    BY <1>3 DEF PairsAlike
  <2>2. (k \in DOMAIN pairs /\ pairs'[k] = pairs[k]) \/ pairs'[k] = [src |-> s, tgt |-> t]
    BY <1>1, <1>4
  <2> QED
    BY <1>4, <2>2 DEF PairsAlike
<1>5. CASE Match
  BY <1>4, <1>5 DEF Match, MatchFits
<1>6. CASE Delete
  BY <1>4, <1>6 DEF Delete
<1>7. CASE Insert
  BY <1>4, <1>7 DEF Insert
<1>8. CASE UNCHANGED pairs
  BY <1>3, <1>8 DEF PairsAlike
<1> QED
  BY <1>5, <1>6, <1>7, <1>8
  DEF AlignNext, FillRow, EndReading, RefuseAnswer, EditMatched, alignVars

(* An increasing function of 1..N into itself moves nothing. *)
LEMMA IncreasingMovesNothing ==
    ASSUME NEW N \in Nat, NEW f \in [1..N -> 1..N],
           \A k, l \in 1..N : k < l => f[k] < f[l]
    PROVE  \A k \in 1..N : f[k] = k
<1>1. \A k \in 1..N : f[k] \in 1..N
  OBVIOUS
<1>2. ASSUME NEW k \in 1..N, f[k] < k
      PROVE  FALSE
  <2> DEFINE T == {y \in 1..N : f[y] < y}
  <2>1. T \in SUBSET Nat /\ T # {}
    BY <1>2
  <2>2. PICK x \in T : \A y \in T : x =< y
    <3> HIDE DEF T
    <3> QED
      BY <2>1, LeastOf
  <2>3. x \in 1..N /\ f[x] < x /\ x - 1 \in 1..N
    BY <1>1, <2>2
  <2>4. ~(f[x - 1] < x - 1)
    BY <2>2, <2>3
  <2>5. f[x - 1] < f[x]
    BY <2>3
  <2> QED
    BY <1>1, <2>3, <2>4, <2>5
<1>3. ASSUME NEW k \in 1..N, f[k] > k
      PROVE  FALSE
  <2> DEFINE T == {d \in 0..N : N - d \in 1..N /\ f[N - d] > N - d}
  <2>1. N - k \in T
    BY <1>3
  <2>2. T \in SUBSET Nat /\ T # {}
    <3>1. T \subseteq 0..N /\ 0..N \subseteq Nat
      OBVIOUS
    <3> HIDE DEF T
    <3> QED
      BY <2>1, <3>1
  <2>3. PICK x \in T : \A y \in T : x =< y
    <3> HIDE DEF T
    <3> QED
      BY <2>2, LeastOf
  <2> DEFINE last == N - x
  <2>4. x \in 0..N /\ last \in 1..N /\ f[last] > last
    BY <2>3
  <2>5. last + 1 \in 1..N
    BY <1>1, <2>4
  <2>6. ~(f[last + 1] > last + 1)
    <3>1. x - 1 \in 0..N /\ N - (x - 1) = last + 1
      BY <2>4, <2>5
    <3>2. x - 1 \notin T
      <4>1. x - 1 < x /\ x \in Nat /\ x - 1 \in Nat
        BY <2>4, <3>1
      <4> HIDE DEF T
      <4> QED
        BY <2>3, <4>1
    <3> QED
      BY <2>5, <3>1, <3>2
  <2>7. f[last] < f[last + 1]
    BY <2>4, <2>5
  <2> QED
    BY <1>1, <2>4, <2>5, <2>6, <2>7
<1> QED
  BY <1>1, <1>2, <1>3

(* When every source token has a counterpart, it is the token at its place.*)
LEMMA FullMatchingMovesNothing ==
    ASSUME AlignInv, AtEnd, n = m,
           \A k \in DOMAIN pairs : pairs[k].src # 0 => pairs[k].tgt # 0
    PROVE  \A k \in DOMAIN pairs : pairs[k].src # 0 => pairs[k].tgt = pairs[k].src
<1>1. ReadSoFar /\ i = 0 /\ j = 0 /\ n \in Nat /\ m \in Nat
  BY InputsSized DEF AlignInv, AtHand, AtEnd
<1>2. /\ \A s \in 1..n : \E k \in DOMAIN pairs : pairs[k].src = s
      /\ \A k \in DOMAIN pairs : /\ pairs[k].src # 0 => pairs[k].src \in 1..n
                                 /\ pairs[k].tgt # 0 => pairs[k].tgt \in 1..n
      /\ \A k, l \in DOMAIN pairs :
            k < l => /\ 0 \notin {pairs[k].src, pairs[l].src} => pairs[l].src < pairs[k].src
                     /\ 0 \notin {pairs[k].tgt, pairs[l].tgt} => pairs[l].tgt < pairs[k].tgt
      /\ DOMAIN pairs \subseteq Nat
  BY <1>1 DEF ReadSoFar
<1> DEFINE at == [s \in 1..n |-> CHOOSE k \in DOMAIN pairs : pairs[k].src = s]
           f == [s \in 1..n |-> pairs[at[s]].tgt]
<1>3. \A s \in 1..n : at[s] \in DOMAIN pairs /\ pairs[at[s]].src = s
  BY <1>2
<1> HIDE DEF at
<1>4. f \in [1..n -> 1..n] /\ \A s \in 1..n : f[s] = pairs[at[s]].tgt /\ f[s] # 0
  BY <1>2, <1>3
<1>5. ASSUME NEW s \in 1..n, NEW u \in 1..n, s < u
      PROVE  f[s] < f[u]
  <2>1. /\ at[s] \in DOMAIN pairs /\ at[u] \in DOMAIN pairs
        /\ pairs[at[s]].src = s /\ pairs[at[u]].src = u /\ s # 0 /\ u # 0
        /\ f[s] = pairs[at[s]].tgt /\ f[u] = pairs[at[u]].tgt /\ f[s] # 0 /\ f[u] # 0
    BY <1>3, <1>4
  <2>2. ~(at[s] < at[u])
    BY <1>2, <1>5, <2>1
  <2>3. at[u] < at[s]
    BY <1>2, <1>5, <2>1, <2>2
  <2> QED
    BY <1>2, <2>1, <2>3
<1> HIDE DEF f
<1>6. \A s \in 1..n : f[s] = s
  BY <1>1, <1>4, <1>5, IncreasingMovesNothing
<1>7. ASSUME NEW k \in DOMAIN pairs, pairs[k].src # 0
      PROVE  pairs[k].tgt = pairs[k].src
  <2>1. pairs[k].src \in 1..n /\ at[pairs[k].src] \in DOMAIN pairs
        /\ pairs[at[pairs[k].src]].src = pairs[k].src
    BY <1>2, <1>3, <1>7
  <2>2. at[pairs[k].src] = k
    BY <1>2, <1>7, <2>1
  <2> QED
    BY <1>4, <1>6, <2>1, <2>2
<1> QED
  BY <1>7

(* The corridor of a search without a band is the whole row. *)
LEMMA NoBandSeesAll ==
    ASSUME Inputs, band = NoBand, n = m, NEW k \in 1..n
    PROVE  BandedRange(k).lo = 0 /\ BandedRange(k).hi = m
<1>1. n \in Nat /\ m \in Nat
  BY InputsSized
<1>2. effective = n
  BY <1>1, MaxOfTwo DEF effective, Longest
<1>3. BandedRange(k) = [lo |-> Max({0, k - n}), hi |-> Min({m, k + n + 1})]
  BY <1>2 DEF BandedRange
<1>4. Max({0, k - n}) = 0 /\ Min({m, k + n + 1}) = m
  BY <1>1, MaxOfTwo, MinOfTwo
<1> QED
  BY <1>3, <1>4

(* A rearrangement of the tokens is suspected of moving them exactly when  *)
(* it does, for every line and every rearrangement, when only a token      *)
(* itself is near-identical to it (alignment.py: token_move_suspected).    *)
THEOREM MovesAreNoticed ==
    ASSUME \A a, b \in Tokens : Similarity[<<a, b>>] = 2 => a = b
    PROVE  AlignSpec => []ReorderIsFlagged
<1>1. AlignInv /\ PairsAlike => ReorderIsFlagged
  <2> SUFFICES ASSUME AlignInv, PairsAlike, stage = "aligned", band = NoBand,
                      \A a, b \in Range(source) : Similarity[<<a, b>>] # 1,
                      NEW p \in [1..n -> 1..n], Range(p) = 1..n,
                      target = [k \in 1..n |-> source[p[k]]]
               PROVE  MoveSuspected <=> source # target
    BY DEF ReorderIsFlagged
  <2>1. /\ Inputs /\ ReadSoFar /\ i = 0 /\ j = 0 /\ AtEnd
        /\ n \in Nat /\ m \in Nat
    BY InputsSized DEF AlignInv, AtHand, AtEnd
  <2>2. source \in Seq(Tokens) /\ target \in Seq(Tokens)
        /\ DOMAIN source = 1..n /\ DOMAIN target = 1..n /\ DOMAIN target = 1..m
    BY <2>1 DEF Inputs, n, m
  <2>3. n = m
    <3>1. 1..m = 1..n
      BY <2>2
    <3>2. m =< n
      <4>1. SUFFICES ASSUME m > n PROVE FALSE
        BY <2>1
      <4>2. m \in 1..m /\ m \notin 1..n
        BY <2>1, <4>1
      <4> QED
        BY <3>1, <4>2
    <3>3. n =< m
      <4>1. SUFFICES ASSUME n > m PROVE FALSE
        BY <2>1
      <4>2. n \in 1..n /\ n \notin 1..m
        BY <2>1, <4>1
      <4> QED
        BY <3>1, <4>2
    <3> QED
      BY <2>1, <3>2, <3>3
  <2>4. \A s \in 1..n : source[s] \in Tokens /\ target[s] \in Tokens
                        /\ source[s] \in Range(source) /\ target[s] \in Range(source)
    <3>1. \A s \in 1..n : p[s] \in 1..n /\ target[s] = source[p[s]]
      OBVIOUS
    <3>2. \A s \in 1..n : source[s] \in Tokens /\ source[s] \in Range(source)
      <4>1. ASSUME NEW s \in 1..n
            PROVE  source[s] \in Tokens
        <5>1. source \in Seq(Tokens) /\ s \in 1..Len(source)
          BY <2>2 DEF n
        <5> QED
          BY ONLY <5>1
      <4> QED
        BY <2>2, <4>1 DEF Range
    <3> QED
      BY <3>1, <3>2
  <2>5. ASSUME source = target
        PROVE  ~MoveSuspected
    BY <2>5, EchoMovesNothing
  <2>6. ASSUME ~MoveSuspected
        PROVE  source = target
    <3>1. ASSUME NEW k \in DOMAIN pairs, pairs[k].src # 0
          PROVE  pairs[k].tgt # 0
      <4>1. SUFFICES ASSUME pairs[k].tgt = 0 PROVE FALSE
        OBVIOUS
      <4> DEFINE s == pairs[k].src
      <4>2. s \in 1..n
        BY <2>1, <3>1 DEF ReadSoFar
      <4>3. PICK t \in 1..n : p[t] = s
        BY <4>2 DEF Range
      <4>4. target[t] = source[s]
        BY <4>3
      <4>5. sim(s, t) = 2
        BY <2>4, <4>2, <4>4, AlignmentAssumption DEF sim
      <4>6. t \in (BandedRange(s).lo + 1)..BandedRange(s).hi
        BY <2>1, <2>3, <4>2, NoBandSeesAll
      <4>7. pairs[k] \in Range(pairs)
        BY DEF Range
      <4> QED
        BY <2>6, <3>1, <4>1, <4>3, <4>5, <4>6, <4>7 DEF MoveSuspected
    <3>2. \A k \in DOMAIN pairs : pairs[k].src # 0 => pairs[k].tgt = pairs[k].src
      BY <2>1, <2>3, <3>1, FullMatchingMovesNothing
    <3>3. ASSUME NEW s \in 1..n
          PROVE  source[s] = target[s]
      <4>1. PICK k \in DOMAIN pairs : pairs[k].src = s
        BY <2>1 DEF ReadSoFar
      <4>2. pairs[k].tgt = s /\ s # 0
        BY <3>2, <4>1
      <4>3. sim(s, s) > 0
        BY <4>1, <4>2 DEF PairsAlike
      <4>4. Similarity[<<source[s], target[s]>>] # 1
        BY <2>4
      <4>5. Similarity[<<source[s], target[s]>>] \in 0..2
        BY <2>4, AlignmentAssumption
      <4>6. Similarity[<<source[s], target[s]>>] = 2
        BY <4>3, <4>4, <4>5 DEF sim
      <4> QED
        BY <2>4, <4>6
    <3> QED
      BY <2>2, <3>3
  <2> QED
    BY <2>5, <2>6
<1>2. AlignInit => PairsAlike
  BY DEF AlignInit, Aligning, PairsAlike
<1>3. AlignInv /\ PairsAlike /\ [AlignNext]_alignVars => PairsAlike'
  BY PairsAlikeNext
<1> QED
  BY <1>1, <1>2, <1>3, AlignInvInit, AlignInvStep, PTL DEF AlignSpec

-----------------------------------------------------------------------------
(* What a reading costs.  The price of the pairs inside a corner of the    *)
(* table, k source and c target tokens wide.                               *)
Corner(k, c) == (1..k) \X (1..c)
PriceTo(k, c, M) ==
    k + c - 2 * Cardinality(M) + Cardinality(PairsOf(M, 1)) + 2 * Cardinality(PairsOf(M, 0))

LEMMA CornerIsFinite ==
    ASSUME NEW k \in Nat, NEW c \in Nat, NEW M \in SUBSET Corner(k, c)
    PROVE  /\ IsFiniteSet(M) /\ Cardinality(M) \in Nat
           /\ \A h : IsFiniteSet(PairsOf(M, h)) /\ Cardinality(PairsOf(M, h)) \in Nat
<1>1. IsFiniteSet(1..k) /\ IsFiniteSet(1..c)
  BY FS_Interval
<1>2. IsFiniteSet(Corner(k, c))
  BY <1>1, FS_Product DEF Corner
<1>3. IsFiniteSet(M)
  BY <1>2, FS_Subset
<1>4. \A h : PairsOf(M, h) \subseteq M
  BY DEF PairsOf
<1> QED
  BY <1>3, <1>4, FS_Subset, FS_CardinalityType

(* One pair more costs 2 less its similarity, and spares two gaps. *)
LEMMA PriceOfOneMore ==
    ASSUME Inputs, NEW k \in 1..n, NEW c \in 1..m, NEW a \in Nat, NEW b \in Nat,
           NEW M, IsFiniteSet(M), <<k, c>> \notin M
    PROVE  PriceTo(a + 1, b + 1, M \cup {<<k, c>>}) = PriceTo(a, b, M) + 2 - sim(k, c)
<1> DEFINE p == <<k, c>>
           L == M \cup {p}
<1>1. /\ IsFiniteSet(M) /\ Cardinality(M) \in Nat
      /\ \A h : IsFiniteSet(PairsOf(M, h)) /\ Cardinality(PairsOf(M, h)) \in Nat
  <2>1. \A h : PairsOf(M, h) \subseteq M
    BY DEF PairsOf
  <2> QED
    BY <2>1, FS_Subset, FS_CardinalityType
<1>2. Cardinality(L) = Cardinality(M) + 1
  BY <1>1, FS_AddElement
<1>3. p[1] = k /\ p[2] = c
  OBVIOUS
<1>4. ASSUME NEW h
      PROVE  /\ sim(k, c) = h => Cardinality(PairsOf(L, h)) = Cardinality(PairsOf(M, h)) + 1
             /\ sim(k, c) # h => Cardinality(PairsOf(L, h)) = Cardinality(PairsOf(M, h))
  <2>1. p \notin PairsOf(M, h)
    BY DEF PairsOf
  <2>2. CASE sim(k, c) = h
    <3>1. PairsOf(L, h) = PairsOf(M, h) \cup {p}
      BY <1>3, <2>2 DEF PairsOf
    <3> QED
      BY <1>1, <2>1, <2>2, <3>1, FS_AddElement
  <2>3. CASE sim(k, c) # h
    <3>1. PairsOf(L, h) = PairsOf(M, h)
      BY <1>3, <2>3 DEF PairsOf
    <3> QED
      BY <2>3, <3>1
  <2> QED
    BY <2>2, <2>3
<1>5. sim(k, c) \in 0..2
  BY SimRange
<1>6. /\ sim(k, c) = 0 => Cardinality(PairsOf(L, 0)) = Cardinality(PairsOf(M, 0)) + 1
                          /\ Cardinality(PairsOf(L, 1)) = Cardinality(PairsOf(M, 1))
      /\ sim(k, c) = 1 => Cardinality(PairsOf(L, 0)) = Cardinality(PairsOf(M, 0))
                          /\ Cardinality(PairsOf(L, 1)) = Cardinality(PairsOf(M, 1)) + 1
      /\ sim(k, c) = 2 => Cardinality(PairsOf(L, 0)) = Cardinality(PairsOf(M, 0))
                          /\ Cardinality(PairsOf(L, 1)) = Cardinality(PairsOf(M, 1))
  BY <1>4
<1>7. /\ Cardinality(PairsOf(M, 0)) \in Nat /\ Cardinality(PairsOf(M, 1)) \in Nat
  BY <1>1
<1> HIDE DEF L, p
<1>8. PriceTo(a + 1, b + 1, L) = PriceTo(a, b, M) + 2 - sim(k, c)
  BY <1>1, <1>2, <1>5, <1>6, <1>7 DEF PriceTo
<1> QED
  BY <1>8 DEF L, p

(* Without a corridor, or in one as wide as the table, rows are whole. *)
LEMMA WideSeesAll ==
    ASSUME Inputs, band = NoBand \/ band >= Longest, NEW k \in 0..n
    PROVE  Columns(k) = 0..m
<1>1. n \in Nat /\ m \in Nat /\ effective \in Nat /\ effective >= m
  <2>1. n \in Nat /\ m \in Nat /\ effective \in Nat
    BY InputsSized, EffectiveWide
  <2>2. Longest >= m /\ Longest \in Nat
    BY <2>1, MaxOfTwo DEF Longest
  <2>3. CASE band = NoBand
    BY <2>1, <2>2, <2>3 DEF effective
  <2>4. CASE band # NoBand
    <3>1. band \in Nat /\ band >= Longest
      BY <2>4 DEF Inputs
    <3> DEFINE a == n - m
               b == m - n
               top == Max({band, a, b})
    <3>2. a \in Int /\ b \in Int /\ band \in Int
      BY <2>1, <3>1
    <3>3. top >= band /\ top \in {band, a, b}
      <4> HIDE DEF a, b
      <4> QED
        BY <3>2, MaxOfThree
    <3>4. effective = top
      BY <2>4 DEF effective
    <3> HIDE DEF top
    <3> QED
      BY <2>1, <2>2, <3>1, <3>2, <3>3, <3>4
  <2> QED
    BY <2>3, <2>4
<1>2. Columns(k) = Lowest(k)..Highest(k) /\ Centre(k) \in 0..m
  BY ColumnsAre, CentreCorners
<1>3. Lowest(k) = 0 /\ Highest(k) = m
  BY <1>1, <1>2 DEF Lowest, Highest
<1> QED
  BY <1>2, <1>3

(* The table holds the price of the cheapest reading of every corner: the  *)
(* last pair of the corner is in the reading, or one of its two tokens is  *)
(* left over.                                                              *)
LEMMA TableIsCheapest ==
    ASSUME Table, band = NoBand \/ band >= Longest,
           NEW k \in 0..n, NEW c \in 0..m, NEW M \in SUBSET Corner(k, c), Monotone(M)
    PROVE  Get(k, c) =< PriceTo(k, c, M)
<1> DEFINE Cheaper(r, d) == \E L \in SUBSET Corner(r, d) : Monotone(L) /\ ~(Get(r, d) =< PriceTo(r, d, L))
           Over == {s \in 0..(n + m) : \E r \in 0..n, d \in 0..m : r + d = s /\ Cheaper(r, d)}
<1>1. n \in Nat /\ m \in Nat /\ n + m < Unreached /\ Inputs
  BY InputsSized DEF Table
<1>2. \A r \in 0..n : Columns(r) = 0..m
  BY <1>1, WideSeesAll
<1>3. Over = {}
  <2>1. SUFFICES ASSUME Over # {} PROVE FALSE
    OBVIOUS
  <2>2. PICK s \in Over : \A t \in Over : s =< t
    <3>1. Over \in SUBSET Nat
      BY <1>1
    <3> HIDE DEF Over
    <3> QED
      BY ONLY <2>1, <3>1, LeastOf
  <2>3. PICK r \in 0..n, d \in 0..m : r + d = s /\ Cheaper(r, d)
    BY <2>2
  <2>4. PICK L \in SUBSET Corner(r, d) : Monotone(L) /\ ~(Get(r, d) =< PriceTo(r, d, L))
    BY <2>3
  <2>5. \A x \in 0..n, y \in 0..m : x + y < r + d => ~Cheaper(x, y)
    <3>1. SUFFICES ASSUME NEW x \in 0..n, NEW y \in 0..m, x + y < r + d, Cheaper(x, y) PROVE FALSE
      OBVIOUS
    <3>2. x + y \in 0..(n + m)
      BY <1>1
    <3>3. x + y \in Over
      BY <3>1, <3>2
    <3>4. s =< x + y
      <4> HIDE DEF Over
      <4> QED
        BY <2>2, <3>3
    <3> QED
      BY <1>1, <2>3, <3>1, <3>4
  <2> HIDE DEF Over
  <2>6. r \in Nat /\ d \in Nat /\ d \in Columns(r) /\ Get(r, d) \in Nat
    BY <1>1, <1>2, GetInTable
  <2>7. r # 0 /\ d # 0
    <3>1. SUFFICES ASSUME r = 0 \/ d = 0 PROVE FALSE
      OBVIOUS
    <3>2. L = {} /\ PairsOf(L, 0) = {} /\ PairsOf(L, 1) = {}
      BY <3>1 DEF Corner, PairsOf
    <3>3. PriceTo(r, d, L) = r + d
      <4>1. Cardinality({}) = 0
        BY FS_EmptySet
      <4>2. Cardinality(L) = 0 /\ Cardinality(PairsOf(L, 0)) = 0 /\ Cardinality(PairsOf(L, 1)) = 0
        BY <3>2, <4>1
      <4> QED
        BY <2>6, <4>2 DEF PriceTo
    <3>4. Get(r, d) = r + d
      BY <2>6, <3>1, GetInTable
    <3> QED
      BY <2>4, <2>6, <3>3, <3>4
  <2>8. r \in 1..n /\ d \in 1..m /\ r - 1 \in 0..n /\ d - 1 \in 0..m
    BY <1>1, <2>7
  <2>9. /\ Get(r, d) =< Plus(Get(r - 1, d), 1)
        /\ Get(r, d) =< Plus(Get(r, d - 1), 1)
        /\ Get(r, d) =< Plus(Get(r - 1, d - 1), 2 - sim(r, d))
    BY <2>6, <2>7, <2>8, CellInTable
  <2>10. \A x \in 0..n, y \in 0..m : Get(x, y) \in Nat /\ Get(x, y) # Unreached
    <3>1. SUFFICES ASSUME NEW x \in 0..n, NEW y \in 0..m PROVE Get(x, y) \in Nat /\ Get(x, y) # Unreached
      OBVIOUS
    <3>2. y \in Columns(x)
      BY <1>2
    <3> QED
      BY <3>2, CellsReached DEF Unreached
  <2>11. /\ Get(r, d) =< Get(r - 1, d) + 1
         /\ Get(r, d) =< Get(r, d - 1) + 1
         /\ Get(r, d) =< Get(r - 1, d - 1) + (2 - sim(r, d))
    BY <2>8, <2>9, <2>10 DEF Plus
  <2>12. \A K \in SUBSET L : Monotone(K)
    BY <2>4 DEF Monotone
  <2>13. /\ Cardinality(L) \in Nat
         /\ Cardinality(PairsOf(L, 0)) \in Nat /\ Cardinality(PairsOf(L, 1)) \in Nat
    BY <2>6, CornerIsFinite
  <2>14. sim(r, d) \in 0..2
    BY <1>1, <2>8, SimRange
  <2>15. \A q \in L : q = <<q[1], q[2]>> /\ q[1] \in 1..r /\ q[2] \in 1..d
    BY DEF Corner
  <2>16. CASE <<r, d>> \in L
    <3> DEFINE K == L \ {<<r, d>>}
    <3>1. K \subseteq Corner(r - 1, d - 1)
      <4>1. SUFFICES ASSUME NEW q \in K PROVE q \in Corner(r - 1, d - 1)
        OBVIOUS
      <4>2. q \in L /\ q # <<r, d>> /\ q = <<q[1], q[2]>> /\ q[1] \in 1..r /\ q[2] \in 1..d
        BY <2>15
      <4>3. ~Crossing(<<r, d>>, q) /\ ~Crossing(q, <<r, d>>)
        BY <2>4, <2>16, <4>2 DEF Monotone
      <4>4. q[1] # r /\ q[2] # d
        BY <2>6, <4>2, <4>3 DEF Crossing
      <4>5. q[1] \in 1..(r - 1) /\ q[2] \in 1..(d - 1)
        BY <2>6, <4>2, <4>4
      <4> QED
        BY <4>2, <4>5 DEF Corner
    <3>2. Monotone(K) /\ L = K \cup {<<r, d>>} /\ <<r, d>> \notin K
      BY <2>12, <2>16
    <3> HIDE DEF K
    <3>3. ~Cheaper(r - 1, d - 1)
      BY <2>5, <2>6, <2>8
    <3>4. Get(r - 1, d - 1) =< PriceTo(r - 1, d - 1, K)
      BY <3>1, <3>2, <3>3
    <3>5. r - 1 \in Nat /\ d - 1 \in Nat /\ (r - 1) + 1 = r /\ (d - 1) + 1 = d
      BY <2>6, <2>8
    <3>6. PriceTo((r - 1) + 1, (d - 1) + 1, K \cup {<<r, d>>}) = PriceTo(r - 1, d - 1, K) + 2 - sim(r, d)
      <4>1. IsFiniteSet(K)
        BY <3>1, <3>5, CornerIsFinite
      <4> QED
        BY <1>1, <2>8, <3>2, <3>5, <4>1, PriceOfOneMore
    <3>7. PriceTo(r - 1, d - 1, K) \in Int
      BY <3>1, <3>5, CornerIsFinite DEF PriceTo
    <3>8. PriceTo(r, d, L) = PriceTo(r - 1, d - 1, K) + 2 - sim(r, d)
      BY <3>2, <3>5, <3>6
    <3> QED
      BY <2>4, <2>6, <2>8, <2>10, <2>11, <2>14, <3>4, <3>7, <3>8
  <2>17. CASE \A q \in L : q[1] # r
    <3>1. L \in SUBSET Corner(r - 1, d)
      <4>1. \A q \in L : q[1] \in 1..(r - 1)
        BY <2>6, <2>15, <2>17
      <4> QED
        BY <2>15, <4>1 DEF Corner
    <3>2. ~Cheaper(r - 1, d)
      BY <2>5, <2>6, <2>8
    <3>3. Get(r - 1, d) =< PriceTo(r - 1, d, L)
      BY <2>4, <3>1, <3>2
    <3>4. PriceTo(r, d, L) = PriceTo(r - 1, d, L) + 1 /\ PriceTo(r - 1, d, L) \in Int
      BY <2>6, <2>13 DEF PriceTo
    <3> QED
      BY <2>4, <2>6, <2>8, <2>10, <2>11, <3>3, <3>4
  <2>18. CASE <<r, d>> \notin L /\ \E q \in L : q[1] = r
    <3>1. PICK q \in L : q[1] = r
      BY <2>18
    <3>2. q = <<r, q[2]>> /\ q[2] \in 1..d /\ q[2] # d
      BY <2>15, <2>18, <3>1
    <3>3. ASSUME NEW p \in L
          PROVE  p[2] \in 1..(d - 1)
      <4>1. p = <<p[1], p[2]>> /\ p[1] \in 1..r /\ p[2] \in 1..d
        BY <2>15
      <4>2. ~Crossing(p, q)
        BY <2>4, <3>1 DEF Monotone
      <4>3. p[2] # d
        BY <2>6, <2>18, <3>1, <3>2, <4>1, <4>2 DEF Crossing
      <4> QED
        BY <2>6, <4>1, <4>3
    <3>4. L \in SUBSET Corner(r, d - 1)
      BY <2>15, <3>3 DEF Corner
    <3>5. ~Cheaper(r, d - 1)
      BY <2>5, <2>6, <2>8
    <3>6. Get(r, d - 1) =< PriceTo(r, d - 1, L)
      BY <2>4, <3>4, <3>5
    <3>7. PriceTo(r, d, L) = PriceTo(r, d - 1, L) + 1 /\ PriceTo(r, d - 1, L) \in Int
      BY <2>6, <2>13 DEF PriceTo
    <3> QED
      BY <2>4, <2>6, <2>8, <2>10, <2>11, <3>6, <3>7
  <2> QED
    BY <2>16, <2>17, <2>18
<1>4. k + c \in 0..(n + m)
  BY <1>1
<1> QED
  BY <1>3, <1>4

(* An insertion is taken without a check, and is paid for all the same.    *)
LEMMA InsertionIsPaid ==
    ASSUME Table, i \in 0..n, j \in Columns(i), i > 0 \/ j > 0, ~MatchFits, ~DeletionFits
    PROVE  Here = Get(i, j - 1) + 1
<1>1. n \in Nat /\ m \in Nat /\ Inputs /\ j \in 0..m /\ j > 0 /\ j - 1 \in Columns(i)
  BY InputsSized, ColumnsAre, ReadingStays DEF Table
<1>2. CASE i = 0
  BY <1>1, <1>2, GetInTable DEF Here
<1>3. CASE i > 0
  <2> DEFINE up == Get(i - 1, j)
             diagonal == Get(i - 1, j - 1)
             left == Get(i, j - 1)
  <2>1. i \in 1..n /\ i - 1 \in 0..n
    BY <1>1, <1>3
  <2>2. /\ Here \in {Plus(up, 1), Plus(left, 1), Plus(diagonal, 2 - sim(i, j))}
        /\ Here =< Plus(left, 1)
    BY <1>1, <2>1, CellInTable DEF Here
  <2>3. /\ Here \in Nat /\ Here < Unreached /\ left \in Nat /\ left < Unreached
        /\ up \in Nat /\ diagonal \in Nat
    BY <1>1, <2>1, CellsReached, GetInTable DEF Here
  <2>4. sim(i, j) \in 0..2
    BY <1>1, <2>1, SimRange
  <2>5. diagonal # Unreached => left =< diagonal + 1
    <3>1. CASE j - 1 = 0
      <4>1. diagonal # Unreached => diagonal = i - 1
        BY <2>1, <3>1, GetInTable
      <4>2. left = i
        BY <1>1, <2>1, <3>1, GetInTable
      <4> QED
        BY <2>1, <4>1, <4>2
    <3>2. CASE j - 1 # 0
      <4>1. left =< Plus(Get(i - 1, j - 1), 1)
        BY <1>1, <2>1, <3>2, CellInTable
      <4> QED
        BY <4>1 DEF Plus
    <3> QED
      BY <3>1, <3>2
  <2>6. up # Unreached => Here # up + 1
    BY <1>3 DEF DeletionFits
  <2>7. diagonal # Unreached /\ Here = diagonal + 2 - sim(i, j) => sim(i, j) = 0
    BY <1>1, <1>3, <2>4 DEF MatchFits
  <2> HIDE DEF up, diagonal, left
  <2>8. Here = left + 1
    BY <2>2, <2>3, <2>4, <2>5, <2>6, <2>7 DEF Plus, Unreached
  <2> QED
    BY <2>8 DEF left
<1> QED
  BY <1>1, <1>2, <1>3

(* The last cell is the cell at hand plus the price of what was read.      *)
ReadingCost ==
    stage # "fill" => Get(n, m) = Get(i, j) + PriceTo(n - i, m - j, Matched)

LEMMA MatchedIn ==
    ASSUME AlignInv
    PROVE  Matched \in SUBSET Corner(n, m) /\ \A p \in Matched : p[1] # i
<1>1. n \in Nat /\ m \in Nat /\ i \in 0..n /\ j \in 0..m /\ ReadSoFar /\ DOMAIN pairs = 1..Len(pairs)
  <2>1. Inputs /\ n \in Nat /\ m \in Nat /\ ReadSoFar
    BY InputsSized DEF AlignInv
  <2>2. i \in 0..n /\ j \in 0..m
    BY <2>1, ColumnsAre DEF AlignInv, Filling, AtHand
  <2> QED
    BY <2>1, <2>2 DEF ReadSoFar
<1>2. ASSUME NEW k \in DOMAIN pairs, pairs[k].src > 0, pairs[k].tgt > 0
      PROVE  pairs[k].src \in (i + 1)..n /\ pairs[k].tgt \in (j + 1)..m
  <2>1. pairs[k] \in ReadPair
    <3>1. pairs \in Seq(ReadPair) /\ k \in 1..Len(pairs)
      BY <1>1 DEF ReadSoFar
    <3> QED
      BY ONLY <3>1
  <2>2. pairs[k].src # 0 /\ pairs[k].tgt # 0
    BY <1>2, <2>1 DEF ReadPair
  <2> QED
    BY <1>1, <2>2 DEF ReadSoFar
<1>3. ASSUME NEW p \in Matched
      PROVE  p \in Corner(n, m) /\ p[1] # i
  <2>1. PICK k \in DOMAIN pairs : /\ pairs[k].src > 0 /\ pairs[k].tgt > 0
                                 /\ p = <<pairs[k].src, pairs[k].tgt>>
    BY <1>3 DEF Matched, Range
  <2>2. pairs[k].src \in (i + 1)..n /\ pairs[k].tgt \in (j + 1)..m
    BY <1>2, <2>1
  <2>3. pairs[k].src \in 1..n /\ pairs[k].tgt \in 1..m /\ pairs[k].src # i
    BY <1>1, <2>2
  <2> QED
    BY <2>1, <2>3 DEF Corner
<1> QED
  BY <1>3

LEMMA SamePrice ==
    ASSUME UNCHANGED inputs
    PROVE  \A k, c, M : PriceTo(k, c, M)' = PriceTo(k, c, M)
<1>1. \A M, h : PairsOf(M, h)' = PairsOf(M, h)
  BY SameInputs DEF PairsOf
<1> QED
  BY <1>1 DEF PriceTo

LEMMA LastCellIsNumber == AlignInv /\ stage # "fill" => Get(n, m) \in Nat
<1>1. AlignInv /\ stage # "fill" => Table /\ n \in Nat
  BY InputsSized DEF AlignInv, AtHand
<1> QED
  BY <1>1, GetInTable

(* A pair read adds its own price, a gap adds 1.                           *)
LEMMA ReadingCostNext ==
    ASSUME AlignInv, ReadingCost, [AlignNext]_alignVars
    PROVE  ReadingCost'
<1>1. /\ n \in Nat /\ m \in Nat /\ i \in 0..n /\ j \in 0..m
      /\ pairs \in Seq(ReadPair) /\ Inputs
  <2>1. Inputs /\ n \in Nat /\ m \in Nat /\ pairs \in Seq(ReadPair)
    BY InputsSized DEF AlignInv, ReadSoFar
  <2> QED
    BY <2>1, ColumnsAre DEF AlignInv, Filling, AtHand
<1>2. UNCHANGED inputs
  BY DEF AlignNext, FillRow, Match, Delete, Insert, EndReading, RefuseAnswer, EditMatched,
         ReadFrame, alignVars
<1>3. n' = n /\ m' = m /\ \A k, c, M : PriceTo(k, c, M)' = PriceTo(k, c, M)
  BY <1>2, SameInputs, SamePrice
<1>4. CASE FillRow
  <2>1. stage = "fill" /\ UNCHANGED <<i, j, pairs>> /\ pairs = <<>> /\ i = n /\ j = m
    BY <1>4 DEF FillRow, AlignInv, Filling
  <2>2. AlignInv' /\ (stage' # "fill" => Get(n, m)' \in Nat)
    <3>1. AlignInv'
      BY AlignInvStep
    <3>2. (AlignInv /\ stage # "fill" => Get(n, m) \in Nat)'
      BY LastCellIsNumber, PTL
    <3> QED
      BY <3>1, <3>2
  <2>3. Matched' = {}
    BY <2>1 DEF Matched, Range
  <2>4. PriceTo(0, 0, {}) = 0
    <3>1. PairsOf({}, 0) = {} /\ PairsOf({}, 1) = {} /\ Cardinality({}) = 0
      BY FS_EmptySet DEF PairsOf
    <3> QED
      BY <3>1 DEF PriceTo
  <2>5. i' = n' /\ j' = m' /\ n' - i' = 0 /\ m' - j' = 0
    BY <1>1, <1>3, <2>1
  <2>6. PriceTo(n - i, m - j, Matched)' = 0
    BY <1>3, <2>3, <2>4, <2>5
  <2>7. Get(n, m)' = Get(i, j)'
    BY <2>5 DEF Get
  <2> QED
    BY <2>2, <2>6, <2>7 DEF ReadingCost
<1>5. ASSUME ReadStep, ReadFrame
      PROVE  /\ Table /\ j \in Columns(i) /\ (i > 0 \/ j > 0)
             /\ \A k, c : Get(k, c)' = Get(k, c)
             /\ Get(n, m) = Get(i, j) + PriceTo(n - i, m - j, Matched)
             /\ Get(i, j) \in Nat /\ Get(n, m) \in Nat
             /\ PriceTo(n - i, m - j, Matched) \in Int
  <2>1. Table /\ j \in Columns(i) /\ i \in 0..n /\ stage # "fill" /\ (i > 0 \/ j > 0)
    BY <1>5 DEF AlignInv, AtHand, ReadStep
  <2>2. \A k, c : Get(k, c)' = Get(k, c)
    BY <1>2, <1>5, <2>1, TableKeeps DEF ReadFrame
  <2>3. Get(i, j) \in Nat /\ Get(n, m) \in Nat
    BY <1>1, <2>1, GetInTable
  <2>4. PriceTo(n - i, m - j, Matched) \in Int
    <3>1. PICK M \in SUBSET Corner(n, m) : M = Matched
      BY MatchedIn
    <3>2. /\ Cardinality(M) \in Nat
          /\ Cardinality(PairsOf(M, 0)) \in Nat /\ Cardinality(PairsOf(M, 1)) \in Nat
      BY <1>1, CornerIsFinite
    <3>3. PriceTo(n - i, m - j, M) \in Int
      BY <1>1, <3>2 DEF PriceTo
    <3> QED
      BY <3>1, <3>3
  <2> QED
    BY <2>1, <2>2, <2>3, <2>4 DEF ReadingCost
<1>6. ASSUME NEW s \in {0, i}, NEW t \in {0, j}, pairs' = Append(pairs, [src |-> s, tgt |-> t])
      PROVE  Matched' = IF s > 0 /\ t > 0 THEN Matched \cup {<<s, t>>} ELSE Matched
  <2> DEFINE new == [src |-> s, tgt |-> t]
  <2>1. new \in ReadPair /\ new.src = s /\ new.tgt = t
    BY <1>1 DEF ReadPair
  <2>2. Range(pairs') = Range(pairs) \cup {new}
    <3> HIDE DEF new
    <3>1. pairs' = Append(pairs, new) /\ Len(pairs) \in Nat
      BY <1>1, <1>6 DEF new
    <3>2. /\ DOMAIN pairs' = 1..(Len(pairs) + 1) /\ DOMAIN pairs = 1..Len(pairs)
          /\ \A k \in DOMAIN pairs : pairs'[k] = pairs[k]
          /\ pairs'[Len(pairs) + 1] = new
      BY <1>1, <2>1, <3>1
    <3> QED
      BY <3>1, <3>2 DEF Range
  <2>3. Matched' = {<<p.src, p.tgt>> : p \in {q \in Range(pairs'): q.src > 0 /\ q.tgt > 0}}
    BY DEF Matched, Range
  <2> HIDE DEF new
  <2>4. CASE s > 0 /\ t > 0
    <3>1. {q \in Range(pairs') : q.src > 0 /\ q.tgt > 0}
            = {q \in Range(pairs) : q.src > 0 /\ q.tgt > 0} \cup {new}
      BY <2>1, <2>2, <2>4
    <3>2. Matched' = Matched \cup {<<s, t>>}
      BY <2>1, <2>3, <3>1 DEF Matched
    <3> QED
      BY <2>4, <3>2
  <2>5. CASE ~(s > 0 /\ t > 0)
    <3>1. {q \in Range(pairs') : q.src > 0 /\ q.tgt > 0} = {q \in Range(pairs) : q.src > 0 /\ q.tgt > 0}
      BY <2>1, <2>2, <2>5
    <3> QED
      BY <2>3, <2>5, <3>1 DEF Matched
  <2> QED
    BY <2>4, <2>5
<1>7. CASE Match
  <2>1. ReadStep /\ ReadFrame /\ MatchFits /\ i' = i - 1 /\ j' = j - 1
        /\ pairs' = Append(pairs, [src |-> i, tgt |-> j])
    BY <1>7 DEF Match
  <2>2. i > 0 /\ j > 0 /\ Get(i, j) = Get(i - 1, j - 1) + 2 - sim(i, j)
    BY <2>1 DEF MatchFits, Here
  <2>3. i \in 1..n /\ j \in 1..m /\ sim(i, j) \in 0..2
    BY <1>1, <2>2, SimRange
  <2>4. Matched' = Matched \cup {<<i, j>>}
    BY <1>6, <2>1, <2>2
  <2>5. PICK M \in SUBSET Corner(n, m) : M = Matched /\ <<i, j>> \notin M
    BY MatchedIn
  <2>6. n - i \in Nat /\ m - j \in Nat /\ n - (i - 1) = (n - i) + 1 /\ m - (j - 1) = (m - j) + 1
    BY <1>1
  <2>7. PriceTo((n - i) + 1, (m - j) + 1, M \cup {<<i, j>>}) = PriceTo(n - i, m - j, M) + 2 - sim(i, j)
    <3>1. IsFiniteSet(M)
      BY <1>1, CornerIsFinite
    <3> QED
      BY <1>1, <2>3, <2>5, <2>6, <3>1, PriceOfOneMore
  <2>8. PriceTo(n - i, m - j, Matched)' = PriceTo(n - i, m - j, Matched) + 2 - sim(i, j)
    <3>1. n' - i' = (n - i) + 1 /\ m' - j' = (m - j) + 1
      BY <1>3, <2>1, <2>6
    <3>2. PriceTo(n - i, m - j, Matched)' = PriceTo(n' - i', m' - j', Matched')
      BY <1>3
    <3> QED
      BY <2>4, <2>5, <2>7, <3>1, <3>2
  <2>9. Get(n, m)' = Get(n, m) /\ Get(i, j)' = Get(i - 1, j - 1) /\ Get(i - 1, j - 1) \in Nat
    <3>1. Get(i - 1, j - 1) \in Nat
      BY <1>1, <1>5, <2>1, <2>3, GetInTable
    <3> QED
      BY <1>3, <1>5, <2>1, <3>1
  <2> QED
    BY <1>5, <2>1, <2>2, <2>3, <2>8, <2>9 DEF ReadingCost
<1>8. ASSUME NEW s \in {0, i}, NEW t \in {0, j}, s = 0 \/ t = 0, ReadStep, ReadFrame,
             pairs' = Append(pairs, [src |-> s, tgt |-> t]),
             (i' = i - 1 /\ j' = j) \/ (i' = i /\ j' = j - 1),
             Get(i, j) = Get(i', j') + 1, Get(i', j') \in Nat
      PROVE  ReadingCost'
  <2>1. Matched' = Matched
    BY <1>1, <1>6, <1>8
  <2>2. PICK M \in SUBSET Corner(n, m) : M = Matched
    BY MatchedIn
  <2>3. /\ Cardinality(M) \in Nat
        /\ Cardinality(PairsOf(M, 0)) \in Nat /\ Cardinality(PairsOf(M, 1)) \in Nat
    BY <1>1, CornerIsFinite
  <2>4. PriceTo(n - i', m - j', M) = PriceTo(n - i, m - j, M) + 1
    <3>1. (n - i') + (m - j') = (n - i) + (m - j) + 1 /\ (n - i) + (m - j) \in Int
      BY <1>1, <1>8
    <3> DEFINE rest == - 2 * Cardinality(M) + Cardinality(PairsOf(M, 1)) + 2 * Cardinality(PairsOf(M, 0))
    <3>2. \A x, y \in Int : PriceTo(x, y, M) = (x + y) + rest
      BY <2>3 DEF PriceTo
    <3>3. n - i \in Int /\ m - j \in Int /\ n - i' \in Int /\ m - j' \in Int /\ rest \in Int
      <4>1. rest \in Int
        BY <2>3
      <4>2. i \in Int /\ j \in Int /\ i' \in Int /\ j' \in Int
        BY <1>1, <1>8
      <4> HIDE DEF rest
      <4> QED
        BY <1>1, <4>1, <4>2
    <3> HIDE DEF rest
    <3>4. /\ PriceTo(n - i', m - j', M) = ((n - i') + (m - j')) + rest
          /\ PriceTo(n - i, m - j, M) = ((n - i) + (m - j)) + rest
      BY <3>2, <3>3
    <3> QED
      BY <3>1, <3>3, <3>4
  <2>5. PriceTo(n - i, m - j, Matched)' = PriceTo(n - i, m - j, Matched) + 1
    <3>1. PriceTo(n - i, m - j, Matched)' = PriceTo(n' - i', m' - j', Matched')
      BY <1>3
    <3> QED
      BY <1>3, <2>1, <2>2, <2>4, <3>1
  <2>6. Get(n, m)' = Get(n, m) /\ Get(i, j)' = Get(i', j')
    BY <1>3, <1>5, <1>8
  <2> QED
    BY <1>5, <1>8, <2>5, <2>6 DEF ReadingCost
<1>9. CASE Delete
  <2>1. ReadStep /\ ReadFrame /\ DeletionFits /\ i' = i - 1 /\ j' = j
        /\ pairs' = Append(pairs, [src |-> i, tgt |-> 0])
    BY <1>9 DEF Delete
  <2>2. i > 0 /\ Get(i, j) = Get(i - 1, j) + 1
    BY <2>1 DEF DeletionFits, Here
  <2>3. Get(i - 1, j) \in Nat
    BY <1>1, <1>5, <2>1, <2>2, GetInTable
  <2> QED
    BY <1>8, <2>1, <2>2, <2>3
<1>10. CASE Insert
  <2>1. ReadStep /\ ReadFrame /\ ~MatchFits /\ ~DeletionFits /\ i' = i /\ j' = j - 1
        /\ pairs' = Append(pairs, [src |-> 0, tgt |-> j])
    BY <1>10 DEF Insert
  <2>2. Get(i, j) = Get(i, j - 1) + 1
    BY <1>1, <1>5, <2>1, InsertionIsPaid DEF Here
  <2>3. Get(i, j - 1) \in Nat
    BY <1>1, <1>5, <2>1, GetInTable
  <2> QED
    BY <1>8, <2>1, <2>2, <2>3
<1>11. CASE UNCHANGED <<rows, i, j, pairs>> /\ (stage' # "fill" => stage # "fill")
  <2>1. \A k, c : Get(k, c)' = Get(k, c)
    BY <1>2, <1>11, SameInputs DEF Get
  <2>2. Matched' = Matched
    BY <1>11 DEF Matched, Range
  <2>3. Get(n, m)' = Get(n, m) /\ Get(i, j)' = Get(i, j)
    BY <1>3, <1>11, <2>1
  <2>4. PriceTo(n - i, m - j, Matched)' = PriceTo(n - i, m - j, Matched)
    BY <1>3, <1>11, <2>2
  <2> QED
    BY <1>11, <2>3, <2>4 DEF ReadingCost
<1>12. FillRow \/ Match \/ Delete \/ Insert
       \/ (UNCHANGED <<rows, i, j, pairs>> /\ (stage' # "fill" => stage # "fill"))
  BY DEF AlignNext, EndReading, RefuseAnswer, EditMatched, alignVars
<1> QED
  BY <1>4, <1>7, <1>9, <1>10, <1>11, <1>12

(* A walk through the corridor: from the first cell, one deletion,         *)
(* insertion or pair at a time, adding up what each costs, over cells the  *)
(* table holds.                                                            *)
WalkStep(from, to) ==
    \/ to.row = from.row + 1 /\ to.col = from.col /\ to.cost = from.cost + 1
    \/ to.row = from.row /\ to.col = from.col + 1 /\ to.cost = from.cost + 1
    \/ /\ to.row = from.row + 1 /\ to.col = from.col + 1
       /\ to.cost = from.cost + 2 - sim(to.row, to.col)

WalkCell == [row : Nat, col : Nat, cost : Nat]

WalkInCorridor(w) ==
    /\ w \in Seq(WalkCell) /\ w # <<>>
    /\ w[1] = [row |-> 0, col |-> 0, cost |-> 0]
    /\ \A k \in DOMAIN w : w[k].row \in 0..n /\ w[k].col \in Columns(w[k].row)
    /\ \A k \in 1..(Len(w) - 1) : WalkStep(w[k], w[k + 1])

(* No walk that stays inside the corridor, however narrow it is, reaches   *)
(* the last cell for less than the alignment read back costs.              *)
CheapestInCorridor ==
    stage = "aligned" =>
        \A w : WalkInCorridor(w) /\ w[Len(w)].row = n /\ w[Len(w)].col = m
                    => w[Len(w)].cost >= Price(Matched)

(* A step of a walk pays at least what the table asks for it. *)
LEMMA WalkPays ==
    ASSUME Table, NEW from \in WalkCell, NEW to \in WalkCell, WalkStep(from, to),
           from.row \in 0..n, from.col \in Columns(from.row),
           to.row \in 0..n, to.col \in Columns(to.row),
           Get(from.row, from.col) =< from.cost
    PROVE  Get(to.row, to.col) =< to.cost
<1> DEFINE r == to.row
           c == to.col
<1>1. /\ Inputs /\ n \in Nat /\ m \in Nat /\ c \in 0..m /\ from.col \in 0..m
      /\ from.row \in Nat /\ from.col \in Nat /\ from.cost \in Nat
      /\ r \in Nat /\ c \in Nat /\ to.cost \in Nat
  BY InputsSized, ColumnsAre DEF Table, WalkCell
<1>2. /\ Get(from.row, from.col) \in Nat /\ Get(from.row, from.col) < Unreached
      /\ Get(r, c) \in Nat /\ Get(r, c) =< r + c
  BY CellsReached
<1>3. CASE r # 0 /\ c # 0
  <2>1. r \in 1..n /\ c \in 1..m /\ c > 0
    BY <1>1, <1>3
  <2>2. /\ Get(r, c) =< Plus(Get(r - 1, c), 1)
        /\ Get(r, c) =< Plus(Get(r, c - 1), 1)
        /\ Get(r, c) =< Plus(Get(r - 1, c - 1), 2 - sim(r, c))
    BY <2>1, CellInTable
  <2>3. sim(r, c) \in 0..2
    BY <1>1, <2>1, SimRange
  <2>4. CASE r = from.row + 1 /\ c = from.col /\ to.cost = from.cost + 1
    <3>1. r - 1 = from.row
      BY <1>1, <2>4
    <3>2. Get(r, c) =< Get(from.row, from.col) + 1
      BY <1>2, <2>2, <2>4, <3>1 DEF Plus
    <3> QED
      BY <1>1, <1>2, <2>4, <3>2
  <2>5. CASE r = from.row /\ c = from.col + 1 /\ to.cost = from.cost + 1
    <3>1. c - 1 = from.col
      BY <1>1, <2>5
    <3>2. Get(r, c) =< Get(from.row, from.col) + 1
      BY <1>2, <2>2, <2>5, <3>1 DEF Plus
    <3> QED
      BY <1>1, <1>2, <2>5, <3>2
  <2>6. CASE r = from.row + 1 /\ c = from.col + 1 /\ to.cost = from.cost + 2 - sim(r, c)
    <3>1. r - 1 = from.row /\ c - 1 = from.col
      BY <1>1, <2>6
    <3>2. Get(r, c) =< Get(from.row, from.col) + (2 - sim(r, c))
      BY <1>2, <2>2, <3>1 DEF Plus
    <3> QED
      BY <1>1, <1>2, <2>3, <2>6, <3>2
  <2> QED
    BY <2>4, <2>5, <2>6 DEF WalkStep
<1>4. CASE r = 0 \/ c = 0
  <2>1. /\ \/ r = from.row + 1 /\ c = from.col
           \/ r = from.row /\ c = from.col + 1
        /\ to.cost = from.cost + 1
        /\ from.row = 0 \/ from.col = 0
    BY <1>1, <1>4 DEF WalkStep
  <2>2. Get(from.row, from.col) = from.row + from.col
    BY <1>1, <2>1, GetInTable
  <2> QED
    BY <1>1, <1>2, <2>1, <2>2
<1> QED
  BY <1>3, <1>4

LEMMA WalksPay ==
    ASSUME Table, NEW w, WalkInCorridor(w)
    PROVE  Get(w[Len(w)].row, w[Len(w)].col) =< w[Len(w)].cost
<1> DEFINE Under(k) == Get(w[k].row, w[k].col) =< w[k].cost
           Over == {k \in 1..Len(w) : ~Under(k)}
<1>1. /\ Len(w) \in Nat \ {0} /\ DOMAIN w = 1..Len(w)
      /\ \A k \in 1..Len(w) : w[k] \in WalkCell
  BY DEF WalkInCorridor
<1>2. Under(1)
  <2>1. w[1].row = 0 /\ w[1].col = 0 /\ w[1].cost = 0
    BY DEF WalkInCorridor
  <2>2. 0 \in Columns(0) /\ 0 \in 0..n
    BY <1>1, <2>1 DEF WalkInCorridor
  <2>3. Get(0, 0) = 0
    BY <2>2, GetInTable
  <2> QED
    BY <2>1, <2>3
<1>3. ASSUME NEW k \in 1..(Len(w) - 1), Under(k)
      PROVE  Under(k + 1)
  <2>1. k \in 1..Len(w) /\ k + 1 \in 1..Len(w)
    BY <1>1
  <2>2. /\ w[k] \in WalkCell /\ w[k + 1] \in WalkCell /\ WalkStep(w[k], w[k + 1])
        /\ w[k].row \in 0..n /\ w[k].col \in Columns(w[k].row)
        /\ w[k + 1].row \in 0..n /\ w[k + 1].col \in Columns(w[k + 1].row)
    BY <1>1, <2>1 DEF WalkInCorridor
  <2> QED
    BY <1>3, <2>2, WalkPays
<1> HIDE DEF Under
<1>4. Over = {}
  <2>1. SUFFICES ASSUME Over # {} PROVE FALSE
    OBVIOUS
  <2>2. Over \in SUBSET Nat
    BY <1>1
  <2>3. PICK k \in Over : \A l \in Over : k =< l
    <3> HIDE DEF Over
    <3> QED
      BY ONLY <2>1, <2>2, LeastOf
  <2>4. k \in 1..Len(w) /\ ~Under(k) /\ k # 1
    BY <1>2
  <2>5. k - 1 \in 1..(Len(w) - 1) /\ k - 1 \in 1..Len(w) /\ (k - 1) + 1 = k /\ ~(k =< k - 1)
    BY <1>1, <2>4
  <2>6. Under(k - 1)
    BY <2>3, <2>5
  <2>7. Under((k - 1) + 1)
    BY <1>3, <2>5, <2>6
  <2> QED
    BY <2>4, <2>5, <2>7
<1>5. Len(w) \in 1..Len(w)
  BY <1>1
<1> QED
  BY <1>4, <1>5 DEF Under

(* What is read back costs what the table says, and in any corridor no     *)
(* walk inside it is cheaper; when the corridor covers the table, no       *)
(* monotone reading at all is, for every two sequences and every           *)
(* similarity (alignment.py, align_tokens).                                *)
THEOREM ReadingIsCheapest == AlignSpec => [](CheapestReading /\ CheapestInCorridor)
<1>1. AlignInv /\ ReadingCost => CheapestReading
  <2>1. SUFFICES ASSUME AlignInv, ReadingCost, stage = "aligned"
                 PROVE  /\ Price(Matched) = Get(n, m)
                        /\ band = NoBand \/ band >= Longest =>
                              \A M \in Readings : Price(M) >= Price(Matched)
    BY DEF CheapestReading
  <2>2. Table /\ Inputs /\ i = 0 /\ j = 0 /\ 0 \in Columns(0) /\ n \in Nat /\ m \in Nat
    BY <2>1, InputsSized DEF AlignInv, AtHand, AtEnd, Table
  <2>3. Get(0, 0) = 0 /\ Get(n, m) \in Nat
    BY <2>2, GetInTable
  <2>4. \A M : PriceTo(n, m, M) = Price(M)
    BY DEF PriceTo, Price
  <2>5. Price(Matched) = Get(n, m)
    <3>1. Get(n, m) = 0 + PriceTo(n, m, Matched)
      BY <2>1, <2>2, <2>3 DEF ReadingCost
    <3>2. PICK M \in SUBSET Corner(n, m) : M = Matched
      BY <2>1, MatchedIn
    <3>3. PriceTo(n, m, M) \in Int
      <4>1. /\ Cardinality(M) \in Nat
            /\ Cardinality(PairsOf(M, 0)) \in Nat /\ Cardinality(PairsOf(M, 1)) \in Nat
        BY <2>2, CornerIsFinite
      <4> QED
        BY <2>2, <4>1 DEF PriceTo
    <3> QED
      BY <2>4, <3>1, <3>2, <3>3
  <2>6. ASSUME band = NoBand \/ band >= Longest, NEW M \in Readings
        PROVE  Price(M) >= Price(Matched)
    <3>1. M \in SUBSET Corner(n, m) /\ Monotone(M)
      BY <2>6 DEF Readings, Corner
    <3>2. Get(n, m) =< PriceTo(n, m, M)
      BY <2>2, <2>6, <3>1, TableIsCheapest
    <3>3. PriceTo(n, m, M) \in Int
      <4>1. /\ Cardinality(M) \in Nat
            /\ Cardinality(PairsOf(M, 0)) \in Nat /\ Cardinality(PairsOf(M, 1)) \in Nat
        BY <2>2, <3>1, CornerIsFinite
      <4> QED
        BY <2>2, <4>1 DEF PriceTo
    <3> QED
      BY <2>3, <2>4, <2>5, <3>2, <3>3
  <2> QED
    BY <2>5, <2>6
<1>2. AlignInv /\ ReadingCost => CheapestInCorridor
  <2>1. SUFFICES ASSUME AlignInv, ReadingCost, stage = "aligned",
                        NEW w, WalkInCorridor(w), w[Len(w)].row = n, w[Len(w)].col = m
                 PROVE  w[Len(w)].cost >= Price(Matched)
    BY DEF CheapestInCorridor
  <2>2. Table /\ n \in Nat
    BY <2>1, InputsSized DEF AlignInv, AtHand
  <2>3. Price(Matched) = Get(n, m) /\ Get(n, m) \in Nat
    BY <1>1, <2>1, <2>2, GetInTable DEF CheapestReading
  <2>4. Get(n, m) =< w[Len(w)].cost
    BY <2>1, <2>2, WalksPay
  <2>5. w[Len(w)].cost \in Nat
    <3>1. w \in Seq(WalkCell) /\ w # <<>>
      BY <2>1 DEF WalkInCorridor
    <3>2. w[Len(w)] \in WalkCell
      BY ONLY <3>1
    <3> QED
      BY <3>2 DEF WalkCell
  <2> QED
    BY <2>3, <2>4, <2>5
<1>3. AlignInit => ReadingCost
  BY DEF AlignInit, Aligning, ReadingCost
<1>4. AlignInv /\ ReadingCost /\ [AlignNext]_alignVars => ReadingCost'
  BY ReadingCostNext
<1> QED
  BY <1>1, <1>2, <1>3, <1>4, AlignInvInit, AlignInvStep, PTL DEF AlignSpec
=============================================================================
